------------------------------ MODULE Catalogue ------------------------------
(***************************************************************************)
(* The detector that chooses a framework plugin for a workspace            *)
(* (framework-detector.service.js) and those who spawn a preview with its  *)
(* answer: the pipeline, the user, a change of the port, the agent's hot   *)
(* reload and the watchdog.  Directories and plugins are those of module   *)
(* Frameworks.                                                             *)
(***************************************************************************)
EXTENDS Frameworks, Naturals, SequencesExt

CONSTANTS
    Archives,    \* uploads: the root, by name the directories below it, and the
                 \* subfolder the user gives, "" if none
    Subfolders,  \* names such a directory may have, in the order of detection
    Additions,   \* marker files that healing may write, or an edit add to the root
    Injections,  \* packages of npm that healing may add to a package.json
    MaxSpawns    \* bound: previews spawned in a behaviour

\* An archive has a directory, empty or not, under every name.
Workspaces == [files : SUBSET STRING, deps : SUBSET STRING, dev : SUBSET STRING,
               scripts : SUBSET STRING, built : BOOLEAN]

ASSUME ArchivesAreWorkspaces ==
    /\ \A a \in Archives : a.root \in Workspaces /\ a.sub \in [ToSet(Subfolders) -> Workspaces]
                           /\ a.target \in {""} \cup ToSet(Subfolders)
    /\ Subfolders \in Seq(STRING) /\ "" \notin ToSet(Subfolders)
    /\ Additions \subseteq STRING /\ Injections \subseteq STRING

\* Every directory a behaviour can come to, and its plugins.
Uploaded == UNION {{a.root} \cup {a.sub[s] : s \in DOMAIN a.sub} : a \in Archives}
Directories ==
    {[files |-> d.files \cup made, deps |-> d.deps \cup put, dev |-> d.dev, scripts |-> d.scripts,
      built |-> b] :
        d \in Uploaded, made \in SUBSET Additions, put \in SUBSET Injections, b \in BOOLEAN}
PluginTable == [d \in Directories |-> Plugins(d)]

VARIABLES
    root,       \* the directory builds/<jobId>
    sub,        \* [subfolder name -> directory], Nothing if there is none
    target,     \* targetSubfolder of the deployment, "" if none is given
    detection,  \* what the pipeline detected
    outcome,     \* "submitted", "building", "deployed", "failed"
    healed,     \* healing wrote a file, or added a package some plugin looks for
    edited,     \* the workspace was edited after the detection
    container,   \* the container of the preview
    spawns

catalogue == <<root, sub, target, detection, outcome, healed, edited, container, spawns>>

-----------------------------------------------------------------------------
(***************************************************************************)
(* The detector.                                                           *)
(***************************************************************************)
MicroserviceDeps == {"amqplib", "kafkajs", "redis", "turbo", "celery", "grpcio", "tonic",
                     "spring-cloud", "eureka"}
Manifests == {"package.json", "requirements.txt", "Cargo.toml", "pom.xml"}

\* below: the directories below d.
Architecture(d, below) ==
    IF \/ Has(d, {"docker-compose.yml", "k8s", "gateway"})
       \/ \E a, b \in DOMAIN below : a # b /\ Has(below[a], Manifests) /\ Has(below[b], Manifests)
       \/ Has(d, Manifests) /\ (d.deps \cup d.dev) \cap MicroserviceDeps # {}
    THEN "microservice" ELSE "monolithic"

\* Of the plugins at some places of the order, the one that is asked first.
Asked(d, places) == IF places = {} THEN Generic ELSE PluginTable[d][Min(places)]

First(d) ==
    LET plugins == PluginTable[d] IN Asked(d, {i \in DOMAIN plugins : plugins[i].detects})

Detected(d, below, dir) ==
    LET p == First(d)
    IN [framework |-> p.id, dir |-> dir, gui |-> p.gui, build |-> p.build,
        image |-> p.preview, architecture |-> Architecture(d, below)]

NoDirs == [s \in {} |-> Nothing]
Recognised(d) == First(d).id # "generic"
Below == {s \in DOMAIN sub : sub[s] # Nothing}
Dir(s) == IF s = "" THEN root ELSE sub[s]

\* Where the detection starts: the subfolder the user gave, the only directory
\* of an archive, or the root.
Top(subfolder) ==
    IF subfolder \in Below THEN subfolder
    ELSE IF root.files = {} /\ \E s \in Below : Below = {s} THEN CHOOSE s \in Below : TRUE
    ELSE ""

\* If nothing is recognised there, the first directory in which something is.
WithManifest == {i \in DOMAIN Subfolders : Subfolders[i] \in Below /\ Recognised(sub[Subfolders[i]])}
Where(subfolder) ==
    LET top == Top(subfolder)
    IN IF Recognised(Dir(top)) \/ WithManifest = {} THEN top ELSE Subfolders[Min(WithManifest)]

DetectFramework(subfolder) ==
    LET dir == Where(subfolder)
    IN Detected(Dir(dir), IF dir = "" THEN [s \in Below |-> sub[s]] ELSE NoDirs, dir)

-----------------------------------------------------------------------------
(***************************************************************************)
(* Previews.                                                               *)
(***************************************************************************)
NoPreview == [by |-> "none", up |-> FALSE]

PluginOf(framework, d) ==
    LET plugins == PluginTable[d] IN Asked(d, {i \in DOMAIN plugins : plugins[i].id = framework})

\* The command is the one of the framework the caller names, the image is
\* detected in the directory that is mounted: Command and Image of a preview
\* are what they were at the spawn, unless the workspace was edited since: no
\* preview is spawned here before the build is over.
Command(p) == PluginOf(p.framework, Dir(p.dir)).start
Image(p) == (IF p.dir = "" THEN DetectFramework("") ELSE Detected(Dir(p.dir), NoDirs, p.dir)).image

CatalogueInit ==
    /\ \E a \in Archives : root = a.root /\ sub = a.sub /\ target = a.target
    /\ detection = [framework |-> "none"]
    /\ outcome = "submitted" /\ healed = FALSE /\ edited = FALSE
    /\ container = NoPreview /\ spawns = 0

Tools(image) ==
    CASE image = "node"       -> {"node", "npm", "npx", "yarn", "sh", "binary", "echo"}
      [] image = "bun"        -> {"bun", "sh", "binary", "echo"}
      [] image = "maven"      -> {"mvn", "java", "echo"}
      [] image = "gradle"     -> {"gradle", "java", "echo"}
      [] image = "jre"        -> {"java", "echo"}
      [] image = "dotnet-sdk" -> {"dotnet-sdk", "dotnet", "echo"}
      [] image = "aspnet"     -> {"dotnet", "echo"}
      [] image = "python"     -> {"python", "sh", "echo"}
      [] image = "elixir"     -> {"mix", "echo"}
      [] image = "ruby"       -> {"bundle", "echo"}
      [] image = "composer"   -> {"composer", "php", "echo"}
      [] image = "rust"       -> {"cargo", "binary", "echo"}
      [] image = "golang"     -> {"go", "binary", "echo"}
      [] OTHER                -> {image, "echo"}

Compiles(b) == b.tools \subseteq Tools(b.image)
WithOutput(d) == [d EXCEPT !.built = TRUE]

Over == outcome \in {"deployed", "failed"}

\* The pipeline detects once, before it heals and builds.
RunPipeline ==
    /\ outcome = "submitted"
    /\ detection' = DetectFramework(target)
    /\ outcome' = "building"
    /\ UNCHANGED <<root, sub, target, healed, edited, container, spawns>>

Rewrite(dir, d) ==
    IF dir = "" THEN root' = d /\ UNCHANGED sub
    ELSE sub' = [sub EXCEPT ![dir] = d] /\ UNCHANGED root

\* A module that the build does not find is added to the package.json.
HealPackage ==
    /\ outcome = "building" /\ Has(Dir(detection.dir), {"package.json"})
    /\ \E p \in Injections :
         /\ Rewrite(detection.dir, [Dir(detection.dir) EXCEPT !.deps = @ \cup {p}])
         /\ healed' = (healed \/ p \in PluginPackages)
    /\ UNCHANGED <<target, detection, outcome, edited, container, spawns>>

\* Patches of the language model; the .env files of the user and the options
\* of the build are written as well, none of them a marker file.
HealFiles ==
    /\ outcome = "building"
    /\ \E f \in Additions :
         Rewrite(detection.dir, [Dir(detection.dir) EXCEPT !.files = @ \cup {f}])
    /\ healed' = TRUE
    /\ UNCHANGED <<target, detection, outcome, edited, container, spawns>>

\* The command is the one of the detection, whatever healing wrote since.
\* A build that fails leaves the workspace where it is.
EndBuild ==
    /\ outcome = "building"
    /\ \/ /\ Compiles(detection.build)
          /\ outcome' = "deployed"
          /\ Rewrite(detection.dir, WithOutput(Dir(detection.dir)))
       \/ outcome' = "failed" /\ UNCHANGED <<root, sub>>
    /\ UNCHANGED <<target, detection, healed, edited, container, spawns>>

Spawn(by, dir, framework) ==
    /\ spawns < MaxSpawns
    /\ container' = [by |-> by, dir |-> dir, framework |-> framework, up |-> TRUE]
    /\ spawns' = spawns + 1
    /\ UNCHANGED <<root, sub, target, detection, outcome, healed, edited>>

\* A desktop application gets no preview.
PipelinePreview ==
    /\ outcome = "deployed" /\ spawns = 0 /\ container = NoPreview
    /\ ~detection.gui
    /\ Spawn("pipeline", detection.dir, detection.framework)

\* Mutant: the root is detected and not the deployment's subfolder.
StartAnywhere ==
    /\ Over /\ ~container.up
    /\ LET found == DetectFramework("") IN Spawn("user", found.dir, found.framework)

\* startDeploymentPreview: the subfolder of the deployment is detected anew.
\* One that is started while the build runs is of module Pipelines.
StartAgain ==
    /\ Over /\ ~container.up
    /\ LET found == DetectFramework(target) IN Spawn("user", found.dir, found.framework)

\* changeDeploymentPort of a running preview stops it and spawns it again.
ChangePort ==
    /\ container # NoPreview
    /\ LET found == DetectFramework(target) IN Spawn("port", found.dir, found.framework)

\* The agent's hot reload: the root, with what is detected from the root.
HotReload ==
    /\ outcome = "deployed" /\ edited
    /\ Spawn("agent", "", DetectFramework("").framework)

\* The watchdog: the root, with a field that a deployment does not have.
Watchdog ==
    /\ container # NoPreview /\ ~container.up
    /\ Spawn("watchdog", "", "nextjs")

ContainerDies ==
    /\ container # NoPreview /\ container.up
    /\ container' = [container EXCEPT !.up = FALSE]
    /\ UNCHANGED <<root, sub, target, detection, outcome, healed, edited, spawns>>

StopPreview ==
    /\ container # NoPreview
    /\ container' = NoPreview
    /\ UNCHANGED <<root, sub, target, detection, outcome, healed, edited, spawns>>

\* A patch of the agent, the editor or the terminal.
Edit ==
    /\ outcome # "submitted" /\ ~edited
    /\ \E f \in Additions : root' = [root EXCEPT !.files = @ \cup {f}]
    /\ edited' = TRUE
    /\ UNCHANGED <<sub, target, detection, outcome, healed, container, spawns>>

CatalogueNext ==
    \/ RunPipeline \/ HealPackage \/ HealFiles \/ EndBuild \/ PipelinePreview \/ StartAgain \/ ChangePort
    \/ HotReload \/ Watchdog \/ ContainerDies \/ StopPreview \/ Edit

CatalogueSpec == CatalogueInit /\ [][CatalogueNext]_catalogue

-----------------------------------------------------------------------------
(***************************************************************************)
(* "More-specific plugins MUST come before broader catch-alls to avoid     *)
(* false positives" (framework-detector.service.js:68), with the pairs its *)
(* comments name: a workspace the specific plugin knows is not built as    *)
(* an application of the general one, whatever else lies in it.            *)
(***************************************************************************)
Precedes == {<<"quarkus", "spring">>, <<"blazor", "dotnet">>, <<"rails", "sinatra">>,
             <<"symfony", "php">>, <<"deno-fresh", "deno">>, <<"fastapi", "django">>,
             <<"flask", "django">>, <<"elysia", "bun-native">>, <<"sveltekit", "svelte">>,
             <<"sveltekit", "vite">>, <<"express", "mern">>, <<"vite", "mern">>}

\* Nothing a plugin looks for was written since the detection.
Untouched == ~healed /\ ~edited

Detects(id, d) == \E p \in ToSet(PluginTable[d]) : p.id = id /\ p.detects

SpecificFirst ==
    outcome # "submitted" /\ Untouched =>
        \A p \in Precedes :
            detection.framework = p[2] => ~Detects(p[1], Dir(detection.dir))

(***************************************************************************)
(* The pipeline spawns what it detected; the other callers detect again    *)
(* instead of asking the deployment.  A manual start and a change of the   *)
(* port mount the directory that was built, with its framework, as long as *)
(* nobody edits the workspace and healing wrote nothing a plugin looks     *)
(* for: neither the output of the build nor another package matters.       *)
(***************************************************************************)
Spawned(by) == spawns' # spawns /\ container'.by \in by
AsBuilt(p) == p.dir = detection.dir /\ p.framework = detection.framework

SpawnsAsBuilt ==
    /\ Spawned({"pipeline"}) => AsBuilt(container')
    /\ Spawned({"user", "port"}) /\ Untouched => AsBuilt(container')
SpawnedAsBuilt == [][SpawnsAsBuilt]_catalogue

(***************************************************************************)
(* Image and command of a preview come from different calls of different   *)
(* functions, before and after the workspace was healed and built: the     *)
(* image has the tool that the command runs, with the same proviso.        *)
(***************************************************************************)
CommandFitsImage ==
    container.by \in {"pipeline", "user", "port"} /\ outcome = "deployed" /\ Untouched =>
        Command(container).tool \in Tools(Image(container))

(***************************************************************************)
(* Not so: the proviso is not needed.  An Express server whose build does  *)
(* not find mongoose is another framework's once healing has added it, and *)
(* a lock file of Bun changes the image.                                   *)
(***************************************************************************)
HealedAsBuilt == [][Spawned({"user", "port"}) /\ ~edited => AsBuilt(container')]_catalogue
CommandAlwaysFits ==
    container.by \in {"pipeline", "user", "port"} /\ outcome = "deployed" =>
        Command(container).tool \in Tools(Image(container))

(***************************************************************************)
(* "automatically re-spawns them cleanly" (process-manager.service.js:     *)
(* 1487): the watchdog spawns again what was running.                      *)
(***************************************************************************)
RespawnedAsBuilt == [][Spawned({"watchdog"}) /\ Untouched => AsBuilt(container')]_catalogue

(***************************************************************************)
(* The hot reload's message, "Your changes are live": the agent's respawn  *)
(* mounts the directory of the application.                                *)
(***************************************************************************)
ReloadedInPlace == [][Spawned({"agent"}) => container'.dir = detection.dir]_catalogue

(***************************************************************************)
(* The pair that is in the wrong order: "full-stack React framework built  *)
(* on Next.js" (frameworks/blitz.js:5).                                    *)
(***************************************************************************)
BlitzIsNotNext ==
    outcome # "submitted" /\ Untouched /\ detection.framework = "nextjs" =>
        ~Detects("blitz", Dir(detection.dir))

(***************************************************************************)
(* The port that is published is the one the application listens on.       *)
(***************************************************************************)
ListensOnPort == container.by = "pipeline" /\ Untouched => Command(container).port \in {"arg", "env"}

(***************************************************************************)
(* The image of a build has the tools of its command.                      *)
(***************************************************************************)
BuildFitsImage == outcome # "submitted" => Compiles(detection.build)
=============================================================================
