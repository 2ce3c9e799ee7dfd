------------------------------- MODULE MCLaunch -------------------------------
(***************************************************************************)
(* From an archive to a preview, in three stages that share no variable:   *)
(* the pipeline (Pipelines), what it detects and who spawns the result     *)
(* (Catalogue), the databases and the container of a spawn (Provision).    *)
(* A behaviour is one of one stage; the variables of the other two rest.   *)
(***************************************************************************)
EXTENDS Pipelines, Catalogue, Provision

CONSTANT Stages  \* the stages a run has behaviours of
VARIABLE stage

-----------------------------------------------------------------------------
(* Eight variables an .env file may hold.                                  *)
\* One variable of every shape the environment treats differently.
MCEnvVars ==
    {[key |-> "DATABASE_URL", class |-> "host",   form |-> "url",      port |-> 5432, kind |-> "postgres"],
     [key |-> "DATABASE_URL", class |-> "host",   form |-> "url",      port |-> 3306, kind |-> "mysql"],
     [key |-> "MARIADB_ADDR", class |-> "plain",  form |-> "hostport", port |-> 3306, kind |-> "mariadb"],
     [key |-> "DB_HOST",      class |-> "host",   form |-> "bare",     port |-> 0,    kind |-> "none"],
     [key |-> "MONGO_NAME",   class |-> "plain",  form |-> "other",    port |-> 0,    kind |-> "mongodb"],
     [key |-> "BACKEND_URL",  class |-> "host",   form |-> "url",      port |-> 5000, kind |-> "none"],
     [key |-> "VITE_API",     class |-> "client", form |-> "url",      port |-> 5432, kind |-> "none"],
     [key |-> "PORT",         class |-> "plain",  form |-> "other",    port |-> 0,    kind |-> "none"]}

-----------------------------------------------------------------------------
(* Workspaces.                                                             *)
App(files, deps) == [Nothing EXCEPT !.files = files, !.deps = deps]
Node(deps) == App({"package.json", "index.js"}, deps)

\* One application of every framework.
Servers ==
    {App({"pom.xml"}, {"quarkus"}), App({"pom.xml"}, {"spring-cloud", "swing"}),
     App({"build.gradle"}, {}), App({"Cargo.toml"}, {"egui"}), App({"Cargo.toml"}, {}),
     App({"csproj"}, {"blazor"}), App({"csproj"}, {"aspnetcore"}), App({"sln"}, {}),
     App({"mix.exs"}, {}), App({"Gemfile"}, {"rails"}), App({"Gemfile"}, {"sinatra"}),
     App({"composer.json", "symfony.lock"}, {}), App({"composer.json"}, {"slim/slim"}),
     App({"index.php"}, {}), App({"deno.json"}, {"fresh"}), App({"deno.json"}, {}),
     App({"requirements.txt"}, {"fastapi"}), App({"pyproject.toml"}, {"flask"}),
     App({"requirements.txt", "manage.py"}, {"celery"}), App({"go.mod"}, {"gin-gonic/gin"}),
     App({"go.mod"}, {"gofiber/fiber", "fyne"}), App({"go.mod"}, {"labstack/echo"})}

NodeApps ==
    {Node({name}) : name \in
        {"elysia", "@tanstack/react-start", "@analogjs/platform", "next", "@sveltejs/kit",
         "nuxt", "astro", "@remix-run/react", "blitz", "@redwoodjs/core", "@solidjs/start",
         "svelte", "@builder.io/qwik", "nitropack", "marko", "preact", "gatsby",
         "react-scripts", "vite", "@angular/core", "@vue/cli-service", "@11ty/eleventy",
         "fastify", "hono", "koa", "h3", "express", "mongoose"}}

Sites == {App({"hugo.toml"}, {}), App({"index.html"}, {}), App({"README"}, {})}

With(a, b) == [files |-> a.files \cup b.files, deps |-> a.deps \cup b.deps,
               dev |-> {}, scripts |-> a.scripts \cup b.scripts, built |-> FALSE]

Locked == App({"bun.lockb"}, {})
Scripted2 == [App({"package.json"}, {}) EXCEPT !.scripts = {"start", "preview"}]
Typed(a) == [a EXCEPT !.files = (@ \ {"index.js"}) \cup {"index.ts"}]

\* What an archive may hold: an application, one locked with Bun, one with
\* scripts, one in TypeScript, or a mixture of two.
Apps == Servers \cup NodeApps \cup Sites
Mixtures ==
    {With(a, b) : a \in Servers, b \in {App({"requirements.txt"}, {"celery"}), App({"csproj"}, {"blazor"}), App({"pom.xml"}, {"quarkus"})}}
    \cup {With(a, b) : a \in NodeApps, b \in {Node({"vite"}), Node({"next"}), Node({"express"})}}
Roots ==
    Apps \cup Mixtures \cup {With(a, Locked) : a \in NodeApps} \cup {With(a, Scripted2) : a \in NodeApps}
    \cup {Typed(a) : a \in NodeApps} \cup {With(Typed(a), Locked) : a \in NodeApps}
    \cup {App({}, {})}

\* An application is at the root, or in one of two subfolders of five roots.
MCSubfolders == <<"backend", "web">>
Placed(s, d) == [name \in {"backend", "web"} |-> IF name = s THEN d ELSE Nothing]
MCArchives ==
    {[root |-> r, sub |-> Placed("", Nothing), target |-> ""] : r \in Roots}
    \cup {[root |-> r, sub |-> Placed(s, d), target |-> t] :
            r \in {Nothing, App({"README"}, {}), Node({"express"}), Node({"amqplib", "vite"}),
                   App({"requirements.txt"}, {"flask"})},
            s \in {"backend", "web"},
            d \in {Node({"express"}), App({"requirements.txt"}, {"flask"})},
            t \in {"", "backend", "web"}}

-----------------------------------------------------------------------------
\* An upload nobody builds, and a job with no variables that is never spawned.
NoCatalogue ==
    /\ root = Nothing /\ sub = Placed("", Nothing) /\ target = ""
    /\ detection = [framework |-> "none"] /\ outcome = "submitted"
    /\ healed = FALSE /\ edited = FALSE /\ container = NoPreview /\ spawns = 0

NoProvision ==
    /\ ProvisionInit
    /\ dotenv = {} /\ choice = "none" /\ php = "none"
    /\ ~script /\ ~temp /\ ~mern /\ ~bundle

MCInit ==
    /\ stage \in Stages
    /\ Init
    /\ IF stage = "catalogue" THEN CatalogueInit ELSE NoCatalogue
    /\ IF stage = "provision" THEN ProvisionInit ELSE NoProvision

OfPipelines == stage = "pipeline"  /\ UNCHANGED <<stage, catalogue, all>>
OfCatalogue == stage = "catalogue" /\ UNCHANGED <<stage, vars, all>>
OfProvision == stage = "provision" /\ UNCHANGED <<stage, vars, catalogue>>

MCNext ==
    \/ \E j \in Jobs :
        \/ OfPipelines /\ Upload(j)
        \/ OfPipelines /\ ImportGithubRepo(j)
        \/ OfPipelines /\ CreateDeployment(j)
        \/ OfPipelines /\ Clone(j)
        \/ OfPipelines /\ Initialize(j)
        \/ OfPipelines /\ Extract(j)
        \/ OfPipelines /\ Audit(j)
        \/ OfPipelines /\ WaitForUserSelection(j)
        \/ OfPipelines /\ SelectionTimeout(j)
        \/ OfPipelines /\ Prepare(j)
        \/ OfPipelines /\ Build(j)
        \/ OfPipelines /\ RetryLimit(j)
        \/ OfPipelines /\ RelaxTypes(j)
        \/ OfPipelines /\ InjectPackage(j)
        \/ OfPipelines /\ InjectVariable(j)
        \/ OfPipelines /\ AskModel(j)
        \/ OfPipelines /\ HealPeers(j)
        \/ OfPipelines /\ HealByForce(j)
        \/ OfPipelines /\ Scan(j)
        \/ OfPipelines /\ Semgrep(j)
        \/ OfPipelines /\ Osv(j)
        \/ OfPipelines /\ Trivy(j)
        \/ OfPipelines /\ Package(j)
        \/ OfPipelines /\ Launch(j)
        \/ OfPipelines /\ HostHealth(j)
        \/ OfPipelines /\ Settle(j)
        \/ OfPipelines /\ SubmitUserSelection(j)
        \/ OfPipelines /\ ContainerUp(j)
        \/ OfPipelines /\ ContainerVerdict(j)
        \/ OfPipelines /\ PreviewStops(j)
        \/ OfPipelines /\ StartPreview(j)
        \/ OfPipelines /\ DeleteDeployment(j)
        \/ OfPipelines /\ DeletionCleans(j)
        \/ OfPipelines /\ DeletionEnds(j)
        \/ OfPipelines /\ PruneDeploymentWorkspace(j)
    \/ OfPipelines /\ RunPruningCycle
    \/ OfPipelines /\ Crash
    \/ OfCatalogue /\ RunPipeline
    \/ OfCatalogue /\ HealPackage
    \/ OfCatalogue /\ HealFiles
    \/ OfCatalogue /\ EndBuild
    \/ OfCatalogue /\ PipelinePreview
    \/ OfCatalogue /\ StartAgain
    \/ OfCatalogue /\ ChangePort
    \/ OfCatalogue /\ HotReload
    \/ OfCatalogue /\ Watchdog
    \/ OfCatalogue /\ ContainerDies
    \/ OfCatalogue /\ StopPreview
    \/ OfCatalogue /\ Edit
    \/ OfProvision /\ PatchPhp
    \/ OfProvision /\ DetectDatabases
    \/ OfProvision /\ CreateNetwork
    \/ OfProvision /\ StartExisting
    \/ OfProvision /\ CreateDatabase
    \/ OfProvision /\ SeedDatabase
    \/ OfProvision /\ AllProvisioned
    \/ OfProvision /\ MakeEnv
    \/ OfProvision /\ RunContainer
    \/ OfProvision /\ BuildClient
    \/ OfProvision /\ StartProxy
    \/ OfProvision /\ ServerListens
    \/ OfProvision /\ HealthProbe
    \/ OfProvision /\ ServerDies
    \/ OfProvision /\ SpawnAgain

MCSpec == MCInit /\ [][MCNext]_<<stage, vars, catalogue, all>>

\* The pipelines' own fairness; the other stages have only safety properties.
MCFairSpec == MCSpec /\ Fairness
=============================================================================
