------------------------------ MODULE Pipelines ------------------------------
(***************************************************************************)
(* The build pipelines of the deployment service                           *)
(* (Web/backend/src/services/pipeline-runner.service.js with               *)
(* interaction-manager.service.js and pruning.service.js, and the handlers *)
(* of controllers/devops.controller.js and github.controller.js that start *)
(* and remove builds).                                                     *)
(*                                                                         *)
(* A pipeline is one asynchronous call; a step is the work up to the       *)
(* await at which something else may happen to its document, its workspace *)
(* or its archive.  The commands it runs, Docker, the language model and   *)
(* the application are external and may fail at any time.  How a preview   *)
(* is spawned is the subject of module Previews; here it is up or not.     *)
(***************************************************************************)
EXTENDS Naturals, FiniteSets

CONSTANTS
    Jobs,         \* builds, identified by their jobId
    MaxBuilds,    \* maxBuildsPerUser of the thresholds
    MaxCrashes    \* bound: crashes of the server in a behaviour

ASSUME BoundsAreNumbers == MaxBuilds \in Nat /\ MaxCrashes \in Nat

\* maxRetries of the build loop.
MaxRetries == 3

VARIABLES
    pc,          \* where the pipeline of each job is
    status,      \* of the document; "absent" before, "gone" after its life
    attempts,    \* buildAttempts
    commands,    \* build commands run so far
    docker,      \* dockerAvailable
    pending,     \* pendingInteractions
    verdict,     \* deploymentStatus, the local variable
    zip,         \* jobs whose source archive is on disk
    workspace,   \* "absent", "log" (only pipeline.log), "source", "built"
    lean,        \* jobs whose dependencies the pruner took away
    artifact,    \* jobs whose artifact archive is on disk
    listed,      \* jobs whose document has an artifactPath
    preview,     \* previewStatus
    watch,       \* spawn in the background: "no", "starting", "checking"
    pruned,      \* isPruned
    sweep,       \* candidates of the running cycle of the pruner
    removal,     \* where the deletion of a job is, "no" if none is under way
    seen,        \* jobs whose deletion read an artifactPath
    unlinked,    \* jobs whose artifact was taken by a deletion that has not ended well
    crashes

vars == <<pc, status, attempts, commands, docker, pending, verdict, zip, workspace,
          lean, artifact, listed, preview, watch, pruned, sweep, removal, seen, unlinked, crashes>>
run    == <<attempts, commands, docker, verdict>>
disk   == <<zip, workspace, lean, artifact>>
record == <<status, listed, preview, pruned>>
deletion == <<removal, seen, unlinked>>
others == <<watch, sweep, deletion, crashes>>

Quiet == {"none", "done", "lost"}
Exists(j) == status[j] \notin {"absent", "gone"}

Init ==
    /\ pc = [j \in Jobs |-> "none"] /\ status = [j \in Jobs |-> "absent"]
    /\ attempts = [j \in Jobs |-> 0] /\ commands = [j \in Jobs |-> 0]
    /\ docker = [j \in Jobs |-> FALSE] /\ verdict = [j \in Jobs |-> "failed"]
    /\ pending = {} /\ zip = {} /\ lean = {} /\ artifact = {} /\ listed = {}
    /\ workspace = [j \in Jobs |-> "absent"]
    /\ preview = [j \in Jobs |-> "none"] /\ watch = [j \in Jobs |-> "no"]
    /\ pruned = {} /\ sweep = {} /\ crashes = 0
    /\ removal = [j \in Jobs |-> "no"] /\ seen = {} /\ unlinked = {}

Go(j, step) == pc' = [pc EXCEPT ![j] = step]

\* Mutant: a document that was deleted is written again.
Upserted(j, s) == [status EXCEPT ![j] = s]
\* findByIdAndUpdate: a document that was deleted stays away.
Written(j, s) == [status EXCEPT ![j] = IF Exists(j) THEN s ELSE @]

\* logToJob creates the directory of the job again when it is missing.
Logged(j, w) == [workspace EXCEPT ![j] = IF w = "absent" THEN "log" ELSE w]

\* throw: the catch logs, the finally comes next.
GiveUp(j) ==
    /\ verdict' = [verdict EXCEPT ![j] = "failed"]
    /\ Go(j, "settle")

-----------------------------------------------------------------------------
(***************************************************************************)
(* Entry.  An upload is counted against the limit, an import is not.       *)
(***************************************************************************)
Upload(j) ==
    /\ pc[j] = "none"
    /\ Cardinality({k \in Jobs : Exists(k)}) < MaxBuilds
    /\ zip' = zip \cup {j}
    /\ Go(j, "admitted")
    /\ UNCHANGED <<run, record, pending, workspace, lean, artifact, others>>

CreateDeployment(j) ==
    /\ pc[j] = "admitted"
    /\ \/ status' = [status EXCEPT ![j] = "pending"] /\ Go(j, "init") /\ UNCHANGED zip
       \/ zip' = zip \ {j} /\ Go(j, "done") /\ UNCHANGED status
    /\ UNCHANGED <<run, listed, preview, pruned, pending, workspace, lean, artifact, others>>

ImportGithubRepo(j) ==
    /\ pc[j] = "none"
    /\ status' = [status EXCEPT ![j] = "pending"]
    /\ Go(j, "clone")
    /\ UNCHANGED <<run, listed, preview, pruned, pending, disk, others>>

Clone(j) ==
    /\ pc[j] = "clone"
    /\ \/ zip' = zip \cup {j} /\ Go(j, "init") /\ UNCHANGED <<status, workspace>>
       \/ /\ status' = Written(j, "failed") /\ Go(j, "done")
          /\ workspace' = Logged(j, workspace[j])
          /\ UNCHANGED zip
    /\ UNCHANGED <<run, listed, preview, pruned, pending, lean, artifact, others>>

-----------------------------------------------------------------------------
(***************************************************************************)
(* runPipeline.                                                            *)
(***************************************************************************)
Initialize(j) ==
    /\ pc[j] = "init"
    /\ status' = Written(j, "building")
    /\ Go(j, "extract")
    /\ UNCHANGED <<run, listed, preview, pruned, pending, disk, others>>

Extract(j) ==
    /\ pc[j] = "extract"
    /\ \/ /\ workspace' = [workspace EXCEPT ![j] = "source"]
          /\ docker' \in {docker, [docker EXCEPT ![j] = TRUE]}
          /\ Go(j, "audit")
          /\ UNCHANGED verdict
       \/ /\ workspace' = Logged(j, workspace[j])
          /\ GiveUp(j)
          /\ UNCHANGED docker
    /\ UNCHANGED <<attempts, commands, record, pending, zip, lean, artifact, others>>

\* Upgrades off, none found, applied at once, or the audit failed.
Audit(j) ==
    /\ pc[j] = "audit"
    /\ Go(j, "prepare")
    /\ workspace' = Logged(j, workspace[j])
    /\ UNCHANGED <<run, record, pending, zip, lean, artifact, others>>

\* upgradeMode "semi-automatic": the user has ten seconds to choose.
WaitForUserSelection(j) ==
    /\ pc[j] = "audit"
    /\ pending' = pending \cup {j}
    /\ Go(j, "paused")
    /\ UNCHANGED <<run, record, disk, others>>

Resume(j) ==
    /\ j \in pending
    /\ pending' = pending \ {j}
    /\ Go(j, "prepare")
    /\ UNCHANGED <<run, record, disk, others>>

\* Mutant: the timeout leaves the pending choice registered.
ResumeUnregistered(j) ==
    /\ pc[j] = "paused"
    /\ Go(j, "prepare")
    /\ UNCHANGED <<run, record, pending, disk, others>>

\* Mutant: the timeout drops the choice and does not resume the pipeline.
TimeoutForgets(j) ==
    /\ j \in pending
    /\ pending' = pending \ {j}
    /\ UNCHANGED <<pc, run, record, disk, others>>

SubmitUserSelection(j) == Resume(j)
SelectionTimeout(j)    == Resume(j)

\* The .env files, the credential scan and the build speed options: a failure
\* of the latter two is logged, of the first it ends the pipeline.
Prepare(j) ==
    /\ pc[j] = "prepare"
    /\ workspace' = Logged(j, workspace[j])
    /\ \/ Go(j, "build") /\ UNCHANGED verdict
       \/ GiveUp(j)
    /\ UNCHANGED <<attempts, commands, docker, record, pending, zip, lean, artifact, others>>

RunCommand(j, onSuccess, onFailure) ==
    /\ commands' = [commands EXCEPT ![j] = @ + 1]
    /\ \/ workspace' = [workspace EXCEPT ![j] = "built"] /\ Go(j, onSuccess)
       \/ workspace' = Logged(j, workspace[j]) /\ Go(j, onFailure)

Build(j) ==
    /\ pc[j] = "build"
    /\ RunCommand(j, "scan", "heal")
    /\ UNCHANGED <<attempts, docker, verdict, record, pending, zip, lean, artifact, others>>

RetryLimit(j) ==
    /\ pc[j] = "heal" /\ attempts[j] >= MaxRetries
    /\ GiveUp(j)
    /\ UNCHANGED <<attempts, commands, docker, record, pending, disk, others>>

\* Mutant: one attempt more than the limit.
RetryOffByOne(j) ==
    /\ pc[j] = "heal" /\ attempts[j] <= MaxRetries
    /\ attempts' = [attempts EXCEPT ![j] = @ + 1]
    /\ Go(j, "build")
    /\ UNCHANGED <<commands, docker, verdict, record, pending, disk, others>>

Retry(j) ==
    /\ pc[j] = "heal" /\ attempts[j] < MaxRetries
    /\ attempts' = [attempts EXCEPT ![j] = @ + 1]
    /\ Go(j, "build")
    /\ UNCHANGED <<commands, docker, verdict, record, pending, disk, others>>

\* What is tried depends on the log of the command: weaker type checks at the
\* first attempt, a missing package at the first two, a missing variable, and
\* at last the language model.  Its attempt counts whether it has a patch,
\* none, or does not answer.
RelaxTypes(j)     == attempts[j] = 0 /\ Retry(j)
InjectPackage(j)  == attempts[j] <= 1 /\ Retry(j)
InjectVariable(j) == Retry(j)
AskModel(j)       == Retry(j)

\* A peer dependency conflict at the first attempt runs the command again at
\* once, with --legacy-peer-deps and then with --force.
HealPeers(j) ==
    /\ pc[j] = "heal" /\ attempts[j] = 0 /\ MaxRetries > 0
    /\ RunCommand(j, "scan", "force")
    /\ UNCHANGED <<attempts, docker, verdict, record, pending, zip, lean, artifact, others>>

HealByForce(j) ==
    /\ pc[j] = "force"
    /\ RunCommand(j, "scan", "build")
    /\ attempts' = IF pc'[j] = "build" THEN [attempts EXCEPT ![j] = @ + 1] ELSE attempts
    /\ UNCHANGED <<docker, verdict, record, pending, zip, lean, artifact, others>>

-----------------------------------------------------------------------------
Scan(j) ==
    /\ pc[j] = "scan"
    /\ status' = Written(j, "scanning")
    /\ workspace' = Logged(j, workspace[j])
    /\ Go(j, "semgrep")
    /\ UNCHANGED <<run, listed, preview, pruned, pending, zip, lean, artifact, others>>

\* A scanner that fails leaves no report; only the pull of its image can end
\* the pipeline.
ScanStep(j, scanner, next) ==
    /\ pc[j] = scanner
    /\ workspace' = Logged(j, workspace[j])
    /\ \/ Go(j, next) /\ UNCHANGED verdict
       \/ docker[j] /\ GiveUp(j)
    /\ UNCHANGED <<attempts, commands, docker, record, pending, zip, lean, artifact, others>>

Semgrep(j) == ScanStep(j, "semgrep", "osv")
Osv(j)     == ScanStep(j, "osv", "trivy")
Trivy(j)   == ScanStep(j, "trivy", "package")

Package(j) ==
    /\ pc[j] = "package"
    /\ workspace' = Logged(j, workspace[j])
    /\ \/ /\ workspace[j] = "built"
          /\ artifact' = artifact \cup {j}
          /\ verdict' = [verdict EXCEPT ![j] = "deployed"]
          /\ Go(j, "launch")
       \/ GiveUp(j) /\ UNCHANGED artifact
    /\ UNCHANGED <<attempts, commands, docker, record, pending, zip, lean, others>>

\* A desktop application has no preview.  With Docker the preview goes on in
\* callbacks; without, spawnPreview returns after the health check.
Launch(j) ==
    /\ pc[j] = "launch"
    /\ \/ Go(j, "clear") /\ UNCHANGED <<verdict, watch>>
       \/ docker[j] /\ watch' = [watch EXCEPT ![j] = "starting"] /\ Go(j, "settle") /\ UNCHANGED verdict
       \/ ~docker[j] /\ Go(j, "host") /\ UNCHANGED <<verdict, watch>>
       \/ GiveUp(j) /\ UNCHANGED watch
    /\ UNCHANGED <<attempts, commands, docker, record, pending, disk, sweep, deletion, crashes>>

Shown(j, s) == [preview EXCEPT ![j] = IF Exists(j) THEN s ELSE @]

HealthVerdict(j) ==
    \/ status' = Written(j, "deployed") /\ preview' = Shown(j, "running")
    \/ status' = Written(j, "failed") /\ preview' = Shown(j, "stopped")

HostHealth(j) ==
    /\ pc[j] = "host"
    /\ HealthVerdict(j)
    /\ Go(j, "settle")
    /\ UNCHANGED <<run, listed, pruned, pending, disk, others>>

\* Mutant: the artifact is listed whatever the verdict.
SettleListing(j) ==
    /\ pc[j] \in {"settle", "clear"}
    /\ workspace' = IF pc[j] = "clear" THEN [workspace EXCEPT ![j] = "absent"] ELSE Logged(j, workspace[j])
    /\ zip' = zip \ {j}
    /\ status' = Written(j, verdict[j])
    /\ listed' = IF Exists(j) THEN listed \cup {j} ELSE listed
    /\ Go(j, "done")
    /\ UNCHANGED <<run, preview, pruned, pending, lean, artifact, others>>

\* finally: the workspace of a desktop application goes, the source archive
\* goes, and the document gets the pipeline's own verdict.
Settle(j) ==
    /\ pc[j] \in {"settle", "clear"}
    /\ workspace' = IF pc[j] = "clear" THEN [workspace EXCEPT ![j] = "absent"] ELSE Logged(j, workspace[j])
    /\ zip' = zip \ {j}
    /\ status' = Written(j, verdict[j])
    /\ listed' = IF verdict[j] = "deployed" /\ Exists(j) THEN listed \cup {j} ELSE listed
    /\ Go(j, "done")
    /\ UNCHANGED <<run, preview, pruned, pending, lean, artifact, others>>

-----------------------------------------------------------------------------
(***************************************************************************)
(* The preview in the background, and the requests of users.               *)
(***************************************************************************)
ContainerUp(j) ==
    /\ watch[j] = "starting"
    /\ watch' = [watch EXCEPT ![j] = "checking"]
    /\ preview' = Shown(j, "running")
    /\ UNCHANGED <<pc, run, status, listed, pruned, pending, disk, sweep, deletion, crashes>>

ContainerVerdict(j) ==
    /\ watch[j] = "checking"
    /\ HealthVerdict(j)
    /\ watch' = [watch EXCEPT ![j] = "no"]
    /\ UNCHANGED <<pc, run, listed, pruned, pending, disk, sweep, deletion, crashes>>

PreviewStops(j) ==
    /\ Exists(j) /\ preview[j] = "running"
    /\ preview' = [preview EXCEPT ![j] = "stopped"]
    /\ UNCHANGED <<pc, run, status, listed, pruned, pending, disk, others>>

\* startDeploymentPreview asks for the workspace only.
StartPreview(j) ==
    /\ Exists(j) /\ workspace[j] # "absent" /\ watch[j] = "no" /\ preview[j] # "running"
    /\ watch' = [watch EXCEPT ![j] = "starting"]
    /\ UNCHANGED <<pc, run, record, pending, disk, sweep, deletion, crashes>>

\* downloadArtifact answers with the file.
Downloadable(j) == status[j] = "deployed" /\ j \in listed /\ j \in artifact

-----------------------------------------------------------------------------
(***************************************************************************)
(* A deletion goes by the document as it was when it was read.  Its stop   *)
(* of the preview and its removal of files may fail; it goes on to the     *)
(* next.  Of two deletions of one job the second takes nothing more, so    *)
(* there is one at a time.                                                 *)
(***************************************************************************)
DeleteDeployment(j) ==
    /\ Exists(j) /\ removal[j] = "no"
    /\ removal' = [removal EXCEPT ![j] = "stopping"]
    /\ seen' = IF j \in listed THEN seen \cup {j} ELSE seen
    /\ UNCHANGED <<pc, run, record, pending, disk, watch, sweep, unlinked, crashes>>

\* The preview, then the directory and the archive in the same turn of the
\* event loop.
DeletionCleans(j) ==
    /\ removal[j] = "stopping"
    /\ removal' = [removal EXCEPT ![j] = "cleaned"]
    /\ preview' \in {preview, Shown(j, "stopped")}
    /\ workspace' \in {workspace, [workspace EXCEPT ![j] = "absent"]}
    /\ \/ j \in seen /\ artifact' = artifact \ {j} /\ unlinked' = unlinked \cup {j}
       \/ UNCHANGED <<artifact, unlinked>>
    /\ UNCHANGED <<pc, run, status, listed, pruned, pending, zip, lean, watch, sweep, seen, crashes>>

\* The document goes, or the database fails and it stays.
DeletionEnds(j) ==
    /\ removal[j] = "cleaned"
    /\ removal' = [removal EXCEPT ![j] = "no"]
    /\ seen' = seen \ {j}
    /\ \/ /\ status' = Written(j, "gone")
          /\ listed' = listed \ {j}
          /\ unlinked' = unlinked \ {j}
       \/ UNCHANGED <<status, listed, unlinked>>
    /\ UNCHANGED <<pc, run, preview, pruned, pending, disk, watch, sweep, crashes>>

-----------------------------------------------------------------------------
(***************************************************************************)
(* The pruner: one query, then one workspace after the other.  A document  *)
(* that is deleted meanwhile makes its save fail, which ends the cycle.    *)
(***************************************************************************)
RunPruningCycle ==
    /\ sweep = {}
    /\ sweep' = {j \in Jobs : status[j] = "deployed" /\ preview[j] # "running" /\ j \notin pruned}
    /\ sweep' # {}
    /\ UNCHANGED <<pc, run, record, pending, disk, watch, deletion, crashes>>

PruneDeploymentWorkspace(j) ==
    /\ j \in sweep
    /\ lean' = IF workspace[j] = "absent" THEN lean ELSE lean \cup {j}
    /\ IF Exists(j)
       THEN sweep' = sweep \ {j} /\ pruned' = pruned \cup {j}
       ELSE sweep' = {} /\ UNCHANGED pruned
    /\ UNCHANGED <<pc, run, status, listed, preview, pending, zip, workspace, artifact, watch, deletion, crashes>>

\* The server forgets its pipelines, its pauses, its spawns, its cycle and
\* the deletions under way.
Crash ==
    /\ crashes < MaxCrashes
    /\ crashes' = crashes + 1
    /\ pc' = [j \in Jobs |-> IF pc[j] \in Quiet THEN pc[j] ELSE "lost"]
    /\ pending' = {} /\ sweep' = {}
    /\ watch' = [j \in Jobs |-> "no"]
    /\ removal' = [j \in Jobs |-> "no"] /\ seen' = {}
    /\ UNCHANGED <<run, record, disk, unlinked>>

PipelineStep(j) ==
    \/ CreateDeployment(j) \/ Clone(j) \/ Initialize(j) \/ Extract(j) \/ Audit(j)
    \/ WaitForUserSelection(j) \/ SelectionTimeout(j) \/ Prepare(j) \/ Build(j)
    \/ RetryLimit(j) \/ RelaxTypes(j) \/ InjectPackage(j) \/ InjectVariable(j)
    \/ AskModel(j) \/ HealPeers(j) \/ HealByForce(j) \/ Scan(j)
    \/ Semgrep(j) \/ Osv(j) \/ Trivy(j) \/ Package(j) \/ Launch(j) \/ HostHealth(j) \/ Settle(j)

Next ==
    \/ \E j \in Jobs :
         \/ Upload(j) \/ ImportGithubRepo(j) \/ PipelineStep(j) \/ SubmitUserSelection(j)
         \/ ContainerUp(j) \/ ContainerVerdict(j) \/ PreviewStops(j) \/ StartPreview(j)
         \/ DeleteDeployment(j) \/ DeletionCleans(j) \/ DeletionEnds(j)
         \/ PruneDeploymentWorkspace(j)
    \/ RunPruningCycle
    \/ Crash

\* The event loop runs a pipeline on and the commands it waits for end;
\* nothing obliges a user.
Fairness == \A j \in Jobs : WF_vars(PipelineStep(j))

Spec == Init /\ [][Next]_vars
FairSpec == Spec /\ Fairness

-----------------------------------------------------------------------------
TypeOK ==
    /\ pc \in [Jobs -> Quiet \cup
         {"admitted", "clone", "init", "extract", "audit", "paused", "prepare", "build",
          "heal", "force", "scan", "semgrep", "osv", "trivy", "package", "launch", "host", "clear", "settle"}]
    /\ status \in [Jobs -> {"absent", "pending", "building", "scanning", "deployed", "failed", "gone"}]
    /\ attempts \in [Jobs -> 0..MaxRetries] /\ commands \in [Jobs -> Nat]
    /\ docker \in [Jobs -> BOOLEAN] /\ verdict \in [Jobs -> {"failed", "deployed"}]
    /\ workspace \in [Jobs -> {"absent", "log", "source", "built"}]
    /\ preview \in [Jobs -> {"none", "running", "stopped"}]
    /\ watch \in [Jobs -> {"no", "starting", "checking"}]
    /\ removal \in [Jobs -> {"no", "stopping", "cleaned"}]
    /\ \A s \in {pending, zip, lean, artifact, listed, pruned, sweep, seen, unlinked} : s \subseteq Jobs
    /\ crashes \in 0..MaxCrashes

(***************************************************************************)
(* A pipeline waits for a choice of its user exactly as long as the choice *)
(* can still be made: a late answer resumes nothing, and the timeout does  *)
(* not resume a pipeline a second time.                                    *)
(***************************************************************************)
PausedIffPending == pending = {j \in Jobs : pc[j] = "paused"}

(***************************************************************************)
(* A document that names an artifact exists, and a download finds the file *)
(* as long as no deletion of the build has unlinked it: the pipeline names *)
(* the file after it is written, and neither the pruner, a crash nor a     *)
(* deletion that read the document too early takes one that is named.      *)
(***************************************************************************)
ListedIsOnDisk ==
    \A j \in listed : Exists(j) /\ (status[j] = "deployed" => Downloadable(j) \/ j \in unlinked)

(***************************************************************************)
(* However a build fails and is healed, it runs its command at most        *)
(* MaxRetries + 1 times, and twice more for a peer dependency conflict.    *)
(***************************************************************************)
CommandsAreBounded == \A j \in Jobs : commands[j] <= MaxRetries + 3

(***************************************************************************)
(* A source archive does not outlive its pipeline, unless the server       *)
(* crashed under it.                                                       *)
(***************************************************************************)
ArchiveIsConsumed == \A j \in zip : pc[j] \notin {"none", "done"}

(***************************************************************************)
(* Every pipeline ends, with or without an answer of the user and however  *)
(* often its commands fail.                                                *)
(***************************************************************************)
PipelineEnds == \A j \in Jobs : pc[j] \notin Quiet ~> pc[j] \in Quiet

(***************************************************************************)
(* The pipeline, the health checks, deletions and crashes together         *)
(* implement the life of a build that module BuildLife states.             *)
(***************************************************************************)
Phase(j) ==
    CASE status[j] = "absent"                   -> "none"
      [] status[j] = "pending"                  -> "queued"
      [] status[j] \in {"building", "scanning"} -> "working"
      [] status[j] = "deployed"                 -> "good"
      [] status[j] = "failed"                   -> "bad"
      [] status[j] = "gone"                     -> "removed"

Life == INSTANCE BuildLife WITH phase <- [j \in Jobs |-> Phase(j)], offered <- listed

ImplementsBuildLife == Life!Spec

(***************************************************************************)
(* Not so: a preview that failed its health check stays failed.  Without   *)
(* Docker the pipeline writes its own verdict after the health check's.    *)
(***************************************************************************)
FailedCheckStays ==
    [][\A j \in Jobs : pc[j] = "settle" /\ status[j] = "failed" => status'[j] # "deployed"]_vars

(***************************************************************************)
(* Not so: a download always finds the file its document names.  Between   *)
(* the unlink and the removal of the document, and for good if a crash or  *)
(* an error of the database comes between them, it does not.               *)
(***************************************************************************)
DownloadsAlwaysFind == \A j \in listed : status[j] = "deployed" => Downloadable(j)

(***************************************************************************)
(* Not so: the dependencies of a running preview are left alone, a deleted *)
(* build leaves nothing on disk, no user has more builds than the limit.   *)
(***************************************************************************)
RunningIsNotPruned ==
    [][\A j \in Jobs : preview[j] = "running" => (j \in lean' => j \in lean)]_vars
DeletedLeavesNothing ==
    \A j \in Jobs : status[j] = "gone" /\ pc[j] \in Quiet =>
        workspace[j] = "absent" /\ j \notin artifact
WithinBuildLimit == Cardinality({j \in Jobs : Exists(j)}) <= MaxBuilds
=============================================================================
