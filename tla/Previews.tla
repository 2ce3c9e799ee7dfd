------------------------------ MODULE Previews ------------------------------
(***************************************************************************)
(* The live previews of the deployment service                             *)
(* (Web/backend/src/services/process-manager.service.js and the handlers   *)
(* of controllers/devops.controller.js that start, stop, move and delete   *)
(* a preview).  A preview runs in a Docker container named after its job,  *)
(* or as a child process of the server when Docker fails.                  *)
(*                                                                         *)
(* Every asynchronous call of the service is a task; a step of a task is   *)
(* the code between two awaits.  Tasks of one job, the exit handlers of    *)
(* dead containers and processes, the watchdog and the requests interleave *)
(* freely.  Docker and the application are external: a ping, a create, a   *)
(* start and a health check may fail at any time, and an application may   *)
(* exit at any time.                                                       *)
(***************************************************************************)
EXTENDS Naturals, FiniteSets

CONSTANTS
    Jobs,         \* deployments, identified by their jobId
    Ports,        \* host ports a preview may ask for
    Tasks,        \* identities of the asynchronous calls in flight
    MaxRunning,   \* maxConcurrentContainers of the thresholds
    MaxRestarts,  \* bound: restarts of the server in a behaviour
    None          \* no job, port or task

ASSUME NoneIsOther == None \notin (Jobs \cup Ports \cup Tasks)
ASSUME BoundsAreNumbers == MaxRunning \in Nat /\ MaxRestarts \in Nat

VARIABLES
    registry,    \* runningPreviews: the task whose entry a job has
    rebuilding,  \* rebuildInProgress
    leaked,      \* jobs whose flag was left behind by a spawn that found no
                 \* Docker or threw before its first call to it
    allocated,   \* allocatedPorts
    doc,         \* the deployment document: status, previewStatus, previewPort
    box,         \* the container named devops-preview-<job>
    dbs,         \* jobs with database containers
    task,        \* the asynchronous calls
    sweep,       \* jobs the current tick of the watchdog has still to inspect
    restarts     \* restarts of the server so far

vars == <<registry, rebuilding, leaked, allocated, doc, box, dbs, task, sweep, restarts>>

NoBox == [owner |-> None, port |-> None, up |-> FALSE]
Idle  == [pc |-> "idle", job |-> None, port |-> None, entry |-> None,
          then |-> None, child |-> "none"]

SpawnStages == {"clear", "create", "start", "announce"}
Stages == SpawnStages \cup {"health", "wait", "exited", "host", "hostAnnounce",
                            "hostHealth", "probed", "reserved", "counted",
                            "stopClean", "stopEnd", "deleting", "idle"}

(***************************************************************************)
(* A task can be used for a new call when nothing refers to it any more.   *)
(***************************************************************************)
Free(t) ==
    /\ task[t] = Idle
    /\ \A j \in Jobs : registry[j] # t /\ box[j].owner # t
    /\ \A u \in Tasks : task[u].entry # t

Go(t, pc) == task' = [task EXCEPT ![t].pc = pc]

\* The call returns; the identity stays in use while its child process lives.
Done(t) ==
    task' = [task EXCEPT ![t] = IF @.child = "none" THEN Idle ELSE [@ EXCEPT !.pc = "idle"]]

\* findByIdAndUpdate: a deleted document is not created again.
Updated(d, change) == IF d.status = "gone" THEN d ELSE change
SetPreview(j, s) == doc' = [doc EXCEPT ![j] = Updated(@, [@ EXCEPT !.preview = s])]

ListedPort(p)   == \E j \in Jobs : registry[j] # None /\ task[registry[j]].port = p
ChildAlive(t)   == task[t].child = "alive"
PortBusy(p)     == \/ \E j \in Jobs : box[j].up /\ box[j].port = p
                   \/ \E t \in Tasks : ChildAlive(t) /\ task[t].port = p

Init ==
    /\ registry = [j \in Jobs |-> None]
    /\ rebuilding = {} /\ leaked = {} /\ allocated = {}
    /\ \E p \in [Jobs -> Ports] :
         doc = [j \in Jobs |-> [status |-> "deployed", preview |-> "none", port |-> p[j]]]
    /\ box = [j \in Jobs |-> NoBox]
    /\ dbs = {}
    /\ task = [t \in Tasks |-> Idle]
    /\ sweep = {}
    /\ restarts = 0

-----------------------------------------------------------------------------
(***************************************************************************)
(* Ports.  suggestPort tests the three sources of use, awaits a trial bind *)
(* and only then reserves the port for its pipeline.                       *)
(***************************************************************************)
ProbePort(t, j) ==
    /\ Free(t) /\ doc[j].status # "gone"
    /\ \E p \in Ports :
         /\ p \notin allocated /\ ~ListedPort(p) /\ ~PortBusy(p)
         /\ task' = [task EXCEPT ![t] = [Idle EXCEPT !.pc = "probed", !.job = j, !.port = p]]
    /\ UNCHANGED <<registry, rebuilding, leaked, allocated, doc, box, dbs, sweep, restarts>>

ReservePort(t) ==
    /\ task[t].pc = "probed"
    /\ allocated' = allocated \cup {task[t].port}
    /\ Go(t, "reserved")
    /\ UNCHANGED <<registry, rebuilding, leaked, doc, box, dbs, sweep, restarts>>

\* A pipeline that fails, or builds a desktop application, never spawns: it
\* keeps its port reserved.
AbandonPort(t) ==
    /\ task[t].pc = "reserved"
    /\ Done(t)
    /\ UNCHANGED <<registry, rebuilding, leaked, allocated, doc, box, dbs, sweep, restarts>>

\* startDeploymentPreview: the count of running previews is read first, the
\* spawn follows several awaits later.
CountRunning(t, j) ==
    /\ Free(t) /\ doc[j].status # "gone"
    /\ Cardinality({k \in Jobs : doc[k].preview = "running"}) < MaxRunning
    /\ task' = [task EXCEPT ![t] = [Idle EXCEPT !.pc = "counted", !.job = j, !.port = doc[j].port]]
    /\ UNCHANGED <<registry, rebuilding, leaked, allocated, doc, box, dbs, sweep, restarts>>

-----------------------------------------------------------------------------
(***************************************************************************)
(* spawnPreview.                                                           *)
(***************************************************************************)
\* The flag is set, and taken back at once when the job has an entry: also
\* the flag of another spawn of the job that is still at work.
Enter(t) ==
    /\ task[t].pc \in {"reserved", "counted"}
    /\ LET j == task[t].job IN
         IF registry[j] # None
         THEN /\ rebuilding' = rebuilding \ {j} /\ leaked' = leaked \ {j}
              /\ Done(t)
         ELSE /\ rebuilding' = rebuilding \cup {j}
              /\ Go(t, "clear")
              /\ UNCHANGED leaked
    /\ UNCHANGED <<registry, allocated, doc, box, dbs, sweep, restarts>>

\* No Docker: host mode, awaited by the caller, and nobody clears the flag.
SpawnWithoutDocker(t) ==
    /\ task[t].pc = "clear"
    /\ leaked' = leaked \cup {task[t].job}
    /\ task' = [task EXCEPT ![t].pc = "host", ![t].then = "awaited"]
    /\ UNCHANGED <<registry, rebuilding, allocated, doc, box, dbs, sweep, restarts>>

\* The detection of the framework, the query for the document and the patch of
\* the PHP files stand between the flag and the first try: what they throw goes
\* to the caller, which catches it, and the flag stays up.
SpawnThrows(t) ==
    /\ task[t].pc = "clear"
    /\ leaked' = leaked \cup {task[t].job}
    /\ Done(t)
    /\ UNCHANGED <<registry, rebuilding, allocated, doc, box, dbs, sweep, restarts>>

\* Containers with the name or with the port, whosever they are, are removed.
ClearConflicts(t) ==
    /\ task[t].pc = "clear"
    /\ box' = [j \in Jobs |->
                 IF j = task[t].job \/ box[j].port = task[t].port THEN NoBox ELSE box[j]]
    /\ Go(t, "create")
    /\ UNCHANGED <<registry, rebuilding, leaked, allocated, doc, dbs, sweep, restarts>>

\* Database containers are started or created before the application's; a
\* failure leaves what exists and falls back to the bridge network.
Provisioned(j) == {dbs, dbs \cup {j}}

CreateContainer(t) ==
    /\ task[t].pc = "create"
    /\ LET j == task[t].job IN
         /\ box[j] = NoBox
         /\ box' = [box EXCEPT ![j] = [owner |-> t, port |-> task[t].port, up |-> FALSE]]
         /\ dbs' \in Provisioned(j)
    /\ Go(t, "start")
    /\ UNCHANGED <<registry, rebuilding, leaked, allocated, doc, sweep, restarts>>

\* Mutant: the fall back to a child process leaves the rebuild flag up.
FallBackKeepingFlag(t) == Go(t, "host") /\ UNCHANGED <<rebuilding, leaked>>

FallBackToHost(t) ==
    /\ rebuilding' = rebuilding \ {task[t].job} /\ leaked' = leaked \ {task[t].job}
    /\ Go(t, "host")

CreateFails(t) ==
    /\ task[t].pc = "create"
    /\ dbs' \in Provisioned(task[t].job)
    /\ FallBackToHost(t)
    /\ UNCHANGED <<registry, allocated, doc, box, sweep, restarts>>

Mine(t) == box[task[t].job].owner = t

StartContainer(t) ==
    /\ task[t].pc = "start"
    /\ Mine(t) /\ ~PortBusy(task[t].port)
    /\ box' = [box EXCEPT ![task[t].job].up = TRUE]
    /\ registry' = [registry EXCEPT ![task[t].job] = t]
    /\ Go(t, "announce")
    /\ UNCHANGED <<rebuilding, leaked, allocated, doc, dbs, sweep, restarts>>

\* Mutant: the error of a start is caught only while the container is the caller's.
StartFailsWhenOwned(t) ==
    /\ task[t].pc = "start" /\ Mine(t)
    /\ box' = [box EXCEPT ![task[t].job] = NoBox]
    /\ FallBackToHost(t)
    /\ UNCHANGED <<registry, allocated, doc, dbs, sweep, restarts>>

StartFails(t) ==
    /\ task[t].pc = "start"
    /\ box' = IF Mine(t) THEN [box EXCEPT ![task[t].job] = NoBox] ELSE box
    /\ FallBackToHost(t)
    /\ UNCHANGED <<registry, allocated, doc, dbs, sweep, restarts>>

MarkRunning(t) ==
    doc' = [doc EXCEPT ![task[t].job] =
              Updated(@, [@ EXCEPT !.preview = "running", !.port = task[t].port])]

Announce(t) ==
    /\ task[t].pc = "announce"
    /\ MarkRunning(t)
    /\ rebuilding' = rebuilding \ {task[t].job} /\ leaked' = leaked \ {task[t].job}
    /\ Go(t, "health")
    /\ UNCHANGED <<registry, allocated, box, dbs, sweep, restarts>>

\* waitForHttpReady: any answer on the port will do, whoever gives it; the
\* time limit ends the wait otherwise.  A failure does not stop the application.
HealthVerdict(t) ==
    LET j == task[t].job IN
    \/ /\ PortBusy(task[t].port)
       /\ doc' = [doc EXCEPT ![j] = Updated(@, [@ EXCEPT !.status = "deployed"])]
    \/ doc' = [doc EXCEPT ![j] = Updated(@, [@ EXCEPT !.status = "failed", !.preview = "stopped"])]

Health(t) ==
    /\ task[t].pc = "health"
    /\ HealthVerdict(t)
    /\ Go(t, "wait")
    /\ UNCHANGED <<registry, rebuilding, leaked, allocated, box, dbs, sweep, restarts>>

-----------------------------------------------------------------------------
\* Mutant: the handler frees the port and leaves the registry entry.
OnExitKeepsEntry(t) ==
    /\ task[t].pc = "wait"
    /\ ~(Mine(t) /\ box[task[t].job].up)
    /\ allocated' = allocated \ {task[t].port}
    /\ Go(t, "exited")
    /\ UNCHANGED <<registry, rebuilding, leaked, doc, box, dbs, sweep, restarts>>

(***************************************************************************)
(* container.wait: the handler is attached after the health check, runs    *)
(* once the container is stopped or removed, and works by job, not by      *)
(* container.                                                              *)
(***************************************************************************)
OnExit(t) ==
    /\ task[t].pc = "wait"
    /\ ~(Mine(t) /\ box[task[t].job].up)
    /\ allocated' = allocated \ {task[t].port}
    /\ registry' = [registry EXCEPT ![task[t].job] = None]
    /\ Go(t, "exited")
    /\ UNCHANGED <<rebuilding, leaked, doc, box, dbs, sweep, restarts>>

\* cleanupDockerResources removes the containers of a job by name.
Cleanup(j) ==
    /\ box' = [box EXCEPT ![j] = NoBox]
    /\ dbs' = dbs \ {j}

CollectGarbage(t) ==
    /\ task[t].pc = "exited"
    /\ SetPreview(task[t].job, "stopped")
    /\ \/ task[t].job \notin rebuilding /\ Cleanup(task[t].job)
       \/ UNCHANGED <<box, dbs>>  \* a rebuild is in progress, or no Docker
    /\ Done(t)
    /\ UNCHANGED <<registry, rebuilding, leaked, allocated, sweep, restarts>>

-----------------------------------------------------------------------------
(***************************************************************************)
(* spawnHostPreview.                                                       *)
(***************************************************************************)
SpawnHost(t) ==
    /\ task[t].pc = "host"
    /\ registry' = [registry EXCEPT ![task[t].job] = t]
    /\ task' = [task EXCEPT ![t].pc = "hostAnnounce", ![t].child = "alive"]
    /\ UNCHANGED <<rebuilding, leaked, allocated, doc, box, dbs, sweep, restarts>>

HostAnnounce(t) ==
    /\ task[t].pc = "hostAnnounce"
    /\ MarkRunning(t)
    /\ Go(t, "hostHealth")
    /\ UNCHANGED <<registry, rebuilding, leaked, allocated, box, dbs, sweep, restarts>>

HostHealth(t) ==
    /\ task[t].pc = "hostHealth"
    /\ HealthVerdict(t)
    /\ Done(t)
    /\ UNCHANGED <<registry, rebuilding, leaked, allocated, box, dbs, sweep, restarts>>

\* What host mode throws, before the process is started or when the document
\* cannot be marked running, reaches a caller that awaits it; a process that
\* was started runs on under its close handler.  After a fallback from Docker
\* nobody awaits: the rejection ends the server, which is a Restart.  The write
\* of a verdict is taken to succeed.
HostThrows(t) ==
    /\ task[t].then = "awaited" /\ task[t].pc \in {"host", "hostAnnounce"}
    /\ Done(t)
    /\ UNCHANGED <<registry, rebuilding, leaked, allocated, doc, box, dbs, sweep, restarts>>

\* Mutant: the close handler does not write the document.
HostClosedSilently(t) ==
    /\ task[t].child = "dead"
    /\ allocated' = allocated \ {task[t].port}
    /\ registry' = [registry EXCEPT ![task[t].job] = None]
    /\ task' = [task EXCEPT ![t] = IF @.pc = "idle" THEN Idle ELSE [@ EXCEPT !.child = "none"]]
    /\ UNCHANGED <<rebuilding, leaked, doc, box, dbs, sweep, restarts>>

\* The close handler of a child process, again by job.
HostClosed(t) ==
    /\ task[t].child = "dead"
    /\ allocated' = allocated \ {task[t].port}
    /\ registry' = [registry EXCEPT ![task[t].job] = None]
    /\ SetPreview(task[t].job, "stopped")
    /\ task' = [task EXCEPT ![t] = IF @.pc = "idle" THEN Idle ELSE [@ EXCEPT !.child = "none"]]
    /\ UNCHANGED <<rebuilding, leaked, box, dbs, sweep, restarts>>

-----------------------------------------------------------------------------
(***************************************************************************)
(* stopPreview(job, isRestart), and what its caller does next: nothing, a  *)
(* new spawn (watchdog, change of port) or the deletion of the document.   *)
(***************************************************************************)
Stopping(t, j, next, p) ==
    /\ Free(t)
    /\ task' = [task EXCEPT ![t] = [Idle EXCEPT !.pc = "stopClean", !.job = j,
                                      !.entry = registry[j], !.then = next, !.port = p]]

StopRequest(t, j) ==
    /\ doc[j].status # "gone"
    /\ Stopping(t, j, "stop", None)
    /\ UNCHANGED <<registry, rebuilding, leaked, allocated, doc, box, dbs, sweep, restarts>>

\* changeDeploymentPort respawns when the document it read before the stop
\* said that the preview was running.
ChangePort(t, j, p) ==
    /\ doc[j].status # "gone"
    /\ Stopping(t, j, IF doc[j].preview = "running" THEN "move" ELSE "note", p)
    /\ UNCHANGED <<registry, rebuilding, leaked, allocated, doc, box, dbs, sweep, restarts>>

DeleteRequest(t, j) ==
    /\ doc[j].status # "gone"
    /\ Stopping(t, j, "delete", None)
    /\ UNCHANGED <<registry, rebuilding, leaked, allocated, doc, box, dbs, sweep, restarts>>

\* Only a stop that is no restart removes the containers by name.  The entry's
\* container is stopped by its handle, its process by a kill.
StopClean(t) ==
    /\ task[t].pc = "stopClean"
    /\ LET j == task[t].job
           e == task[t].entry
           byName == task[t].then = "stop"
           byHandle == e # None /\ box[j].owner = e
       IN /\ box' = IF byName \/ byHandle THEN [box EXCEPT ![j] = NoBox] ELSE box
          /\ dbs' = IF byName THEN dbs \ {j} ELSE dbs
          /\ task' = [u \in Tasks |->
                        CASE u = t -> [task[u] EXCEPT !.pc = "stopEnd"]
                          [] u = e /\ ChildAlive(u) -> [task[u] EXCEPT !.child = "dead"]
                          [] OTHER -> task[u]]
    /\ UNCHANGED <<registry, rebuilding, leaked, allocated, doc, sweep, restarts>>

StopEnd(t) ==
    /\ task[t].pc = "stopEnd"
    /\ LET j == task[t].job
           d == doc[j]
           e == task[t].entry
           next == task[t].then
       IN /\ IF e = None
             THEN UNCHANGED <<registry, allocated>>
             ELSE /\ registry' = [registry EXCEPT ![j] = None]
                  /\ allocated' = allocated \ {task[e].port}
          /\ doc' = [doc EXCEPT ![j] =
                       Updated(d, [d EXCEPT !.preview = "stopped",
                                            !.port = IF next \in {"move", "note"} THEN task[t].port ELSE d.port])]
          /\ task' = [task EXCEPT ![t] =
                        CASE next \in {"move", "heal"} -> [@ EXCEPT !.pc = "counted", !.entry = None, !.then = None]
                          [] next = "delete"           -> [@ EXCEPT !.pc = "deleting", !.entry = None]
                          [] OTHER                     -> Idle]
    /\ UNCHANGED <<rebuilding, leaked, box, dbs, sweep, restarts>>

\* deleteDeployment removes the files of the job, then its document.
DeleteDocument(t) ==
    /\ task[t].pc = "deleting"
    /\ doc' = [doc EXCEPT ![task[t].job].status = "gone", ![task[t].job].preview = "none"]
    /\ Done(t)
    /\ UNCHANGED <<registry, rebuilding, leaked, allocated, box, dbs, sweep, restarts>>

-----------------------------------------------------------------------------
(***************************************************************************)
(* The watchdog: one query for the documents marked running, then one      *)
(* inspection after the other.                                             *)
(***************************************************************************)
Sweep ==
    /\ sweep = {}
    /\ sweep' = {j \in Jobs : doc[j].preview = "running" /\ doc[j].status # "gone"}
    /\ sweep' # {}
    /\ UNCHANGED <<registry, rebuilding, leaked, allocated, doc, box, dbs, task, restarts>>

Crashed(j) == box[j] # NoBox /\ ~box[j].up

Inspect(j) ==
    /\ j \in sweep
    /\ sweep' = sweep \ {j}
    /\ IF j \notin rebuilding /\ Crashed(j)
       THEN \E t \in Tasks : Stopping(t, j, "heal", doc[j].port)
       ELSE UNCHANGED task
    /\ UNCHANGED <<registry, rebuilding, leaked, allocated, doc, box, dbs, restarts>>

-----------------------------------------------------------------------------
AppExits(j) ==
    /\ box[j].up
    /\ box' = [box EXCEPT ![j].up = FALSE]
    /\ UNCHANGED <<registry, rebuilding, leaked, allocated, doc, dbs, task, sweep, restarts>>

ChildExits(t) ==
    /\ ChildAlive(t)
    /\ task' = [task EXCEPT ![t].child = "dead"]
    /\ UNCHANGED <<registry, rebuilding, leaked, allocated, doc, box, dbs, sweep, restarts>>

\* A restart of the server forgets the registry, the flags, the ports and the
\* calls; the documents and the containers stay.  It is modelled at moments
\* without a child process.
Restart ==
    /\ restarts < MaxRestarts
    /\ \A t \in Tasks : task[t].child = "none"
    /\ restarts' = restarts + 1
    /\ registry' = [j \in Jobs |-> None]
    /\ rebuilding' = {} /\ leaked' = {} /\ allocated' = {}
    /\ task' = [t \in Tasks |-> Idle]
    /\ box' = [j \in Jobs |-> [box[j] EXCEPT !.owner = None]]
    /\ sweep' = {}
    /\ UNCHANGED <<doc, dbs>>

SpawnStep(t) ==
    \/ ReservePort(t) \/ Enter(t) \/ SpawnWithoutDocker(t) \/ SpawnThrows(t) \/ ClearConflicts(t)
    \/ CreateContainer(t) \/ CreateFails(t) \/ StartContainer(t) \/ StartFails(t)
    \/ Announce(t) \/ Health(t) \/ OnExit(t) \/ CollectGarbage(t)
    \/ SpawnHost(t) \/ HostAnnounce(t) \/ HostHealth(t) \/ HostThrows(t)

TaskStep(t) == SpawnStep(t) \/ StopClean(t) \/ StopEnd(t) \/ DeleteDocument(t)

Request ==
    \E t \in Tasks, j \in Jobs :
      \/ ProbePort(t, j) \/ CountRunning(t, j) \/ StopRequest(t, j) \/ DeleteRequest(t, j)
      \/ \E p \in Ports : ChangePort(t, j, p)

Next ==
    \/ Request
    \/ \E t \in Tasks : TaskStep(t) \/ AbandonPort(t) \/ HostClosed(t) \/ ChildExits(t)
    \/ Sweep
    \/ \E j \in Jobs : Inspect(j) \/ AppExits(j)
    \/ Restart

\* The event loop runs every call on to its next await; nothing obliges users
\* to ask, applications to exit or a server to restart.
Fairness ==
    /\ \A t \in Tasks : WF_vars(TaskStep(t)) /\ WF_vars(HostClosed(t))

Spec == Init /\ [][Next]_vars
FairSpec == Spec /\ Fairness

-----------------------------------------------------------------------------
TypeOK ==
    /\ registry \in [Jobs -> Tasks \cup {None}]
    /\ rebuilding \subseteq Jobs /\ leaked \subseteq Jobs
    /\ allocated \subseteq Ports
    /\ doc \in [Jobs -> [status: {"deployed", "failed", "gone"},
                         preview: {"none", "running", "stopped"}, port: Ports]]
    /\ box \in [Jobs -> [owner: Tasks \cup {None}, port: Ports \cup {None}, up: BOOLEAN]]
    /\ dbs \subseteq Jobs /\ sweep \subseteq Jobs
    /\ task \in [Tasks -> [pc: Stages, job: Jobs \cup {None}, port: Ports \cup {None},
                           entry: Tasks \cup {None},
                           then: {None, "stop", "move", "note", "delete", "heal", "awaited"},
                           child: {"none", "alive", "dead"}]]
    /\ restarts \in 0..MaxRestarts

(***************************************************************************)
(* An entry of runningPreviews belongs to a call of its own job that still *)
(* watches the preview: nothing is left in the list for good by a call     *)
(* that has returned.                                                      *)
(***************************************************************************)
Watching(t) == \/ task[t].pc \in {"announce", "health", "wait", "hostAnnounce", "hostHealth"}
               \/ task[t].child # "none"

EntryIsWatched ==
    \A j \in Jobs : registry[j] # None =>
        task[registry[j]].job = j /\ Watching(registry[j])

(***************************************************************************)
(* A job in rebuildInProgress is being spawned.  The only flags nobody     *)
(* will clear are those of a spawn that found no Docker or threw before    *)
(* its first call to it: the watchdog and the exit handler then skip that  *)
(* job until the next spawn.                                               *)
(***************************************************************************)
FlagHasHolder ==
    \A j \in rebuilding \ leaked : \E t \in Tasks :
        task[t].job = j /\ task[t].pc \in SpawnStages

(***************************************************************************)
(* A spawn ends whatever Docker and the application do: it is given up or  *)
(* the preview is under watch.                                             *)
(***************************************************************************)
SpawnSettles ==
    \A t \in Tasks : task[t].pc \in SpawnStages \cup {"host", "hostAnnounce"} ~>
        task[t].pc \in {"idle", "health", "wait", "hostHealth"}

Alive(j) == box[j].up \/ \E t \in Tasks : ChildAlive(t) /\ task[t].job = j

(***************************************************************************)
(* A document does not say "running" for ever of a preview that is dead,   *)
(* as long as the server itself is not restarted.                          *)
(***************************************************************************)
DeathIsNoticed ==
    \A j \in Jobs : (doc[j].preview = "running" /\ ~Alive(j) /\ restarts = 0)
        ~> (doc[j].preview # "running" \/ Alive(j) \/ restarts > 0)
=============================================================================
