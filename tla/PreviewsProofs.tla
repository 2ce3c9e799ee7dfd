--------------------------- MODULE PreviewsProofs ---------------------------
(***************************************************************************)
(* Theorems about the live previews of module Previews, for every set of   *)
(* jobs, ports and calls in flight. The type invariant is split by         *)
(* variable, because a step writes one record of one function; the calls   *)
(* need to be complete (they carry the job and the port their stage uses)  *)
(* and an entry to be held by a call.                                      *)
(***************************************************************************)
EXTENDS Previews, TLAPS

(***************************************************************************)
(* The records a call, a document and a container may be, and the type     *)
(* invariant in parts.                                                     *)
(***************************************************************************)
Calls ==
    [pc: Stages, job: Jobs \cup {None}, port: Ports \cup {None}, entry: Tasks \cup {None},
     then: {None, "stop", "move", "note", "delete", "heal", "awaited"}, child: {"none", "alive", "dead"}]

Docs ==
    [status: {"deployed", "failed", "gone"}, preview: {"none", "running", "stopped"}, port: Ports]

Boxes == [owner: Tasks \cup {None}, port: Ports \cup {None}, up: BOOLEAN]

CallsTyped == task \in [Tasks -> Calls]
DocsTyped == doc \in [Jobs -> Docs]
BoxesTyped == box \in [Jobs -> Boxes]
RestTyped ==
    /\ registry \in [Jobs -> Tasks \cup {None}]
    /\ rebuilding \subseteq Jobs /\ leaked \subseteq Jobs
    /\ allocated \subseteq Ports
    /\ dbs \subseteq Jobs /\ sweep \subseteq Jobs
    /\ restarts \in 0..MaxRestarts

(***************************************************************************)
(* A call knows what its stage needs: the job, the port of a spawn or of a *)
(* stop that will be followed by one; a child process is alive or unreaped *)
(* only while its call announces and checks it, or after that call has     *)
(* returned.                                                               *)
(***************************************************************************)
Answering == {"stopClean", "stopEnd", "deleting"}

CallsComplete ==
    \A t \in Tasks :
        /\ task[t].pc # "idle" \/ task[t].child # "none" => task[t].job \in Jobs
        /\ task[t].pc \notin Answering \cup {"idle"} => task[t].port \in Ports
        /\ task[t].pc \in Answering /\ task[t].then \in {"move", "note", "heal"} => task[t].port \in Ports
        /\ task[t].child # "none" => task[t].pc \in {"hostAnnounce", "hostHealth", "idle"}

(***************************************************************************)
(* Stronger than EntryIsWatched: a call of host mode that has lost its     *)
(* child process no longer has an entry, so its return takes none with it. *)
(***************************************************************************)
EntryIsHeld ==
    \A j \in Jobs : \A t \in Tasks : registry[j] = t =>
        /\ task[t].job = j
        /\ task[t].pc \in {"announce", "health", "wait"} \/ task[t].child # "none"

(***************************************************************************)
(* A step that writes one record of task with a proper one keeps the type; *)
(* the next lemmas are its uses: a move to another stage, a return, a      *)
(* stop.                                                                   *)
(***************************************************************************)
LEMMA CallWritten ==
    ASSUME CallsTyped, NEW t \in Tasks, NEW r \in Calls, task' = [task EXCEPT ![t] = r]
    PROVE CallsTyped'
  BY DEF CallsTyped

(***************************************************************************)
(* A call that goes on to another stage.                                   *)
(***************************************************************************)
LEMMA CallMoves ==
    ASSUME CallsTyped, NEW t \in Tasks, NEW s \in Stages, Go(t, s)
    PROVE CallsTyped'
<1>1. [task[t] EXCEPT !.pc = s] \in Calls
  BY DEF CallsTyped, Calls
<1> QED
  BY <1>1, CallWritten DEF Go

(***************************************************************************)
(* The record of an unused call is a proper one.                           *)
(***************************************************************************)
LEMMA IdleIsCall == Idle \in Calls
  BY DEF Idle, Calls, Stages

(***************************************************************************)
(* A call that returns.                                                    *)
(***************************************************************************)
LEMMA CallReturns ==
    ASSUME CallsTyped, NEW t \in Tasks, Done(t)
    PROVE CallsTyped'
<1>1. [task[t] EXCEPT !.pc = "idle"] \in Calls
  BY DEF CallsTyped, Calls, Stages
<1> QED
  BY <1>1, CallWritten, IdleIsCall DEF Done

(***************************************************************************)
(* A call that begins to stop a preview.                                   *)
(***************************************************************************)
LEMMA CallStops ==
    ASSUME CallsTyped, RestTyped, NEW t \in Tasks, NEW j \in Jobs, NEW p \in Ports \cup {None},
           NEW next \in {"stop", "move", "note", "delete", "heal"}, Stopping(t, j, next, p)
    PROVE CallsTyped'
<1>1. [Idle EXCEPT !.pc = "stopClean", !.job = j, !.entry = registry[j], !.then = next, !.port = p]
        \in Calls
  BY DEF Idle, Calls, Stages, RestTyped
<1> QED
  BY <1>1, CallWritten DEF Stopping

(***************************************************************************)
(* An update of a document that skips deleted ones keeps the type.         *)
(***************************************************************************)
LEMMA DocWritten ==
    ASSUME DocsTyped, NEW j \in Jobs, NEW d \in Docs, doc' = [doc EXCEPT ![j] = Updated(@, d)]
    PROVE DocsTyped'
  BY DEF DocsTyped, Updated

(***************************************************************************)
(* So does the verdict of a health check.                                  *)
(***************************************************************************)
LEMMA VerdictTyped ==
    ASSUME DocsTyped, NEW t \in Tasks, task[t].job \in Jobs, HealthVerdict(t)
    PROVE DocsTyped'
<1> DEFINE d == doc[task[t].job]
<1>1. [d EXCEPT !.status = "deployed"] \in Docs /\ [d EXCEPT !.status = "failed", !.preview = "stopped"] \in Docs
  BY DEF DocsTyped, Docs
<1> QED
  BY <1>1 DEF HealthVerdict, Updated, DocsTyped

(***************************************************************************)
(* And the mark of a preview that has come up.                             *)
(***************************************************************************)
LEMMA MarkTyped ==
    ASSUME DocsTyped, NEW t \in Tasks, task[t].job \in Jobs, task[t].port \in Ports, MarkRunning(t)
    PROVE DocsTyped'
<1> DEFINE d == doc[task[t].job]
<1>1. [d EXCEPT !.preview = "running", !.port = task[t].port] \in Docs
  BY DEF DocsTyped, Docs
<1> QED
  BY <1>1 DEF MarkRunning, Updated, DocsTyped

(***************************************************************************)
(* A stop carries the port its respawn will use.                           *)
(***************************************************************************)
LEMMA StopComplete ==
    ASSUME CallsTyped, CallsComplete, NEW t \in Tasks, NEW j \in Jobs, NEW p \in Ports \cup {None},
           NEW next \in {"stop", "move", "note", "delete", "heal"}, Stopping(t, j, next, p),
           next \in {"move", "note", "heal"} => p \in Ports
    PROVE CallsComplete'
<1> DEFINE r == [Idle EXCEPT !.pc = "stopClean", !.job = j, !.entry = registry[j], !.then = next, !.port = p]
<1>1. r.pc = "stopClean" /\ r.job = j /\ r.then = next /\ r.port = p /\ r.child = "none"
  BY DEF Idle
<1>2. task' = [task EXCEPT ![t] = r]
  BY DEF Stopping
<1> HIDE DEF r
<1>3. ASSUME NEW u \in Tasks PROVE task'[u] = IF u = t THEN r ELSE task[u]
  BY <1>2 DEF CallsTyped
<1> QED
  BY <1>1, <1>3, NoneIsOther DEF CallsComplete, Answering

(***************************************************************************)
(* Every step keeps the calls within their type.                           *)
(***************************************************************************)
LEMMA CallsStep ==
    ASSUME CallsTyped, DocsTyped, RestTyped, [Next]_vars
    PROVE CallsTyped'
<1>1. ASSUME NEW t \in Tasks, NEW j \in Jobs, ProbePort(t, j) PROVE CallsTyped'
  <2>1. PICK p \in Ports : task' = [task EXCEPT ![t] = [Idle EXCEPT !.pc = "probed", !.job = j, !.port = p]]
    BY <1>1 DEF ProbePort
  <2>2. [Idle EXCEPT !.pc = "probed", !.job = j, !.port = p] \in Calls
    BY DEF Idle, Calls, Stages
  <2> QED
    BY <2>1, <2>2, CallWritten
<1>2. ASSUME NEW t \in Tasks, ReservePort(t) PROVE CallsTyped'
  <2>1. Go(t, "reserved") /\ "reserved" \in Stages
    BY <1>2 DEF ReservePort, Stages, SpawnStages
  <2> QED
    BY <2>1, CallMoves
<1>3. ASSUME NEW t \in Tasks, AbandonPort(t) PROVE CallsTyped'
  BY <1>3, CallReturns DEF AbandonPort
<1>4. ASSUME NEW t \in Tasks, NEW j \in Jobs, CountRunning(t, j) PROVE CallsTyped'
  <2>1. task' = [task EXCEPT ![t] = [Idle EXCEPT !.pc = "counted", !.job = j, !.port = doc[j].port]]
    BY <1>4 DEF CountRunning
  <2>2. [Idle EXCEPT !.pc = "counted", !.job = j, !.port = doc[j].port] \in Calls
    BY DEF Idle, Calls, Stages, DocsTyped, Docs
  <2> QED
    BY <2>1, <2>2, CallWritten
<1>5. ASSUME NEW t \in Tasks, Enter(t) PROVE CallsTyped'
  <2>1. Done(t) \/ Go(t, "clear")
    BY <1>5 DEF Enter
  <2> QED
    BY <2>1, CallMoves, CallReturns DEF Stages, SpawnStages
<1>6. ASSUME NEW t \in Tasks, SpawnWithoutDocker(t) PROVE CallsTyped'
  <2>1. [task[t] EXCEPT !.pc = "host", !.then = "awaited"] \in Calls
    BY DEF CallsTyped, Calls, Stages
  <2>2. task' = [task EXCEPT ![t] = [task[t] EXCEPT !.pc = "host", !.then = "awaited"]]
    BY <1>6 DEF SpawnWithoutDocker
  <2> QED
    BY <2>1, <2>2, CallWritten
<1>7. ASSUME NEW t \in Tasks, ClearConflicts(t) PROVE CallsTyped'
  <2>1. Go(t, "create") /\ "create" \in Stages
    BY <1>7 DEF ClearConflicts, Stages, SpawnStages
  <2> QED
    BY <2>1, CallMoves
<1>8. ASSUME NEW t \in Tasks, CreateContainer(t) PROVE CallsTyped'
  <2>1. Go(t, "start") /\ "start" \in Stages
    BY <1>8 DEF CreateContainer, Stages, SpawnStages
  <2> QED
    BY <2>1, CallMoves
<1>9. ASSUME NEW t \in Tasks, CreateFails(t) PROVE CallsTyped'
  <2>1. Go(t, "host") /\ "host" \in Stages
    BY <1>9 DEF CreateFails, FallBackToHost, Stages, SpawnStages
  <2> QED
    BY <2>1, CallMoves
<1>10. ASSUME NEW t \in Tasks, StartContainer(t) PROVE CallsTyped'
  <2>1. Go(t, "announce") /\ "announce" \in Stages
    BY <1>10 DEF StartContainer, Stages, SpawnStages
  <2> QED
    BY <2>1, CallMoves
<1>11. ASSUME NEW t \in Tasks, StartFails(t) PROVE CallsTyped'
  <2>1. Go(t, "host") /\ "host" \in Stages
    BY <1>11 DEF StartFails, FallBackToHost, Stages, SpawnStages
  <2> QED
    BY <2>1, CallMoves
<1>12. ASSUME NEW t \in Tasks, Announce(t) PROVE CallsTyped'
  <2>1. Go(t, "health") /\ "health" \in Stages
    BY <1>12 DEF Announce, Stages, SpawnStages
  <2> QED
    BY <2>1, CallMoves
<1>13. ASSUME NEW t \in Tasks, Health(t) PROVE CallsTyped'
  <2>1. Go(t, "wait") /\ "wait" \in Stages
    BY <1>13 DEF Health, Stages, SpawnStages
  <2> QED
    BY <2>1, CallMoves
<1>14. ASSUME NEW t \in Tasks, OnExit(t) PROVE CallsTyped'
  <2>1. Go(t, "exited") /\ "exited" \in Stages
    BY <1>14 DEF OnExit, Stages, SpawnStages
  <2> QED
    BY <2>1, CallMoves
<1>15. ASSUME NEW t \in Tasks, CollectGarbage(t) PROVE CallsTyped'
  BY <1>15, CallReturns DEF CollectGarbage
<1>16. ASSUME NEW t \in Tasks, SpawnHost(t) PROVE CallsTyped'
  <2>1. [task[t] EXCEPT !.pc = "hostAnnounce", !.child = "alive"] \in Calls
    BY DEF CallsTyped, Calls, Stages
  <2>2. task' = [task EXCEPT ![t] = [task[t] EXCEPT !.pc = "hostAnnounce", !.child = "alive"]]
    BY <1>16 DEF SpawnHost
  <2> QED
    BY <2>1, <2>2, CallWritten
<1>17. ASSUME NEW t \in Tasks, HostAnnounce(t) PROVE CallsTyped'
  <2>1. Go(t, "hostHealth") /\ "hostHealth" \in Stages
    BY <1>17 DEF HostAnnounce, Stages, SpawnStages
  <2> QED
    BY <2>1, CallMoves
<1>18. ASSUME NEW t \in Tasks, HostHealth(t) PROVE CallsTyped'
  BY <1>18, CallReturns DEF HostHealth
<1>19. ASSUME NEW t \in Tasks, HostClosed(t) PROVE CallsTyped'
  <2>1. [task[t] EXCEPT !.child = "none"] \in Calls
    BY DEF CallsTyped, Calls
  <2> QED
    BY <1>19, <2>1, CallWritten, IdleIsCall DEF HostClosed
<1>20. ASSUME NEW t \in Tasks, NEW j \in Jobs, StopRequest(t, j) PROVE CallsTyped'
  BY <1>20, CallStops DEF StopRequest
<1>21. ASSUME NEW t \in Tasks, NEW j \in Jobs, NEW p \in Ports, ChangePort(t, j, p) PROVE CallsTyped'
  BY <1>21, CallStops DEF ChangePort
<1>22. ASSUME NEW t \in Tasks, NEW j \in Jobs, DeleteRequest(t, j) PROVE CallsTyped'
  BY <1>22, CallStops DEF DeleteRequest
<1>23. ASSUME NEW t \in Tasks, StopClean(t) PROVE CallsTyped'
  <2>1. ASSUME NEW u \in Tasks
        PROVE /\ task[u] \in Calls
              /\ [task[u] EXCEPT !.pc = "stopEnd"] \in Calls
              /\ [task[u] EXCEPT !.child = "dead"] \in Calls
    BY DEF CallsTyped, Calls, Stages
  <2>2. task' = [u \in Tasks |->
                   CASE u = t -> [task[u] EXCEPT !.pc = "stopEnd"]
                     [] u = task[t].entry /\ ChildAlive(u) -> [task[u] EXCEPT !.child = "dead"]
                     [] OTHER -> task[u]]
    BY <1>23 DEF StopClean
  <2> QED
    BY <2>1, <2>2 DEF CallsTyped
<1>24. ASSUME NEW t \in Tasks, StopEnd(t) PROVE CallsTyped'
  <2>1. /\ [task[t] EXCEPT !.pc = "counted", !.entry = None, !.then = None] \in Calls
        /\ [task[t] EXCEPT !.pc = "deleting", !.entry = None] \in Calls
    BY DEF CallsTyped, Calls, Stages
  <2> QED
    BY <1>24, <2>1, CallWritten, IdleIsCall DEF StopEnd
<1>25. ASSUME Sweep PROVE CallsTyped'
  BY <1>25 DEF Sweep, CallsTyped
<1>26. ASSUME NEW j \in Jobs, Inspect(j) PROVE CallsTyped'
  <2>1. doc[j].port \in Ports
    BY DEF DocsTyped, Docs
  <2> QED
    BY <1>26, <2>1, CallStops DEF Inspect, CallsTyped
<1>27. ASSUME NEW j \in Jobs, AppExits(j) PROVE CallsTyped'
  BY <1>27 DEF AppExits, CallsTyped
<1>28. ASSUME NEW t \in Tasks, ChildExits(t) PROVE CallsTyped'
  <2>1. [task[t] EXCEPT !.child = "dead"] \in Calls
    BY DEF CallsTyped, Calls
  <2> QED
    BY <1>28, <2>1, CallWritten DEF ChildExits
<1>29. ASSUME Restart PROVE CallsTyped'
  BY <1>29, IdleIsCall DEF Restart, CallsTyped
<1>30. CASE UNCHANGED vars
  BY <1>30 DEF vars, CallsTyped
<1>31. ASSUME NEW t \in Tasks, SpawnThrows(t) PROVE CallsTyped'
  BY <1>31, CallReturns DEF SpawnThrows
<1>32. ASSUME NEW t \in Tasks, HostThrows(t) PROVE CallsTyped'
  BY <1>32, CallReturns DEF HostThrows
<1>33. ASSUME NEW t \in Tasks, DeleteDocument(t) PROVE CallsTyped'
  BY <1>33, CallReturns DEF DeleteDocument
<1> QED
    BY <1>1, <1>2, <1>3, <1>4, <1>5, <1>6, <1>7, <1>8, <1>9, <1>10, <1>11, <1>12, <1>13, <1>14,
     <1>15, <1>16, <1>17, <1>18, <1>19, <1>20, <1>21, <1>22, <1>23, <1>24, <1>25, <1>26, <1>27,
     <1>28, <1>29, <1>30, <1>31, <1>32, <1>33 DEF Next, Request, TaskStep, SpawnStep

(***************************************************************************)
(* Every step keeps the documents within their type: a port written to a   *)
(* document is one of Ports, because the call that writes it is complete.  *)
(***************************************************************************)
LEMMA DocsStep ==
    ASSUME CallsTyped, CallsComplete, DocsTyped, [Next]_vars
    PROVE DocsTyped'
<1> USE DEF DocsTyped, Docs, Calls, CallsTyped, CallsComplete, Answering
<1>1. ASSUME NEW t \in Tasks, NEW j \in Jobs, ProbePort(t, j) PROVE DocsTyped'
  BY <1>1 DEF ProbePort
<1>2. ASSUME NEW t \in Tasks, ReservePort(t) PROVE DocsTyped'
  BY <1>2 DEF ReservePort, Go
<1>3. ASSUME NEW t \in Tasks, AbandonPort(t) PROVE DocsTyped'
  BY <1>3 DEF AbandonPort, Done
<1>4. ASSUME NEW t \in Tasks, NEW j \in Jobs, CountRunning(t, j) PROVE DocsTyped'
  BY <1>4 DEF CountRunning
<1>5. ASSUME NEW t \in Tasks, Enter(t) PROVE DocsTyped'
  BY <1>5 DEF Enter, Done, Go
<1>6. ASSUME NEW t \in Tasks, SpawnWithoutDocker(t) PROVE DocsTyped'
  BY <1>6 DEF SpawnWithoutDocker, Go
<1>7. ASSUME NEW t \in Tasks, ClearConflicts(t) PROVE DocsTyped'
  BY <1>7 DEF ClearConflicts, Go, NoBox
<1>8. ASSUME NEW t \in Tasks, CreateContainer(t) PROVE DocsTyped'
  BY <1>8 DEF CreateContainer, Go, Provisioned, NoBox
<1>9. ASSUME NEW t \in Tasks, CreateFails(t) PROVE DocsTyped'
  BY <1>9 DEF CreateFails, FallBackToHost, Go, Provisioned
<1>10. ASSUME NEW t \in Tasks, StartContainer(t) PROVE DocsTyped'
  BY <1>10 DEF StartContainer, Go, Mine
<1>11. ASSUME NEW t \in Tasks, StartFails(t) PROVE DocsTyped'
  BY <1>11 DEF StartFails, FallBackToHost, Go, Mine, NoBox
<1>12. ASSUME NEW t \in Tasks, Announce(t) PROVE DocsTyped'
  <2>1. MarkRunning(t) /\ task[t].job \in Jobs /\ task[t].port \in Ports
    BY <1>12 DEF Announce
  <2> QED
    BY <2>1, MarkTyped
<1>13. ASSUME NEW t \in Tasks, Health(t) PROVE DocsTyped'
  <2>1. HealthVerdict(t) /\ task[t].job \in Jobs
    BY <1>13 DEF Health
  <2> QED
    BY <2>1, VerdictTyped
<1>14. ASSUME NEW t \in Tasks, OnExit(t) PROVE DocsTyped'
  BY <1>14 DEF OnExit, Go
<1>15. ASSUME NEW t \in Tasks, CollectGarbage(t) PROVE DocsTyped'
  BY <1>15 DEF CollectGarbage, SetPreview, Updated, Cleanup, Done, NoBox
<1>16. ASSUME NEW t \in Tasks, SpawnHost(t) PROVE DocsTyped'
  BY <1>16 DEF SpawnHost
<1>17. ASSUME NEW t \in Tasks, HostAnnounce(t) PROVE DocsTyped'
  <2>1. MarkRunning(t) /\ task[t].job \in Jobs /\ task[t].port \in Ports
    BY <1>17 DEF HostAnnounce
  <2> QED
    BY <2>1, MarkTyped
<1>18. ASSUME NEW t \in Tasks, HostHealth(t) PROVE DocsTyped'
  <2>1. HealthVerdict(t) /\ task[t].job \in Jobs
    BY <1>18 DEF HostHealth
  <2> QED
    BY <2>1, VerdictTyped
<1>19. ASSUME NEW t \in Tasks, HostClosed(t) PROVE DocsTyped'
  BY <1>19 DEF HostClosed, SetPreview, Updated
<1>20. ASSUME NEW t \in Tasks, NEW j \in Jobs, StopRequest(t, j) PROVE DocsTyped'
  BY <1>20 DEF StopRequest, Stopping
<1>21. ASSUME NEW t \in Tasks, NEW j \in Jobs, NEW p \in Ports, ChangePort(t, j, p) PROVE DocsTyped'
  BY <1>21 DEF ChangePort, Stopping
<1>22. ASSUME NEW t \in Tasks, NEW j \in Jobs, DeleteRequest(t, j) PROVE DocsTyped'
  BY <1>22 DEF DeleteRequest, Stopping
<1>23. ASSUME NEW t \in Tasks, StopClean(t) PROVE DocsTyped'
  BY <1>23 DEF StopClean, ChildAlive, NoBox
<1>24. ASSUME NEW t \in Tasks, StopEnd(t) PROVE DocsTyped'
  <2> DEFINE j == task[t].job
             next == task[t].then
             d == [doc[j] EXCEPT !.preview = "stopped",
                                 !.port = IF next \in {"move", "note"} THEN task[t].port ELSE doc[j].port]
  <2>1. j \in Jobs /\ (next \in {"move", "note"} => task[t].port \in Ports)
    BY <1>24 DEF StopEnd
  <2>2. doc' = [doc EXCEPT ![j] = Updated(doc[j], d)]
    BY <1>24 DEF StopEnd
  <2>3. d \in Docs
    <3>1. doc[j] \in Docs
      BY <2>1
    <3> QED
      BY <2>1, <3>1
  <2> HIDE DEF d
  <2> QED
    BY <2>1, <2>2, <2>3 DEF Updated
<1>25. ASSUME Sweep PROVE DocsTyped'
  BY <1>25 DEF Sweep
<1>26. ASSUME NEW j \in Jobs, Inspect(j) PROVE DocsTyped'
  BY <1>26 DEF Inspect, Stopping
<1>27. ASSUME NEW j \in Jobs, AppExits(j) PROVE DocsTyped'
  BY <1>27 DEF AppExits
<1>28. ASSUME NEW t \in Tasks, ChildExits(t) PROVE DocsTyped'
  BY <1>28 DEF ChildExits, ChildAlive
<1>29. ASSUME Restart PROVE DocsTyped'
  BY <1>29 DEF Restart
<1>30. CASE UNCHANGED vars
  BY <1>30 DEF vars
<1>31. ASSUME NEW t \in Tasks, SpawnThrows(t) PROVE DocsTyped'
  BY <1>31 DEF SpawnThrows, Done
<1>32. ASSUME NEW t \in Tasks, HostThrows(t) PROVE DocsTyped'
  BY <1>32 DEF HostThrows, Done
<1>33. ASSUME NEW t \in Tasks, DeleteDocument(t) PROVE DocsTyped'
  BY <1>33 DEF DeleteDocument, Done
<1> QED
    BY <1>1, <1>2, <1>3, <1>4, <1>5, <1>6, <1>7, <1>8, <1>9, <1>10, <1>11, <1>12, <1>13, <1>14,
     <1>15, <1>16, <1>17, <1>18, <1>19, <1>20, <1>21, <1>22, <1>23, <1>24, <1>25, <1>26, <1>27,
     <1>28, <1>29, <1>30, <1>31, <1>32, <1>33 DEF Next, Request, TaskStep, SpawnStep

(***************************************************************************)
(* Every step keeps the containers within their type.                      *)
(***************************************************************************)
LEMMA BoxesStep ==
    ASSUME CallsTyped, BoxesTyped, [Next]_vars
    PROVE BoxesTyped'
<1> USE DEF BoxesTyped, Boxes, CallsTyped, Calls
<1>1. ASSUME NEW t \in Tasks, NEW j \in Jobs, ProbePort(t, j) PROVE BoxesTyped'
  BY <1>1 DEF ProbePort
<1>2. ASSUME NEW t \in Tasks, ReservePort(t) PROVE BoxesTyped'
  BY <1>2 DEF ReservePort, Go
<1>3. ASSUME NEW t \in Tasks, AbandonPort(t) PROVE BoxesTyped'
  BY <1>3 DEF AbandonPort, Done
<1>4. ASSUME NEW t \in Tasks, NEW j \in Jobs, CountRunning(t, j) PROVE BoxesTyped'
  BY <1>4 DEF CountRunning
<1>5. ASSUME NEW t \in Tasks, Enter(t) PROVE BoxesTyped'
  BY <1>5 DEF Enter, Done, Go
<1>6. ASSUME NEW t \in Tasks, SpawnWithoutDocker(t) PROVE BoxesTyped'
  BY <1>6 DEF SpawnWithoutDocker, Go
<1>7. ASSUME NEW t \in Tasks, ClearConflicts(t) PROVE BoxesTyped'
  BY <1>7 DEF ClearConflicts, Go, NoBox
<1>8. ASSUME NEW t \in Tasks, CreateContainer(t) PROVE BoxesTyped'
  BY <1>8 DEF CreateContainer, Go, Provisioned, NoBox
<1>9. ASSUME NEW t \in Tasks, CreateFails(t) PROVE BoxesTyped'
  BY <1>9 DEF CreateFails, FallBackToHost, Go, Provisioned
<1>10. ASSUME NEW t \in Tasks, StartContainer(t) PROVE BoxesTyped'
  BY <1>10 DEF StartContainer, Go, Mine
<1>11. ASSUME NEW t \in Tasks, StartFails(t) PROVE BoxesTyped'
  BY <1>11 DEF StartFails, FallBackToHost, Go, Mine, NoBox
<1>12. ASSUME NEW t \in Tasks, Announce(t) PROVE BoxesTyped'
  BY <1>12 DEF Announce, MarkRunning, Updated, Go
<1>13. ASSUME NEW t \in Tasks, Health(t) PROVE BoxesTyped'
  BY <1>13 DEF Health, HealthVerdict, Updated, Go
<1>14. ASSUME NEW t \in Tasks, OnExit(t) PROVE BoxesTyped'
  BY <1>14 DEF OnExit, Go
<1>15. ASSUME NEW t \in Tasks, CollectGarbage(t) PROVE BoxesTyped'
  <2>1. NoBox \in Boxes
    BY DEF NoBox
  <2> QED
    BY <1>15, <2>1 DEF CollectGarbage, Cleanup
<1>16. ASSUME NEW t \in Tasks, SpawnHost(t) PROVE BoxesTyped'
  BY <1>16 DEF SpawnHost
<1>17. ASSUME NEW t \in Tasks, HostAnnounce(t) PROVE BoxesTyped'
  BY <1>17 DEF HostAnnounce, MarkRunning, Updated, Go
<1>18. ASSUME NEW t \in Tasks, HostHealth(t) PROVE BoxesTyped'
  BY <1>18 DEF HostHealth, HealthVerdict, Updated, Done
<1>19. ASSUME NEW t \in Tasks, HostClosed(t) PROVE BoxesTyped'
  BY <1>19 DEF HostClosed, SetPreview, Updated
<1>20. ASSUME NEW t \in Tasks, NEW j \in Jobs, StopRequest(t, j) PROVE BoxesTyped'
  BY <1>20 DEF StopRequest, Stopping
<1>21. ASSUME NEW t \in Tasks, NEW j \in Jobs, NEW p \in Ports, ChangePort(t, j, p) PROVE BoxesTyped'
  BY <1>21 DEF ChangePort, Stopping
<1>22. ASSUME NEW t \in Tasks, NEW j \in Jobs, DeleteRequest(t, j) PROVE BoxesTyped'
  BY <1>22 DEF DeleteRequest, Stopping
<1>23. ASSUME NEW t \in Tasks, StopClean(t) PROVE BoxesTyped'
  BY <1>23 DEF StopClean, ChildAlive, NoBox
<1>24. ASSUME NEW t \in Tasks, StopEnd(t) PROVE BoxesTyped'
  BY <1>24 DEF StopEnd, Updated
<1>25. ASSUME Sweep PROVE BoxesTyped'
  BY <1>25 DEF Sweep
<1>26. ASSUME NEW j \in Jobs, Inspect(j) PROVE BoxesTyped'
  BY <1>26 DEF Inspect, Stopping
<1>27. ASSUME NEW j \in Jobs, AppExits(j) PROVE BoxesTyped'
  BY <1>27 DEF AppExits
<1>28. ASSUME NEW t \in Tasks, ChildExits(t) PROVE BoxesTyped'
  BY <1>28 DEF ChildExits, ChildAlive
<1>29. ASSUME Restart PROVE BoxesTyped'
  BY <1>29 DEF Restart
<1>30. CASE UNCHANGED vars
  BY <1>30 DEF vars
<1>31. ASSUME NEW t \in Tasks, SpawnThrows(t) PROVE BoxesTyped'
  BY <1>31 DEF SpawnThrows, Done
<1>32. ASSUME NEW t \in Tasks, HostThrows(t) PROVE BoxesTyped'
  BY <1>32 DEF HostThrows, Done
<1>33. ASSUME NEW t \in Tasks, DeleteDocument(t) PROVE BoxesTyped'
  BY <1>33 DEF DeleteDocument, Done
<1> QED
    BY <1>1, <1>2, <1>3, <1>4, <1>5, <1>6, <1>7, <1>8, <1>9, <1>10, <1>11, <1>12, <1>13, <1>14,
     <1>15, <1>16, <1>17, <1>18, <1>19, <1>20, <1>21, <1>22, <1>23, <1>24, <1>25, <1>26, <1>27,
     <1>28, <1>29, <1>30, <1>31, <1>32, <1>33 DEF Next, Request, TaskStep, SpawnStep

(***************************************************************************)
(* Every step keeps the registry, the flags, the ports and the counters    *)
(* within their types.                                                     *)
(***************************************************************************)
LEMMA RestStep ==
    ASSUME CallsTyped, CallsComplete, RestTyped, [Next]_vars
    PROVE RestTyped'
<1> USE DEF RestTyped, CallsTyped, Calls, CallsComplete, Answering
<1>1. ASSUME NEW t \in Tasks, NEW j \in Jobs, ProbePort(t, j) PROVE RestTyped'
  BY <1>1 DEF ProbePort
<1>2. ASSUME NEW t \in Tasks, ReservePort(t) PROVE RestTyped'
  BY <1>2 DEF ReservePort, Go
<1>3. ASSUME NEW t \in Tasks, AbandonPort(t) PROVE RestTyped'
  BY <1>3 DEF AbandonPort, Done
<1>4. ASSUME NEW t \in Tasks, NEW j \in Jobs, CountRunning(t, j) PROVE RestTyped'
  BY <1>4 DEF CountRunning
<1>5. ASSUME NEW t \in Tasks, Enter(t) PROVE RestTyped'
  BY <1>5 DEF Enter, Done, Go
<1>6. ASSUME NEW t \in Tasks, SpawnWithoutDocker(t) PROVE RestTyped'
  BY <1>6 DEF SpawnWithoutDocker, Go
<1>7. ASSUME NEW t \in Tasks, ClearConflicts(t) PROVE RestTyped'
  BY <1>7 DEF ClearConflicts, Go, NoBox
<1>8. ASSUME NEW t \in Tasks, CreateContainer(t) PROVE RestTyped'
  BY <1>8 DEF CreateContainer, Go, Provisioned, NoBox
<1>9. ASSUME NEW t \in Tasks, CreateFails(t) PROVE RestTyped'
  BY <1>9 DEF CreateFails, FallBackToHost, Go, Provisioned
<1>10. ASSUME NEW t \in Tasks, StartContainer(t) PROVE RestTyped'
  BY <1>10 DEF StartContainer, Go, Mine
<1>11. ASSUME NEW t \in Tasks, StartFails(t) PROVE RestTyped'
  BY <1>11 DEF StartFails, FallBackToHost, Go, Mine, NoBox
<1>12. ASSUME NEW t \in Tasks, Announce(t) PROVE RestTyped'
  BY <1>12 DEF Announce, MarkRunning, Updated, Go
<1>13. ASSUME NEW t \in Tasks, Health(t) PROVE RestTyped'
  BY <1>13 DEF Health, HealthVerdict, Updated, Go
<1>14. ASSUME NEW t \in Tasks, OnExit(t) PROVE RestTyped'
  BY <1>14 DEF OnExit, Go
<1>15. ASSUME NEW t \in Tasks, CollectGarbage(t) PROVE RestTyped'
  BY <1>15 DEF CollectGarbage, SetPreview, Updated, Cleanup, Done, NoBox
<1>16. ASSUME NEW t \in Tasks, SpawnHost(t) PROVE RestTyped'
  BY <1>16 DEF SpawnHost
<1>17. ASSUME NEW t \in Tasks, HostAnnounce(t) PROVE RestTyped'
  BY <1>17 DEF HostAnnounce, MarkRunning, Updated, Go
<1>18. ASSUME NEW t \in Tasks, HostHealth(t) PROVE RestTyped'
  BY <1>18 DEF HostHealth, HealthVerdict, Updated, Done
<1>19. ASSUME NEW t \in Tasks, HostClosed(t) PROVE RestTyped'
  BY <1>19 DEF HostClosed, SetPreview, Updated
<1>20. ASSUME NEW t \in Tasks, NEW j \in Jobs, StopRequest(t, j) PROVE RestTyped'
  BY <1>20 DEF StopRequest, Stopping
<1>21. ASSUME NEW t \in Tasks, NEW j \in Jobs, NEW p \in Ports, ChangePort(t, j, p) PROVE RestTyped'
  BY <1>21 DEF ChangePort, Stopping
<1>22. ASSUME NEW t \in Tasks, NEW j \in Jobs, DeleteRequest(t, j) PROVE RestTyped'
  BY <1>22 DEF DeleteRequest, Stopping
<1>23. ASSUME NEW t \in Tasks, StopClean(t) PROVE RestTyped'
  BY <1>23 DEF StopClean, ChildAlive, NoBox
<1>24. ASSUME NEW t \in Tasks, StopEnd(t) PROVE RestTyped'
  BY <1>24 DEF StopEnd, Updated
<1>25. ASSUME Sweep PROVE RestTyped'
  BY <1>25 DEF Sweep
<1>26. ASSUME NEW j \in Jobs, Inspect(j) PROVE RestTyped'
  BY <1>26 DEF Inspect, Stopping
<1>27. ASSUME NEW j \in Jobs, AppExits(j) PROVE RestTyped'
  BY <1>27 DEF AppExits
<1>28. ASSUME NEW t \in Tasks, ChildExits(t) PROVE RestTyped'
  BY <1>28 DEF ChildExits, ChildAlive
<1>29. ASSUME Restart PROVE RestTyped'
  BY <1>29, BoundsAreNumbers DEF Restart
<1>30. CASE UNCHANGED vars
  BY <1>30 DEF vars
<1>31. ASSUME NEW t \in Tasks, SpawnThrows(t) PROVE RestTyped'
  BY <1>31 DEF SpawnThrows, Done
<1>32. ASSUME NEW t \in Tasks, HostThrows(t) PROVE RestTyped'
  BY <1>32 DEF HostThrows, Done
<1>33. ASSUME NEW t \in Tasks, DeleteDocument(t) PROVE RestTyped'
  BY <1>33 DEF DeleteDocument, Done
<1> QED
    BY <1>1, <1>2, <1>3, <1>4, <1>5, <1>6, <1>7, <1>8, <1>9, <1>10, <1>11, <1>12, <1>13, <1>14,
     <1>15, <1>16, <1>17, <1>18, <1>19, <1>20, <1>21, <1>22, <1>23, <1>24, <1>25, <1>26, <1>27,
     <1>28, <1>29, <1>30, <1>31, <1>32, <1>33 DEF Next, Request, TaskStep, SpawnStep

(***************************************************************************)
(* Every step keeps the calls complete.                                    *)
(***************************************************************************)
LEMMA CompleteStep ==
    ASSUME CallsTyped, DocsTyped, CallsComplete, [Next]_vars
    PROVE CallsComplete'
<1> USE DEF CallsTyped, Calls, Stages, SpawnStages, Answering, Idle, DocsTyped, Docs,
          CallsComplete, Free
<1>1. ASSUME NEW t \in Tasks, NEW j \in Jobs, ProbePort(t, j) PROVE CallsComplete'
  BY <1>1, NoneIsOther DEF ProbePort
<1>2. ASSUME NEW t \in Tasks, ReservePort(t) PROVE CallsComplete'
  BY <1>2, NoneIsOther DEF ReservePort, Go
<1>3. ASSUME NEW t \in Tasks, AbandonPort(t) PROVE CallsComplete'
  BY <1>3, NoneIsOther DEF AbandonPort, Done
<1>4. ASSUME NEW t \in Tasks, NEW j \in Jobs, CountRunning(t, j) PROVE CallsComplete'
  BY <1>4, NoneIsOther DEF CountRunning
<1>5. ASSUME NEW t \in Tasks, Enter(t) PROVE CallsComplete'
  BY <1>5, NoneIsOther DEF Enter, Done, Go
<1>6. ASSUME NEW t \in Tasks, SpawnWithoutDocker(t) PROVE CallsComplete'
  BY <1>6, NoneIsOther DEF SpawnWithoutDocker, Go
<1>7. ASSUME NEW t \in Tasks, ClearConflicts(t) PROVE CallsComplete'
  BY <1>7, NoneIsOther DEF ClearConflicts, Go, NoBox
<1>8. ASSUME NEW t \in Tasks, CreateContainer(t) PROVE CallsComplete'
  BY <1>8, NoneIsOther DEF CreateContainer, Go, Provisioned, NoBox
<1>9. ASSUME NEW t \in Tasks, CreateFails(t) PROVE CallsComplete'
  BY <1>9, NoneIsOther DEF CreateFails, FallBackToHost, Go, Provisioned
<1>10. ASSUME NEW t \in Tasks, StartContainer(t) PROVE CallsComplete'
  BY <1>10, NoneIsOther DEF StartContainer, Go, Mine
<1>11. ASSUME NEW t \in Tasks, StartFails(t) PROVE CallsComplete'
  BY <1>11, NoneIsOther DEF StartFails, FallBackToHost, Go, Mine, NoBox
<1>12. ASSUME NEW t \in Tasks, Announce(t) PROVE CallsComplete'
  BY <1>12, NoneIsOther DEF Announce, MarkRunning, Updated, Go
<1>13. ASSUME NEW t \in Tasks, Health(t) PROVE CallsComplete'
  BY <1>13, NoneIsOther DEF Health, HealthVerdict, Updated, Go
<1>14. ASSUME NEW t \in Tasks, OnExit(t) PROVE CallsComplete'
  BY <1>14, NoneIsOther DEF OnExit, Go
<1>15. ASSUME NEW t \in Tasks, CollectGarbage(t) PROVE CallsComplete'
  BY <1>15, NoneIsOther DEF CollectGarbage, SetPreview, Updated, Cleanup, Done, NoBox
<1>16. ASSUME NEW t \in Tasks, SpawnHost(t) PROVE CallsComplete'
  BY <1>16, NoneIsOther DEF SpawnHost
<1>17. ASSUME NEW t \in Tasks, HostAnnounce(t) PROVE CallsComplete'
  BY <1>17, NoneIsOther DEF HostAnnounce, MarkRunning, Updated, Go
<1>18. ASSUME NEW t \in Tasks, HostHealth(t) PROVE CallsComplete'
  BY <1>18, NoneIsOther DEF HostHealth, HealthVerdict, Updated, Done
<1>19. ASSUME NEW t \in Tasks, HostClosed(t) PROVE CallsComplete'
  BY <1>19, NoneIsOther DEF HostClosed, SetPreview, Updated
<1>20. ASSUME NEW t \in Tasks, NEW j \in Jobs, StopRequest(t, j) PROVE CallsComplete'
  BY <1>20, StopComplete DEF StopRequest
<1>21. ASSUME NEW t \in Tasks, NEW j \in Jobs, NEW p \in Ports, ChangePort(t, j, p) PROVE CallsComplete'
  BY <1>21, StopComplete DEF ChangePort
<1>22. ASSUME NEW t \in Tasks, NEW j \in Jobs, DeleteRequest(t, j) PROVE CallsComplete'
  BY <1>22, StopComplete DEF DeleteRequest
<1>23. ASSUME NEW t \in Tasks, StopClean(t) PROVE CallsComplete'
  BY <1>23, NoneIsOther DEF StopClean, ChildAlive, NoBox
<1>24. ASSUME NEW t \in Tasks, StopEnd(t) PROVE CallsComplete'
  BY <1>24, NoneIsOther DEF StopEnd, Updated
<1>25. ASSUME Sweep PROVE CallsComplete'
  BY <1>25, NoneIsOther DEF Sweep
<1>26. ASSUME NEW j \in Jobs, Inspect(j) PROVE CallsComplete'
  <2>1. doc[j].port \in Ports
    OBVIOUS
  <2> QED
    BY <1>26, <2>1, StopComplete DEF Inspect
<1>27. ASSUME NEW j \in Jobs, AppExits(j) PROVE CallsComplete'
  BY <1>27, NoneIsOther DEF AppExits
<1>28. ASSUME NEW t \in Tasks, ChildExits(t) PROVE CallsComplete'
  BY <1>28, NoneIsOther DEF ChildExits, ChildAlive
<1>29. ASSUME Restart PROVE CallsComplete'
  BY <1>29, NoneIsOther DEF Restart
<1>30. CASE UNCHANGED vars
  BY <1>30 DEF vars
<1>31. ASSUME NEW t \in Tasks, SpawnThrows(t) PROVE CallsComplete'
  BY <1>31, NoneIsOther DEF SpawnThrows, Done
<1>32. ASSUME NEW t \in Tasks, HostThrows(t) PROVE CallsComplete'
  BY <1>32, NoneIsOther DEF HostThrows, Done
<1>33. ASSUME NEW t \in Tasks, DeleteDocument(t) PROVE CallsComplete'
  BY <1>33, NoneIsOther DEF DeleteDocument, Done
<1> QED
    BY <1>1, <1>2, <1>3, <1>4, <1>5, <1>6, <1>7, <1>8, <1>9, <1>10, <1>11, <1>12, <1>13, <1>14,
     <1>15, <1>16, <1>17, <1>18, <1>19, <1>20, <1>21, <1>22, <1>23, <1>24, <1>25, <1>26, <1>27,
     <1>28, <1>29, <1>30, <1>31, <1>32, <1>33 DEF Next, Request, TaskStep, SpawnStep

(***************************************************************************)
(* Every step keeps the entries held: only the call itself sets its entry, *)
(* and the handlers that end the watch of a call clear the entry of its    *)
(* job first.                                                              *)
(***************************************************************************)
LEMMA EntryStep ==
    ASSUME CallsTyped, RestTyped, CallsComplete, EntryIsHeld, [Next]_vars
    PROVE EntryIsHeld'
<1> USE DEF CallsTyped, Calls, Stages, SpawnStages, Answering, Idle, RestTyped, CallsComplete,
          EntryIsHeld, Free
<1>1. ASSUME NEW t \in Tasks, NEW j \in Jobs, ProbePort(t, j) PROVE EntryIsHeld'
  BY <1>1, NoneIsOther DEF ProbePort
<1>2. ASSUME NEW t \in Tasks, ReservePort(t) PROVE EntryIsHeld'
  BY <1>2, NoneIsOther DEF ReservePort, Go
<1>3. ASSUME NEW t \in Tasks, AbandonPort(t) PROVE EntryIsHeld'
  BY <1>3, NoneIsOther DEF AbandonPort, Done
<1>4. ASSUME NEW t \in Tasks, NEW j \in Jobs, CountRunning(t, j) PROVE EntryIsHeld'
  BY <1>4, NoneIsOther DEF CountRunning
<1>5. ASSUME NEW t \in Tasks, Enter(t) PROVE EntryIsHeld'
  BY <1>5, NoneIsOther DEF Enter, Done, Go
<1>6. ASSUME NEW t \in Tasks, SpawnWithoutDocker(t) PROVE EntryIsHeld'
  BY <1>6, NoneIsOther DEF SpawnWithoutDocker, Go
<1>7. ASSUME NEW t \in Tasks, ClearConflicts(t) PROVE EntryIsHeld'
  BY <1>7, NoneIsOther DEF ClearConflicts, Go, NoBox
<1>8. ASSUME NEW t \in Tasks, CreateContainer(t) PROVE EntryIsHeld'
  BY <1>8, NoneIsOther DEF CreateContainer, Go, Provisioned, NoBox
<1>9. ASSUME NEW t \in Tasks, CreateFails(t) PROVE EntryIsHeld'
  BY <1>9, NoneIsOther DEF CreateFails, FallBackToHost, Go, Provisioned
<1>10. ASSUME NEW t \in Tasks, StartContainer(t) PROVE EntryIsHeld'
  BY <1>10, NoneIsOther DEF StartContainer, Go, Mine
<1>11. ASSUME NEW t \in Tasks, StartFails(t) PROVE EntryIsHeld'
  BY <1>11, NoneIsOther DEF StartFails, FallBackToHost, Go, Mine, NoBox
<1>12. ASSUME NEW t \in Tasks, Announce(t) PROVE EntryIsHeld'
  BY <1>12, NoneIsOther DEF Announce, MarkRunning, Updated, Go
<1>13. ASSUME NEW t \in Tasks, Health(t) PROVE EntryIsHeld'
  BY <1>13, NoneIsOther DEF Health, HealthVerdict, Updated, Go
<1>14. ASSUME NEW t \in Tasks, OnExit(t) PROVE EntryIsHeld'
  BY <1>14, NoneIsOther DEF OnExit, Go
<1>15. ASSUME NEW t \in Tasks, CollectGarbage(t) PROVE EntryIsHeld'
  BY <1>15, NoneIsOther DEF CollectGarbage, SetPreview, Updated, Cleanup, Done, NoBox
<1>16. ASSUME NEW t \in Tasks, SpawnHost(t) PROVE EntryIsHeld'
  BY <1>16, NoneIsOther DEF SpawnHost
<1>17. ASSUME NEW t \in Tasks, HostAnnounce(t) PROVE EntryIsHeld'
  BY <1>17, NoneIsOther DEF HostAnnounce, MarkRunning, Updated, Go
<1>18. ASSUME NEW t \in Tasks, HostHealth(t) PROVE EntryIsHeld'
  BY <1>18, NoneIsOther DEF HostHealth, HealthVerdict, Updated, Done
<1>19. ASSUME NEW t \in Tasks, HostClosed(t) PROVE EntryIsHeld'
  BY <1>19, NoneIsOther DEF HostClosed, SetPreview, Updated
<1>20. ASSUME NEW t \in Tasks, NEW j \in Jobs, StopRequest(t, j) PROVE EntryIsHeld'
  BY <1>20, NoneIsOther DEF StopRequest, Stopping
<1>21. ASSUME NEW t \in Tasks, NEW j \in Jobs, NEW p \in Ports, ChangePort(t, j, p) PROVE EntryIsHeld'
  BY <1>21, NoneIsOther DEF ChangePort, Stopping
<1>22. ASSUME NEW t \in Tasks, NEW j \in Jobs, DeleteRequest(t, j) PROVE EntryIsHeld'
  BY <1>22, NoneIsOther DEF DeleteRequest, Stopping
<1>23. ASSUME NEW t \in Tasks, StopClean(t) PROVE EntryIsHeld'
  BY <1>23, NoneIsOther DEF StopClean, ChildAlive, NoBox
<1>24. ASSUME NEW t \in Tasks, StopEnd(t) PROVE EntryIsHeld'
  BY <1>24, NoneIsOther DEF StopEnd, Updated
<1>25. ASSUME Sweep PROVE EntryIsHeld'
  BY <1>25, NoneIsOther DEF Sweep
<1>26. ASSUME NEW j \in Jobs, Inspect(j) PROVE EntryIsHeld'
  BY <1>26, NoneIsOther DEF Inspect, Stopping
<1>27. ASSUME NEW j \in Jobs, AppExits(j) PROVE EntryIsHeld'
  BY <1>27, NoneIsOther DEF AppExits
<1>28. ASSUME NEW t \in Tasks, ChildExits(t) PROVE EntryIsHeld'
  BY <1>28, NoneIsOther DEF ChildExits, ChildAlive
<1>29. ASSUME Restart PROVE EntryIsHeld'
  BY <1>29, NoneIsOther DEF Restart
<1>30. CASE UNCHANGED vars
  BY <1>30 DEF vars
<1>31. ASSUME NEW t \in Tasks, SpawnThrows(t) PROVE EntryIsHeld'
  BY <1>31, NoneIsOther DEF SpawnThrows, Done
<1>32. ASSUME NEW t \in Tasks, HostThrows(t) PROVE EntryIsHeld'
  BY <1>32, NoneIsOther DEF HostThrows, Done
<1>33. ASSUME NEW t \in Tasks, DeleteDocument(t) PROVE EntryIsHeld'
  BY <1>33, NoneIsOther DEF DeleteDocument, Done
<1> QED
    BY <1>1, <1>2, <1>3, <1>4, <1>5, <1>6, <1>7, <1>8, <1>9, <1>10, <1>11, <1>12, <1>13, <1>14,
     <1>15, <1>16, <1>17, <1>18, <1>19, <1>20, <1>21, <1>22, <1>23, <1>24, <1>25, <1>26, <1>27,
     <1>28, <1>29, <1>30, <1>31, <1>32, <1>33 DEF Next, Request, TaskStep, SpawnStep

(***************************************************************************)
(* Every step keeps a holder for every flag that was not leaked: the       *)
(* stages of a spawn are left only by a step that clears the flag, or by   *)
(* the spawn without Docker or the one that throws, which leak it.         *)
(***************************************************************************)
LEMMA FlagStep ==
    ASSUME CallsTyped, RestTyped, FlagHasHolder, [Next]_vars
    PROVE FlagHasHolder'
<1> USE DEF CallsTyped, Calls, Stages, SpawnStages, Answering, Idle, RestTyped, FlagHasHolder, Free
<1>1. ASSUME NEW t \in Tasks, NEW j \in Jobs, ProbePort(t, j) PROVE FlagHasHolder'
  BY <1>1 DEF ProbePort
<1>2. ASSUME NEW t \in Tasks, ReservePort(t) PROVE FlagHasHolder'
  BY <1>2 DEF ReservePort, Go
<1>3. ASSUME NEW t \in Tasks, AbandonPort(t) PROVE FlagHasHolder'
  BY <1>3 DEF AbandonPort, Done
<1>4. ASSUME NEW t \in Tasks, NEW j \in Jobs, CountRunning(t, j) PROVE FlagHasHolder'
  BY <1>4 DEF CountRunning
<1>5. ASSUME NEW t \in Tasks, Enter(t) PROVE FlagHasHolder'
  BY <1>5 DEF Enter, Done, Go
<1>6. ASSUME NEW t \in Tasks, SpawnWithoutDocker(t) PROVE FlagHasHolder'
  BY <1>6 DEF SpawnWithoutDocker, Go
<1>7. ASSUME NEW t \in Tasks, ClearConflicts(t) PROVE FlagHasHolder'
  BY <1>7 DEF ClearConflicts, Go, NoBox
<1>8. ASSUME NEW t \in Tasks, CreateContainer(t) PROVE FlagHasHolder'
  BY <1>8 DEF CreateContainer, Go, Provisioned, NoBox
<1>9. ASSUME NEW t \in Tasks, CreateFails(t) PROVE FlagHasHolder'
  BY <1>9 DEF CreateFails, FallBackToHost, Go, Provisioned
<1>10. ASSUME NEW t \in Tasks, StartContainer(t) PROVE FlagHasHolder'
  BY <1>10 DEF StartContainer, Go, Mine
<1>11. ASSUME NEW t \in Tasks, StartFails(t) PROVE FlagHasHolder'
  BY <1>11 DEF StartFails, FallBackToHost, Go, Mine, NoBox
<1>12. ASSUME NEW t \in Tasks, Announce(t) PROVE FlagHasHolder'
  BY <1>12 DEF Announce, MarkRunning, Updated, Go
<1>13. ASSUME NEW t \in Tasks, Health(t) PROVE FlagHasHolder'
  BY <1>13 DEF Health, HealthVerdict, Updated, Go
<1>14. ASSUME NEW t \in Tasks, OnExit(t) PROVE FlagHasHolder'
  BY <1>14 DEF OnExit, Go
<1>15. ASSUME NEW t \in Tasks, CollectGarbage(t) PROVE FlagHasHolder'
  BY <1>15 DEF CollectGarbage, SetPreview, Updated, Cleanup, Done, NoBox
<1>16. ASSUME NEW t \in Tasks, SpawnHost(t) PROVE FlagHasHolder'
  BY <1>16 DEF SpawnHost
<1>17. ASSUME NEW t \in Tasks, HostAnnounce(t) PROVE FlagHasHolder'
  BY <1>17 DEF HostAnnounce, MarkRunning, Updated, Go
<1>18. ASSUME NEW t \in Tasks, HostHealth(t) PROVE FlagHasHolder'
  BY <1>18 DEF HostHealth, HealthVerdict, Updated, Done
<1>19. ASSUME NEW t \in Tasks, HostClosed(t) PROVE FlagHasHolder'
  BY <1>19 DEF HostClosed, SetPreview, Updated
<1>20. ASSUME NEW t \in Tasks, NEW j \in Jobs, StopRequest(t, j) PROVE FlagHasHolder'
  BY <1>20 DEF StopRequest, Stopping
<1>21. ASSUME NEW t \in Tasks, NEW j \in Jobs, NEW p \in Ports, ChangePort(t, j, p) PROVE FlagHasHolder'
  BY <1>21 DEF ChangePort, Stopping
<1>22. ASSUME NEW t \in Tasks, NEW j \in Jobs, DeleteRequest(t, j) PROVE FlagHasHolder'
  BY <1>22 DEF DeleteRequest, Stopping
<1>23. ASSUME NEW t \in Tasks, StopClean(t) PROVE FlagHasHolder'
  BY <1>23 DEF StopClean, ChildAlive, NoBox
<1>24. ASSUME NEW t \in Tasks, StopEnd(t) PROVE FlagHasHolder'
  BY <1>24 DEF StopEnd, Updated
<1>25. ASSUME Sweep PROVE FlagHasHolder'
  BY <1>25 DEF Sweep
<1>26. ASSUME NEW j \in Jobs, Inspect(j) PROVE FlagHasHolder'
  BY <1>26 DEF Inspect, Stopping
<1>27. ASSUME NEW j \in Jobs, AppExits(j) PROVE FlagHasHolder'
  BY <1>27 DEF AppExits
<1>28. ASSUME NEW t \in Tasks, ChildExits(t) PROVE FlagHasHolder'
  BY <1>28 DEF ChildExits, ChildAlive
<1>29. ASSUME Restart PROVE FlagHasHolder'
  BY <1>29 DEF Restart
<1>30. CASE UNCHANGED vars
  BY <1>30 DEF vars
<1>31. ASSUME NEW t \in Tasks, SpawnThrows(t) PROVE FlagHasHolder'
  BY <1>31 DEF SpawnThrows, Done
<1>32. ASSUME NEW t \in Tasks, HostThrows(t) PROVE FlagHasHolder'
  BY <1>32 DEF HostThrows, Done
<1>33. ASSUME NEW t \in Tasks, DeleteDocument(t) PROVE FlagHasHolder'
  BY <1>33 DEF DeleteDocument, Done
<1> QED
    BY <1>1, <1>2, <1>3, <1>4, <1>5, <1>6, <1>7, <1>8, <1>9, <1>10, <1>11, <1>12, <1>13, <1>14,
     <1>15, <1>16, <1>17, <1>18, <1>19, <1>20, <1>21, <1>22, <1>23, <1>24, <1>25, <1>26, <1>27,
     <1>28, <1>29, <1>30, <1>31, <1>32, <1>33 DEF Next, Request, TaskStep, SpawnStep

-----------------------------------------------------------------------------
(***************************************************************************)
(* The inductive invariant.                                                *)
(***************************************************************************)
IInv ==
    /\ CallsTyped /\ DocsTyped /\ BoxesTyped /\ RestTyped
    /\ CallsComplete /\ EntryIsHeld /\ FlagHasHolder

(***************************************************************************)
(* The initial states satisfy it.                                          *)
(***************************************************************************)
LEMMA Start ==
    ASSUME Init PROVE IInv
<1>1. CallsTyped /\ CallsComplete
  BY IdleIsCall DEF Init, CallsTyped, CallsComplete, Idle, Answering
<1>2. DocsTyped
  BY DEF Init, DocsTyped, Docs
<1>3. BoxesTyped
  BY DEF Init, BoxesTyped, Boxes, NoBox
<1>4. RestTyped /\ EntryIsHeld /\ FlagHasHolder
  BY BoundsAreNumbers, NoneIsOther DEF Init, RestTyped, EntryIsHeld, FlagHasHolder
<1> QED
  BY <1>1, <1>2, <1>3, <1>4 DEF IInv

(***************************************************************************)
(* In every behaviour all parts hold in every state.                       *)
(***************************************************************************)
THEOREM Inductive ==
    Spec => []IInv
<1>1. Init => IInv
  BY Start
<1>2. IInv /\ [Next]_vars => IInv'
  BY CallsStep, DocsStep, BoxesStep, RestStep, CompleteStep, EntryStep, FlagStep DEF IInv
<1> QED
  BY <1>1, <1>2, PTL DEF Spec

(***************************************************************************)
(* The variables keep their types.                                         *)
(***************************************************************************)
THEOREM TypeCorrect ==
    Spec => []TypeOK
<1>1. IInv => TypeOK
  BY DEF IInv, TypeOK, CallsTyped, Calls, DocsTyped, Docs, BoxesTyped, Boxes, RestTyped
<1> QED
  BY <1>1, Inductive, PTL

(***************************************************************************)
(* No entry of runningPreviews (process-manager.service.js) outlives the   *)
(* calls and handlers that could remove it, however spawns, stops, exits   *)
(* and the watchdog interleave.                                            *)
(***************************************************************************)
THEOREM EntriesWatched ==
    Spec => []EntryIsWatched
<1>1. IInv => EntryIsWatched
  BY NoneIsOther DEF IInv, EntryIsHeld, EntryIsWatched, Watching, RestTyped
<1> QED
  BY <1>1, Inductive, PTL

(***************************************************************************)
(* A flag in rebuildInProgress whose spawn is over was left by a spawn     *)
(* that found no Docker or that threw between the flag and the first try:  *)
(* no other order of spawns, stops and failures leaves one.                *)
(***************************************************************************)
THEOREM FlagsHeld ==
    Spec => []FlagHasHolder
<1>1. IInv => FlagHasHolder
  BY DEF IInv
<1> QED
  BY <1>1, Inductive, PTL
=============================================================================
