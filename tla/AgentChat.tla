------------------------------ MODULE AgentChat ------------------------------
(***************************************************************************)
(* The chat with the DevOps agent of one deployment: the chat panel of     *)
(* Web/frontend/src/pages/Agent.jsx, its handlers in devops.controller.js  *)
(* and the loop of agent-loop.service.js behind them.                      *)
(*                                                                         *)
(* A request occupies a slot from the click to the answer.  The loop asks  *)
(* the model, writes the patches of its answer, runs its commands or       *)
(* pauses for the user's consent, and goes on until the answer wants       *)
(* nothing more.  A file's content is the number of the write it comes     *)
(* from, 0 when there is no file.  What the model answers, the container   *)
(* and the builds are external; what commands do to files is left out.     *)
(***************************************************************************)
EXTENDS Naturals, FiniteSets, Sequences, SequencesExt

CONSTANTS
    Files,          \* files the model may patch
    Outside,        \* those that are not in the workspace of the deployment
    Present,        \* those that exist at the start
    Commands,       \* commands that change something
    Disguised,      \* those that isReadOnlyCommand takes for commands that only read
    Slots,          \* requests that may be in flight together
    MaxIterations,  \* maxIterations
    MaxRequests,    \* bound: requests of the user in a behaviour
    MaxWrites,      \* bound: writes of files
    MaxEvents       \* bound: steps of the world around

ASSUME DisguisedAreCommands == Disguised \subseteq Commands
ASSUME SomeIteration == MaxIterations \in Nat \ {0}
ASSUME SlotsAreNumbered == Slots \subseteq Nat \ {0}
ASSUME SlotsAreFinite == IsFiniteSet(Slots)

VARIABLES
    disk,        \* content of the workspace's files
    was,         \* history: by its number, the content each write replaced
    writes,      \* writes so far
    saved,       \* messages of the stored chat
    shown,       \* chatMessages of the page
    typing,      \* isAgentTyping
    controller,  \* slot of abortControllerRef.current, or None
    req,         \* the requests
    state,       \* iteration of the saved react_loop_state, 0 when there is none
    perm,        \* execPermission of the deployment
    status,      \* status of the deployment
    up,          \* the preview container runs
    past,        \* commandHistoryByChat of this chat
    active,      \* activeAgentLoops
    agreed,      \* history: commands the user has allowed
    ran,         \* history: commands that were run
    auto,        \* history: runs of each command by a loop
    count,       \* requests so far
    events       \* steps of the world so far

chat   == <<saved, shown, typing, controller>>
files  == <<disk, was, writes>>
world  == <<status, up, events>>
memory == <<state, past, active>>
trace  == <<agreed, ran, auto>>
vars   == <<files, chat, req, memory, perm, world, trace, count>>

None   == 0
NoFile == "no file"

Message(role, patches, pending) ==
    [role |-> role, patches |-> patches, back |-> FALSE, pending |-> pending]
Said  == Message("user", <<>>, {})
Hello == Message("agent", <<>>, {})

Idle == [pc |-> "idle", resume |-> FALSE, heard |-> TRUE, iter |-> 0, perm |-> "ask",
         deployed |-> FALSE, patches |-> <<>>, cud |-> FALSE,
         todo |-> {}, ask |-> {}, at |-> 0]

Init ==
    /\ disk = [f \in Files |-> IF f \in Present THEN 1 ELSE 0] /\ was = <<0>> /\ writes = 1
    /\ saved = <<Hello>> /\ shown = saved /\ typing = FALSE /\ controller = None
    /\ req = [s \in Slots |-> Idle] /\ state = 0 /\ perm \in {"ask", "always"}
    /\ status = "deployed" /\ up = TRUE
    /\ past = {} /\ active = 0
    /\ agreed = (IF perm = "always" THEN Commands ELSE {}) /\ ran = {} /\ auto = [c \in Commands |-> 0] /\ count = 0 /\ events = 0

-----------------------------------------------------------------------------
(***************************************************************************)
(* The page.                                                               *)
(***************************************************************************)
\* Slots are alike: a request takes the first free one.
Free(s) == req[s] = Idle /\ \A t \in Slots : t < s => req[t] # Idle

Request(s, r) ==
    /\ Free(s) /\ count < MaxRequests
    /\ count' = count + 1
    /\ req' = [req EXCEPT ![s] = r]

\* A cancelled request replaces the last message and clears the indicator, after the
\* new one has put its placeholder there and set it.
HandleSendChat(s) ==
    /\ up /\ Free(s) /\ count < MaxRequests
    /\ count' = count + 1
    /\ req' = [t \in Slots |->
                  IF t = s THEN [Idle EXCEPT !.pc = "accept"]
                  ELSE IF t = controller THEN [req[t] EXCEPT !.heard = FALSE] ELSE req[t]]
    /\ shown' = shown \o <<Said, Hello>>
    /\ typing' = (controller = None) /\ controller' = s
    /\ UNCHANGED <<files, saved, memory, perm, world, trace>>

\* The last message is replaced, the placeholder or not.
LastIsAgent == shown # <<>> /\ Last(shown).role = "agent"
Put(m)       == IF LastIsAgent THEN [shown EXCEPT ![Len(shown)] = m] ELSE shown
PutOrPush(m) == IF LastIsAgent THEN Put(m) ELSE Append(shown, m)

HandleStopChat ==
    /\ typing /\ typing' = FALSE
    /\ IF controller = None THEN UNCHANGED <<shown, req>>
       ELSE /\ req' = [req EXCEPT ![controller].heard = FALSE]
            /\ shown' = PutOrPush(Hello)
    /\ controller' = None
    /\ UNCHANGED <<files, saved, memory, perm, world, trace, count>>

\* The card with the commands is drawn under the last message only.
Asked == IF shown = <<>> THEN {} ELSE Last(shown).pending

HandlePermissionAllow(s) ==
    /\ Asked # {}
    /\ Request(s, [Idle EXCEPT !.pc = "exec", !.todo = Asked])
    /\ typing' = TRUE /\ agreed' = agreed \cup Asked
    /\ UNCHANGED <<files, saved, shown, controller, memory, perm, world, ran, auto>>

HandlePermissionAllowEverytime(s) ==
    /\ Asked # {}
    /\ Request(s, [Idle EXCEPT !.pc = "grant", !.todo = Asked])
    /\ typing' = TRUE /\ agreed' = Commands
    /\ UNCHANGED <<files, saved, shown, controller, memory, perm, world, ran, auto>>

HandlePermissionNever(s) ==
    /\ Asked # {}
    /\ Request(s, [Idle EXCEPT !.pc = "deny", !.at = Len(shown)])
    /\ UNCHANGED <<files, chat, memory, perm, world, trace>>

-----------------------------------------------------------------------------
(***************************************************************************)
(* The handlers and the loop.                                              *)
(***************************************************************************)
Goes(s, pc) == req' = [req EXCEPT ![s].pc = pc]
Entered     == active' = active + 1
Returned    == active' = IF active > 0 THEN active - 1 ELSE 0

\* The deployment is read once: the loop works with this permission and this status.
ExecuteAgentChat(s) ==
    /\ req[s].pc = "accept"
    /\ IF status = "building"
       THEN Goes(s, "refused") /\ UNCHANGED active
       ELSE /\ req' = [req EXCEPT ![s] = [@ EXCEPT !.pc = "begin", !.perm = perm,
                                                   !.deployed = (status = "deployed")]]
            /\ Entered
    /\ UNCHANGED <<files, chat, state, past, perm, world, trace, count>>

Begin(s) ==
    /\ req[s].pc = "begin"
    /\ LET resumed == req[s].resume /\ state > 0
       IN /\ req' = [req EXCEPT ![s] = [@ EXCEPT !.pc = "think", !.iter = IF resumed THEN state ELSE 1]]
          /\ state' = IF resumed THEN 0 ELSE state
    /\ UNCHANGED <<files, chat, past, active, perm, world, trace, count>>

\* End of the loop: the preview is restarted if files were patched.
Finished(r) == [r EXCEPT !.pc = IF r.patches # <<>> /\ r.deployed THEN "reload" ELSE "return"]

\* Mutant: the previous content is read after the write.
PatchLate(f) == [file |-> f, prev |-> writes + 1, new |-> writes + 1]

Patch(f) == [file |-> f, prev |-> disk[f], new |-> writes + 1]

Applied(r, f) == [r EXCEPT !.patches = Append(@, Patch(f))]

Write(f) ==
    /\ writes < MaxWrites /\ writes' = writes + 1
    /\ disk' = [disk EXCEPT ![f] = writes + 1] /\ was' = Append(was, disk[f])

\* "read" stands for the commands that only read and for those the guardrails reject:
\* the model may word them anew each time, and next to another command they make no
\* difference.  "dev" starts a development server.
Wanted == SUBSET Commands \cup {{"read"}, {"dev"}}

\* Mutant: the commands that were run are not remembered.
FreshButDev(w) == w \ {"dev"}

Fresh(w) == w \ (past \cup {"dev"})

\* isReadOnlyCommand looks at the first word of the parts between ; & and |.  What it
\* takes for a change is run, kept for the user or dropped, as the permission wants it.
Changes(w) == (Fresh(w) \cap Commands) \ Disguised
Unasked(w) == Fresh(w) \cap Disguised

\* Mutant: 'ask' is taken for 'always'.
PlannedAsked(r, w) ==
    IF Fresh(w) = {} THEN Finished(r)
    ELSE [r EXCEPT !.pc = "run", !.cud = Changes(w) # {}, !.ask = {},
                   !.todo = Unasked(w) \cup IF r.perm = "never" THEN {} ELSE Changes(w)]

Planned(r, w) ==
    IF Fresh(w) = {} THEN Finished(r)
    ELSE [r EXCEPT !.pc = "run", !.cud = Changes(w) # {},
                   !.todo = Unasked(w) \cup IF r.perm = "always" THEN Changes(w) ELSE {},
                   !.ask = IF r.perm = "ask" THEN Changes(w) ELSE {}]

\* NoFile: an answer without a patch, or one whose write failed.  (The test for
\* credentials reads containsSecrets of an array and never blocks a patch.)
LlmAnswers(s, p, w) ==
    /\ req[s].pc = "think"
    /\ IF p = NoFile
       THEN req' = [req EXCEPT ![s] = Planned(@, w)] /\ UNCHANGED files
       ELSE /\ Write(p)
            /\ req' = [req EXCEPT ![s] = Planned(Applied(@, p), w)]
    /\ past' = past \cup (Fresh(w) \cap Commands)
    /\ UNCHANGED <<chat, state, active, perm, world, trace, count>>

\* Mutant: the error path does not count the loop out.
LlmFailsCounted(s) ==
    /\ req[s].pc = "think"
    /\ req' = [req EXCEPT ![s] = [@ EXCEPT !.pc = "save", !.patches = <<>>]]
    /\ UNCHANGED <<files, chat, memory, perm, world, trace, count>>

\* The patches of the iterations before are not returned.
LlmFails(s) ==
    /\ req[s].pc = "think"
    /\ req' = [req EXCEPT ![s] = [@ EXCEPT !.pc = "save", !.patches = <<>>]]
    /\ Returned
    /\ UNCHANGED <<files, chat, state, past, perm, world, trace, count>>

\* Those taken for read-only come first.
RunCommandInContainer(s, c) ==
    /\ req[s].pc = "run" /\ c \in req[s].todo
    /\ c \in Disguised \/ req[s].todo \cap Disguised = {}
    /\ req' = [req EXCEPT ![s].todo = @ \ {c}]
    /\ ran' = ran \cup {c} /\ auto' = [auto EXCEPT ![c] = @ + 1]
    /\ UNCHANGED <<files, chat, memory, perm, world, agreed, count>>

\* Mutant: the iteration is not counted.
NextIterationFrozen(r) ==
    IF r.iter < MaxIterations THEN [r EXCEPT !.pc = "think"] ELSE Finished(r)

NextIteration(r) ==
    IF r.iter < MaxIterations THEN [r EXCEPT !.pc = "think", !.iter = @ + 1]
    ELSE Finished(r)

\* The commands that only read have been run too.  With patches and nothing but those the
\* loop ends.
Continue(s) ==
    LET r == req[s]
    IN /\ r.pc = "run" /\ r.todo = {}
       /\ IF r.ask # {}
          THEN /\ state' = r.iter /\ Returned
               /\ req' = [req EXCEPT ![s].pc = "save"]
          ELSE /\ req' = [req EXCEPT ![s] = IF r.patches # <<>> /\ ~r.cud
                                            THEN Finished(r) ELSE NextIteration(r)]
               /\ UNCHANGED <<state, active>>
       /\ UNCHANGED <<files, chat, past, perm, world, trace, count>>

\* stopPreview and spawnPreview; a failure is caught.
HotReload(s) ==
    /\ req[s].pc = "reload" /\ Goes(s, "return")
    /\ up' \in BOOLEAN
    /\ UNCHANGED <<files, chat, memory, perm, status, events, trace, count>>

LoopReturns(s) ==
    /\ req[s].pc = "return" /\ Goes(s, "save")
    /\ Returned
    /\ UNCHANGED <<files, chat, state, past, perm, world, trace, count>>

Answer(r) == Message("agent", r.patches, r.ask)

\* A page that has hung up is not answered.
Replied(r) == IF r.heard THEN [r EXCEPT !.pc = "reply"] ELSE Idle

SaveMessages(s) ==
    /\ req[s].pc = "save"
    /\ saved' = saved \o (IF req[s].resume THEN <<Answer(req[s])>> ELSE <<Said, Answer(req[s])>>)
    /\ req' = [req EXCEPT ![s] = Replied(@)]
    /\ UNCHANGED <<files, shown, typing, controller, memory, perm, world, trace, count>>

UpdateAgentPermission(s) ==
    /\ req[s].pc \in {"grant", "deny"}
    /\ IF req[s].pc = "grant" THEN perm' = "always" /\ Goes(s, "exec")
       ELSE perm' = "never" /\ Goes(s, "denied")
    /\ UNCHANGED <<files, chat, memory, world, trace, count>>

ExecutePendingCommands(s) ==
    /\ req[s].pc = "exec"
    /\ req' = [req EXCEPT ![s] =
                  IF ~up THEN [@ EXCEPT !.pc = "refused", !.resume = TRUE]
                  ELSE [@ EXCEPT !.pc = "exec commands", !.resume = TRUE, !.perm = perm,
                                 !.deployed = (status = "deployed")]]
    /\ UNCHANGED <<files, chat, memory, perm, world, trace, count>>

RunApproved(s, c) ==
    /\ req[s].pc = "exec commands" /\ c \in req[s].todo
    /\ req' = [req EXCEPT ![s].todo = @ \ {c}]
    /\ ran' = ran \cup {c}
    /\ UNCHANGED <<files, chat, memory, perm, world, agreed, auto, count>>

\* The first pending message is cleared, whichever the user has answered.
Cleared(ms) ==
    LET pending == {i \in 1 .. Len(ms) : ms[i].pending # {}}
    IN [i \in 1 .. Len(ms) |->
           IF i \in pending /\ \A j \in pending : i <= j THEN [ms[i] EXCEPT !.pending = {}] ELSE ms[i]]

ResumeLoop(s) ==
    /\ req[s].pc = "exec commands" /\ req[s].todo = {}
    /\ saved' = Cleared(saved)
    /\ IF state > 0 THEN Goes(s, "begin") /\ Entered ELSE Goes(s, "reply") /\ UNCHANGED active
    /\ UNCHANGED <<files, shown, typing, controller, state, past, perm, world, trace, count>>

-----------------------------------------------------------------------------
(***************************************************************************)
(* The answers.                                                            *)
(***************************************************************************)
ChatAnswer(s) ==
    /\ ~req[s].resume /\ req[s].pc \in {"reply", "refused"}
    /\ shown' = IF ~req[s].heard THEN shown
                ELSE IF req[s].pc = "reply" THEN Put(Answer(req[s])) ELSE PutOrPush(Hello)
    /\ req' = [req EXCEPT ![s] = Idle]
    /\ controller' = IF controller = s THEN None ELSE controller
    /\ typing' = (typing /\ ~req[s].heard)
    /\ UNCHANGED <<files, saved, memory, perm, world, trace, count>>

ExecAnswer(s) ==
    /\ req[s].resume /\ req[s].pc \in {"reply", "refused"}
    /\ shown' = IF req[s].pc = "reply" THEN saved ELSE shown
    /\ req' = [req EXCEPT ![s] = Idle] /\ typing' = FALSE
    /\ UNCHANGED <<files, saved, controller, memory, perm, world, trace, count>>

DenyAnswer(s) ==
    /\ req[s].pc = "denied"
    /\ shown' = IF req[s].at <= Len(shown) THEN [shown EXCEPT ![req[s].at].pending = {}] ELSE shown
    /\ req' = [req EXCEPT ![s] = Idle]
    /\ UNCHANGED <<files, saved, typing, controller, memory, perm, world, trace, count>>

-----------------------------------------------------------------------------
(***************************************************************************)
(* Rollback and undo.  The page names a message by its place in its own    *)
(* list.  A file that is not in the workspace is refused, though the loop  *)
(* patches any file of the repository, and a write may fail: both go on,   *)
(* and the message is marked or removed all the same.  The other patches   *)
(* are undone in the order they were applied: what the last one of a file  *)
(* recorded stays in it.                                                   *)
(***************************************************************************)
Of(f, patches) == {j \in DOMAIN patches : patches[j].file = f}

Restored(d, patches, failed) ==
    [f \in Files |->
        LET undone == Of(f, patches) \ failed
        IN IF f \in Outside \/ undone = {} THEN d[f] ELSE patches[Max(undone)].prev]

Rewritten(d) == disk' = d /\ UNCHANGED <<was, writes>>

HandleRollback(i, failed) ==
    /\ count < MaxRequests /\ i \in 1 .. Len(shown)
    /\ shown[i].patches # <<>> /\ ~shown[i].back
    /\ Rewritten(Restored(disk, shown[i].patches, failed))
    /\ shown' = [shown EXCEPT ![i].back = TRUE]
    /\ saved' = IF i <= Len(saved) THEN [saved EXCEPT ![i].back = TRUE] ELSE saved
    /\ count' = count + 1
    /\ UNCHANGED <<typing, controller, req, memory, perm, world, trace>>

Undoable(ms) == FlattenSeq([j \in 1 .. Len(ms) |-> IF ms[j].back THEN <<>> ELSE ms[j].patches])

HandleUndo(i) ==
    /\ count < MaxRequests /\ i \in 1 .. Len(shown) /\ shown[i].role = "user"
    /\ IF i <= Len(saved)
       THEN /\ LET patches == Undoable(SubSeq(saved, i, Len(saved)))
               IN \E failed \in SUBSET DOMAIN patches : Rewritten(Restored(disk, patches, failed))
            /\ saved' = SubSeq(saved, 1, i - 1)
       ELSE UNCHANGED <<files, saved>>
    /\ shown' = saved'
    /\ count' = count + 1
    /\ UNCHANGED <<typing, controller, req, memory, perm, world, trace>>

-----------------------------------------------------------------------------
(***************************************************************************)
(* External steps.                                                         *)
(***************************************************************************)
World == events < MaxEvents /\ events' = events + 1

\* The user saves a file of the workspace in the editor.
Edit(f) == World /\ f \notin Outside /\ Write(f) /\ UNCHANGED <<chat, req, memory, perm, status, up, trace, count>>

\* A build starts or ends, the container starts or stops.
Deployment ==
    /\ World
    /\ \/ status' \in {"building", "deployed", "failed"} \ {status} /\ UNCHANGED up
       \/ up' = ~up /\ UNCHANGED status
    /\ UNCHANGED <<files, chat, req, memory, perm, trace, count>>

\* The saved state outlives its hour.
Expire == World /\ state > 0 /\ state' = 0
          /\ UNCHANGED <<files, chat, req, past, active, perm, status, up, trace, count>>

Serve(s) ==
    \/ ExecuteAgentChat(s) \/ Begin(s) \/ LlmFails(s)
    \/ \E p \in Files \cup {NoFile}, w \in Wanted : LlmAnswers(s, p, w)
    \/ \E c \in Commands : RunCommandInContainer(s, c)
    \/ Continue(s) \/ HotReload(s) \/ LoopReturns(s) \/ SaveMessages(s)
    \/ UpdateAgentPermission(s) \/ ExecutePendingCommands(s)
    \/ \E c \in Commands : RunApproved(s, c)
    \/ ResumeLoop(s) \/ ChatAnswer(s) \/ ExecAnswer(s) \/ DenyAnswer(s)

User ==
    \/ \E s \in Slots : HandleSendChat(s) \/ HandlePermissionAllow(s)
                        \/ HandlePermissionAllowEverytime(s) \/ HandlePermissionNever(s)
    \/ HandleStopChat
    \/ \E i \in 1 .. Len(shown) :
          \/ \E failed \in SUBSET DOMAIN shown[i].patches : HandleRollback(i, failed)
          \/ HandleUndo(i)

Next ==
    \/ User
    \/ \E s \in Slots : Serve(s)
    \/ \E f \in Files : Edit(f)
    \/ Deployment \/ Expire

Spec == Init /\ [][Next]_vars

\* The handlers run on the server; the model's stream and the commands are assumed to end.
FairSpec == Spec /\ \A s \in Slots : WF_vars(Serve(s))

-----------------------------------------------------------------------------
(***************************************************************************)
(* Properties.                                                             *)
(***************************************************************************)
\* A command that the classifier takes for a change is run only after the user has allowed
\* it, whatever loops, pauses, approvals and changes of the permission have come in between.
ConsentIsGiven == ran \ Disguised \subseteq agreed

\* The loop runs a command at most once in a chat, over all its requests, resumed or not:
\* the comment at agent-loop.service.js:428 wants duplicates filtered out.
NoCommandLoop == \A c \in Commands : auto[c] <= 1

\* activeAgentLoops counts the loops in progress, however they end.
LoopsAreCounted ==
    active = Cardinality({s \in Slots : req[s].pc \in {"begin", "think", "run", "reload", "return"}})

\* Every request ends, refused, failed, paused or answered: the model may want something
\* new for ever, the loop stops after maxIterations.
RequestsEnd == \A s \in Slots : []<>(req[s] = Idle)

\* Rolling a message back gives a file it patched once, and that holds what it wrote, the
\* content this write replaced, whatever was written, rolled back or undone in between;
\* unless the file is refused or its write fails, and then it is left as it is.
UndoesItsPatch(i, f, failed) ==
    \A j \in DOMAIN shown[i].patches :
        Of(f, shown[i].patches) = {j} /\ disk[f] = shown[i].patches[j].new
            => disk'[f] = IF f \in Outside \/ j \in failed THEN disk[f] ELSE was[disk[f]]

RollbacksUndo ==
    \A i \in DOMAIN shown : \A failed \in SUBSET DOMAIN shown[i].patches :
        HandleRollback(i, failed) => \A f \in Files : UndoesItsPatch(i, f, failed)
SinglePatchIsUndone == [][RollbacksUndo]_vars

-----------------------------------------------------------------------------
(***************************************************************************)
(* What the code does not keep.                                            *)
(***************************************************************************)
\* No command that changes something is run before the user has allowed it.
EveryChangeIsAllowed == ran \subseteq agreed

\* devops.controller.js:1861: a rollback restores the previous file content.  It restores
\* the content before the last of several patches of a file,
RollbackRestores ==
    [][\A i \in DOMAIN shown, f \in Files :
          LET patches == shown[i].patches
          IN HandleRollback(i, {}) /\ Of(f, patches) # {} /\ disk[f] = patches[Max(Of(f, patches))].new
                => disk'[f] = patches[Min(Of(f, patches))].prev]_vars

\* and a message is marked as rolled back whose patch stays in its file.
RolledBackIsGone ==
    \A i \in DOMAIN shown : shown[i].back =>
        \A j \in DOMAIN shown[i].patches : disk[shown[i].patches[j].file] # shown[i].patches[j].new

\* A rollback takes away what its message has written, not what was saved since.
SavesAreKept ==
    [][\A i \in DOMAIN shown, f \in Files :
          HandleRollback(i, {}) /\ disk'[f] # disk[f]
              => \E j \in DOMAIN shown[i].patches : disk[f] = shown[i].patches[j].new]_vars

\* The indicator is shown while the newest request of the page is in flight.
NewestIsAwaited == controller # None => typing

\* At rest the messages of the page have the patches the stored ones have, place by place.
IndexesAgree ==
    (\A s \in Slots : req[s] = Idle) =>
        \A i \in DOMAIN shown \cap DOMAIN saved : shown[i].patches = saved[i].patches

\* The preview is not restarted under a build.
NoReloadInBuild ==
    [][status = "building" => \A s \in Slots : req[s].pc = "reload" => req'[s].pc = "reload"]_vars
=============================================================================
