--------------------------- MODULE AgentChatProofs ---------------------------
(***************************************************************************)
(* Theorems about the chat of module AgentChat, for every set of commands, *)
(* files and slots and every value of the bounds.                          *)
(*                                                                         *)
(* The types say of every patch, of a message or of a request, that it     *)
(* recorded what the write of its number replaced; a step that writes a    *)
(* file makes the set of such patches larger.                              *)
(***************************************************************************)
EXTENDS AgentChat, FiniteSetTheorems, SequenceTheorems, TLAPS

Pcs == {"idle", "accept", "begin", "think", "run", "reload", "return", "save", "reply",
        "refused", "grant", "deny", "denied", "exec", "exec commands"}

Perms == {"ask", "always", "never"}

Messages(P) == [role : {"user", "agent"}, patches : P, back : BOOLEAN,
                pending : SUBSET Commands]

Requests(P) == [pc : Pcs, resume : BOOLEAN, heard : BOOLEAN, iter : Nat, perm : Perms,
                deployed : BOOLEAN, patches : P, cud : BOOLEAN,
                todo : SUBSET Commands, ask : SUBSET Commands, at : Nat]

TypedFor(P) ==
    /\ <<>> \in P
    /\ shown \in Seq(Messages(P)) /\ saved \in Seq(Messages(P))
    /\ req \in [Slots -> Requests(P)]
    /\ controller \in Slots \cup {None}
    /\ state \in Nat /\ perm \in Perms
    /\ past \subseteq Commands /\ agreed \subseteq Commands /\ ran \subseteq Commands
    /\ auto \in [Commands -> Nat] /\ active \in Nat

Recorded == {[file |-> f, prev |-> was[n], new |-> n] : f \in Files, n \in 1 .. Len(was)}

Numbered == writes = Len(was) /\ \E V : was \in Seq(V)

Typed == TypedFor(Seq(Recorded)) /\ Numbered

(***************************************************************************)
(* Consent.  The permission 'always', the deployment's or the one a loop   *)
(* has read, is the user's consent to every command; and of what a request *)
(* is about to run, all that the classifier takes for a change has been    *)
(* allowed, by this or by the click on the card.                           *)
(***************************************************************************)
Allowed(r, to) ==
    /\ r.perm = "always" \/ r.pc = "grant" => to = Commands
    /\ r.pc \in {"run", "grant", "exec", "exec commands"} => r.todo \ Disguised \subseteq to

ConsentHeld ==
    /\ perm = "always" => agreed = Commands
    /\ \A s \in Slots : Allowed(req[s], agreed)
    /\ ConsentIsGiven

(***************************************************************************)
(* Runs of a command by the loops.  A command a loop has not planned has   *)
(* not been run, and a planned one is in the hands of a single loop until  *)
(* it is.                                                                  *)
(***************************************************************************)
Holds(s, c) == req[s].pc = "run" /\ c \in req[s].todo

PlannedOnce ==
    /\ \A c \in Commands : c \notin past => auto[c] = 0 /\ \A s \in Slots : ~Holds(s, c)
    /\ \A c \in Commands, s \in Slots :
          Holds(s, c) => auto[c] = 0 /\ \A t \in Slots : Holds(t, c) => t = s
    /\ NoCommandLoop

Inside == {"begin", "think", "run", "reload", "return"}

InLoop == {s \in Slots : req[s].pc \in Inside}

-----------------------------------------------------------------------------
(***************************************************************************)
(* The operators of the model keep messages and requests what they are.    *)
(***************************************************************************)
LEMMA MessageTyped ==
    ASSUME NEW P, NEW role \in {"user", "agent"}, NEW ps \in P, NEW c \in SUBSET Commands
    PROVE  Message(role, ps, c) \in Messages(P)
    BY DEF Message, Messages

LEMMA GreetingTyped == ASSUME NEW P, <<>> \in P
                       PROVE  Said \in Messages(P) /\ Hello \in Messages(P)
    BY DEF Said, Hello, Message, Messages

LEMMA ElementTyped ==
    ASSUME NEW S, NEW q \in Seq(S), q # <<>>
    PROVE  Len(q) \in 1 .. Len(q) /\ Last(q) \in S /\ Last(q) = q[Len(q)]
    BY EmptySeq, ElementOfSeq DEF Last

LEMMA AppendTyped == ASSUME NEW S, NEW q \in Seq(S), NEW e \in S
                     PROVE  Append(q, e) \in Seq(S)
    OBVIOUS

LEMMA PutTyped ==
    ASSUME NEW P, shown \in Seq(Messages(P)), NEW m \in Messages(P)
    PROVE  Put(m) \in Seq(Messages(P)) /\ PutOrPush(m) \in Seq(Messages(P))
<1>1. CASE LastIsAgent
    <2>1. Len(shown) \in 1 .. Len(shown) BY <1>1, ElementTyped DEF LastIsAgent
    <2>2. [shown EXCEPT ![Len(shown)] = m] \in Seq(Messages(P)) BY <2>1, ExceptSeq
    <2>3. QED BY <1>1, <2>2 DEF Put, PutOrPush
<1>2. CASE ~LastIsAgent BY <1>2, AppendTyped DEF Put, PutOrPush
<1>3. QED BY <1>1, <1>2

LEMMA ClearedTyped ==
    ASSUME NEW P, NEW q \in Seq(Messages(P))
    PROVE  Cleared(q) \in Seq(Messages(P))
<1> DEFINE pending == {i \in 1 .. Len(q) : q[i].pending # {}}
           e(i)    == IF i \in pending /\ \A j \in pending : i <= j
                      THEN [q[i] EXCEPT !.pending = {}] ELSE q[i]
<1>1. Len(q) \in Nat BY LenProperties
<1>2. \A i \in 1 .. Len(q) : e(i) \in Messages(P)
    <2> SUFFICES ASSUME NEW i \in 1 .. Len(q) PROVE e(i) \in Messages(P) OBVIOUS
    <2>1. q[i] \in Messages(P) BY ElementOfSeq
    <2>2. [q[i] EXCEPT !.pending = {}] \in Messages(P) BY <2>1 DEF Messages
    <2>3. QED BY <2>1, <2>2
<1>3. Cleared(q) = [i \in 1 .. Len(q) |-> e(i)] BY DEF Cleared
<1> HIDE DEF e
<1>4. [i \in 1 .. Len(q) |-> e(i)] \in [1 .. Len(q) -> Messages(P)] BY <1>2
<1>5. QED BY <1>1, <1>3, <1>4, SeqDef

LEMMA RequestTyped ==
    ASSUME NEW P, NEW r \in Requests(P), NEW w
    PROVE  /\ \A pc \in Pcs : [r EXCEPT !.pc = pc] \in Requests(P)
           /\ \A b \in BOOLEAN : [r EXCEPT !.heard = b] \in Requests(P)
           /\ Finished(r) \in Requests(P)
           /\ Planned(r, w) \in Requests(P)
           /\ NextIteration(r) \in Requests(P)
<1>1. \A pc \in Pcs : [r EXCEPT !.pc = pc] \in Requests(P) BY DEF Requests
<1>2. \A b \in BOOLEAN : [r EXCEPT !.heard = b] \in Requests(P) BY DEF Requests
<1>3. Finished(r) \in Requests(P) BY <1>1 DEF Finished, Pcs
<1>4. Planned(r, w) \in Requests(P)
    <2> DEFINE cud  == Changes(w)
               todo == Unasked(w) \cup IF r.perm = "always" THEN cud ELSE {}
               ask  == IF r.perm = "ask" THEN cud ELSE {}
    <2>1. (cud # {}) \in BOOLEAN /\ todo \in SUBSET Commands /\ ask \in SUBSET Commands
        BY DisguisedAreCommands DEF Changes, Unasked
    <2> HIDE DEF cud, todo, ask
    <2>2. [r EXCEPT !.pc = "run", !.cud = cud # {}, !.todo = todo, !.ask = ask] \in Requests(P)
        BY <2>1 DEF Requests, Pcs
    <2>3. QED BY <1>3, <2>2 DEF Planned, cud, todo, ask
<1>5. NextIteration(r) \in Requests(P)
    <2> DEFINE n == r.iter + 1
    <2>1. n \in Nat BY DEF Requests
    <2> HIDE DEF n
    <2>2. [r EXCEPT !.pc = "think", !.iter = n] \in Requests(P) BY <2>1 DEF Requests, Pcs
    <2>3. QED BY <1>3, <2>2 DEF NextIteration, n
<1>6. QED BY <1>1, <1>2, <1>3, <1>4, <1>5

LEMMA IdleTyped == ASSUME NEW P, <<>> \in P PROVE Idle \in Requests(P)
    BY DEF Idle, Requests, Pcs, Perms

LEMMA AskedTyped == ASSUME NEW P, shown \in Seq(Messages(P)) PROVE Asked \in SUBSET Commands
<1>1. CASE shown = <<>> BY <1>1 DEF Asked
<1>2. CASE shown # <<>>
    <2>1. Last(shown) \in Messages(P) BY <1>2, ElementTyped
    <2>2. QED BY <1>2, <2>1 DEF Asked, Messages
<1>3. QED BY <1>1, <1>2

LEMMA SlotTyped ==
    ASSUME NEW P, req \in [Slots -> Requests(P)], NEW s \in Slots, NEW r \in Requests(P)
    PROVE  [req EXCEPT ![s] = r] \in [Slots -> Requests(P)]
    OBVIOUS

LEMMA InitTyped == Init => Typed
<1> SUFFICES ASSUME Init, NEW P, P = Seq(Recorded) PROVE TypedFor(P) /\ Numbered BY DEF Typed
<1>1. <<>> \in P OBVIOUS
<1>2. Hello \in Messages(P) BY <1>1, GreetingTyped
<1>3. <<Hello>> \in Seq(Messages(P)) BY <1>2
<1>4. Idle \in Requests(P) BY <1>1, IdleTyped
<1>5. TypedFor(P) BY <1>1, <1>3, <1>4 DEF Init, TypedFor, Perms, None
<1>6. was = <<0>> /\ <<0>> \in Seq({0}) /\ Len(<<0>>) = 1 /\ writes = 1 BY DEF Init
<1>7. QED BY <1>5, <1>6 DEF Numbered

(***************************************************************************)
(* The page's requests.                                                    *)
(***************************************************************************)
LEMMA UserTyped == ASSUME NEW P, TypedFor(P), User PROVE TypedFor(P)'
<1> USE DEF TypedFor
<1>1. Said \in Messages(P) /\ Hello \in Messages(P) BY GreetingTyped
<1>2. Idle \in Requests(P) BY IdleTyped
<1>3. Asked \in SUBSET Commands BY AskedTyped
<1>4. Len(shown) \in Nat /\ DOMAIN shown = 1 .. Len(shown)
      /\ Len(saved) \in Nat /\ DOMAIN saved = 1 .. Len(saved) BY LenProperties
<1>5. ASSUME NEW s \in Slots, HandleSendChat(s) PROVE TypedFor(P)'
    <2>1. <<Said, Hello>> \in Seq(Messages(P)) BY <1>1
    <2>2. shown' \in Seq(Messages(P)) BY <1>5, <2>1, ConcatProperties DEF HandleSendChat
    <2>3. [Idle EXCEPT !.pc = "accept"] \in Requests(P)
        BY <1>2, RequestTyped DEF Pcs
    <2>4. \A t \in Slots : [req[t] EXCEPT !.heard = FALSE] \in Requests(P) BY RequestTyped
    <2>5. req' \in [Slots -> Requests(P)] BY <1>5, <2>3, <2>4 DEF HandleSendChat
    <2>6. QED BY <1>5, <2>2, <2>5 DEF HandleSendChat, memory, trace
<1>6. ASSUME NEW s \in Slots, HandlePermissionAllow(s) PROVE TypedFor(P)'
    <2>1. [Idle EXCEPT !.pc = "exec", !.todo = Asked] \in Requests(P)
        BY <1>2, <1>3 DEF Requests, Pcs
    <2>2. QED BY <1>3, <1>6, <2>1, SlotTyped DEF HandlePermissionAllow, Request, memory
<1>7. ASSUME NEW s \in Slots, HandlePermissionAllowEverytime(s) PROVE TypedFor(P)'
    <2>1. [Idle EXCEPT !.pc = "grant", !.todo = Asked] \in Requests(P)
        BY <1>2, <1>3 DEF Requests, Pcs
    <2>2. QED BY <1>3, <1>7, <2>1, SlotTyped DEF HandlePermissionAllowEverytime, Request, memory
<1>8. ASSUME NEW s \in Slots, HandlePermissionNever(s) PROVE TypedFor(P)'
    <2>1. [Idle EXCEPT !.pc = "deny", !.at = Len(shown)] \in Requests(P)
        BY <1>2, <1>4 DEF Requests, Pcs
    <2>2. QED BY <1>8, <2>1, SlotTyped DEF HandlePermissionNever, Request, memory, trace, chat
<1>9. CASE HandleStopChat
    <2>1. PutOrPush(Hello) \in Seq(Messages(P)) BY <1>1, PutTyped
    <2>2. controller # None => [req EXCEPT ![controller].heard = FALSE] \in [Slots -> Requests(P)]
        BY RequestTyped
    <2>3. QED BY <1>9, <2>1, <2>2 DEF HandleStopChat, memory, trace
<1>10. ASSUME NEW i \in 1 .. Len(shown), NEW failed, HandleRollback(i, failed) PROVE TypedFor(P)'
    <2>1. ASSUME NEW q \in Seq(Messages(P)), i \in 1 .. Len(q)
          PROVE  [q EXCEPT ![i].back = TRUE] \in Seq(Messages(P))
        <3>1. q[i] \in Messages(P) BY <2>1, ElementOfSeq
        <3>2. [q[i] EXCEPT !.back = TRUE] \in Messages(P) BY <3>1 DEF Messages
        <3>3. QED BY <2>1, <3>2, ExceptSeq
    <2>2. i <= Len(saved) => i \in 1 .. Len(saved) BY <1>4
    <2>3. QED BY <1>10, <2>1, <2>2 DEF HandleRollback, Rewritten, memory, trace
<1>11. ASSUME NEW i \in 1 .. Len(shown), HandleUndo(i) PROVE TypedFor(P)'
    <2>1. CASE i <= Len(saved)
        <3>1. \A j \in 1 .. i - 1 : saved[j] \in Messages(P) BY <1>4, <2>1, ElementOfSeq
        <3>2. SubSeq(saved, 1, i - 1) \in Seq(Messages(P)) BY <3>1, SubSeqProperties
        <3>3. QED BY <1>11, <2>1, <3>2 DEF HandleUndo, Rewritten, memory, trace
    <2>2. CASE ~(i <= Len(saved)) BY <1>11, <2>2 DEF HandleUndo, memory, trace
    <2>3. QED BY <2>1, <2>2
<1>12. QED BY <1>5, <1>6, <1>7, <1>8, <1>9, <1>10, <1>11 DEF User

(***************************************************************************)
(* The steps of the handlers and of the loop.                              *)
(***************************************************************************)
LEMMA GoesTyped ==
    ASSUME NEW P, req \in [Slots -> Requests(P)], NEW s \in Slots, NEW pc \in Pcs, Goes(s, pc)
    PROVE  req' \in [Slots -> Requests(P)]
    BY RequestTyped, SlotTyped DEF Goes

\* More patches do no harm.
LEMMA TypedMonotonic ==
    ASSUME NEW P, NEW Q, P \subseteq Q, TypedFor(P)
    PROVE  TypedFor(Q)
<1>1. Messages(P) \subseteq Messages(Q) /\ Requests(P) \subseteq Requests(Q)
    BY DEF Messages, Requests
<1>2. shown \in Seq(Messages(Q)) /\ saved \in Seq(Messages(Q)) BY <1>1, SeqMonotonic DEF TypedFor
<1>3. req \in [Slots -> Requests(Q)] BY <1>1 DEF TypedFor
<1>4. QED BY <1>2, <1>3 DEF TypedFor

\* A write is recorded under the next number, and those before it stay.
LEMMA WriteRecorded ==
    ASSUME Numbered, NEW f \in Files, Write(f)
    PROVE  /\ Numbered' /\ Seq(Recorded) \subseteq Seq(Recorded')
           /\ Patch(f) \in Recorded'
<1>1. PICK V : was \in Seq(V) BY DEF Numbered
<1>2. was \in Seq(V \cup {disk[f]}) BY <1>1, SeqMonotonic
<1>3. was' = Append(was, disk[f]) /\ writes' = writes + 1 BY DEF Write
<1>4. /\ was' \in Seq(V \cup {disk[f]}) /\ Len(was') = Len(was) + 1
      /\ Len(was) \in Nat /\ was'[Len(was) + 1] = disk[f]
      /\ \A n \in 1 .. Len(was) : was'[n] = was[n]
    BY <1>2, <1>3, AppendProperties, LenProperties
<1>5. Numbered' BY <1>3, <1>4 DEF Numbered
<1>6. Recorded \subseteq Recorded'
    <2> SUFFICES ASSUME NEW r \in Recorded PROVE r \in Recorded' OBVIOUS
    <2>1. PICK g \in Files, n \in 1 .. Len(was) : r = [file |-> g, prev |-> was[n], new |-> n]
        BY DEF Recorded
    <2>2. n \in 1 .. Len(was') /\ was'[n] = was[n] BY <1>4
    <2>3. QED BY <2>1, <2>2 DEF Recorded
<1>7. Patch(f) \in Recorded'
    <2>1. Patch(f) = [file |-> f, prev |-> was'[Len(was')], new |-> Len(was')]
        BY <1>4 DEF Patch, Numbered
    <2>2. Len(was') \in 1 .. Len(was') BY <1>4
    <2>3. QED BY <2>1, <2>2 DEF Recorded
<1>8. QED BY <1>5, <1>6, <1>7, SeqMonotonic

LEMMA LlmAnswersTyped ==
    ASSUME NEW P, TypedFor(P), NEW s \in Slots, NEW p, NEW w, LlmAnswers(s, p, w),
           NEW Q, P \subseteq Q, p # NoFile => Append(req[s].patches, Patch(p)) \in Q
    PROVE  TypedFor(Q)'
<1>1. TypedFor(Q) BY TypedMonotonic
<1>2. req[s] \in Requests(Q) BY <1>1 DEF TypedFor
<1>3. past' \subseteq Commands BY DEF LlmAnswers, TypedFor
<1>4. ASSUME NEW r \in Requests(Q), req' = [req EXCEPT ![s] = Planned(r, w)]
      PROVE  TypedFor(Q)'
    <2>1. Planned(r, w) \in Requests(Q) BY RequestTyped
    <2>2. req' \in [Slots -> Requests(Q)] BY <1>1, <1>4, <2>1, SlotTyped DEF TypedFor
    <2>3. QED BY <1>1, <1>3, <2>2 DEF LlmAnswers, TypedFor, chat, trace
<1>5. CASE p = NoFile BY <1>2, <1>4, <1>5 DEF LlmAnswers
<1>6. CASE p # NoFile
    <2> DEFINE ps == Append(req[s].patches, Patch(p))
    <2>1. ps \in Q /\ Applied(req[s], p) = [req[s] EXCEPT !.patches = ps] BY <1>6 DEF Applied
    <2> HIDE DEF ps
    <2>2. Applied(req[s], p) \in Requests(Q) BY <1>2, <2>1 DEF Requests
    <2>3. QED BY <1>4, <1>6, <2>2 DEF LlmAnswers
<1>7. QED BY <1>5, <1>6

LEMMA LoopTyped ==
    ASSUME NEW P, TypedFor(P), NEW s \in Slots,
           \/ ExecuteAgentChat(s) \/ Begin(s) \/ LlmFails(s)
           \/ \E c \in Commands : RunCommandInContainer(s, c)
           \/ Continue(s) \/ HotReload(s) \/ LoopReturns(s)
    PROVE  TypedFor(P)'
<1> USE DEF TypedFor
<1>1. req[s] \in Requests(P) OBVIOUS
<1>2. Entered \/ Returned => active' \in Nat BY DEF Entered, Returned
<1>3. CASE ExecuteAgentChat(s)
    <2>1. [req[s] EXCEPT !.pc = "begin", !.perm = perm, !.deployed = (status = "deployed")]
              \in Requests(P)
        BY <1>1 DEF Requests, Pcs
    <2>2. CASE status = "building"
        BY <1>3, <2>2, GoesTyped DEF ExecuteAgentChat, Pcs, chat, trace
    <2>3. CASE status # "building"
        BY <1>2, <1>3, <2>1, <2>3, SlotTyped DEF ExecuteAgentChat, chat, trace
    <2>4. QED BY <2>2, <2>3
<1>4. CASE Begin(s)
    <2> DEFINE n == IF req[s].resume /\ state > 0 THEN state ELSE 1
    <2>1. n \in Nat OBVIOUS
    <2> HIDE DEF n
    <2>2. [req[s] EXCEPT !.pc = "think", !.iter = n] \in Requests(P)
        BY <1>1, <2>1 DEF Requests, Pcs
    <2>3. req' \in [Slots -> Requests(P)] BY <1>4, <2>2, SlotTyped DEF Begin, n
    <2>4. state' \in Nat BY <1>4 DEF Begin
    <2>5. QED BY <1>4, <2>3, <2>4 DEF Begin, chat, trace
<1>5. CASE LlmFails(s)
    <2>1. [req[s] EXCEPT !.pc = "save", !.patches = <<>>] \in Requests(P)
        BY <1>1 DEF Requests, Pcs
    <2>2. QED BY <1>2, <1>5, <2>1, SlotTyped DEF LlmFails, chat, trace
<1>6. ASSUME NEW c \in Commands, RunCommandInContainer(s, c) PROVE TypedFor(P)'
    <2>1. req[s].todo \ {c} \in SUBSET Commands BY <1>1 DEF Requests
    <2>2. [req[s] EXCEPT !.todo = req[s].todo \ {c}] \in Requests(P) BY <1>1, <2>1 DEF Requests
    <2>3. req' \in [Slots -> Requests(P)] BY <1>6, <2>2, SlotTyped DEF RunCommandInContainer
    <2>4. QED BY <1>6, <2>3 DEF RunCommandInContainer, chat, memory
<1>7. CASE Continue(s)
    <2>1. req' \in [Slots -> Requests(P)]
        <3>1. [req[s] EXCEPT !.pc = "save"] \in Requests(P) BY <1>1, RequestTyped DEF Pcs
        <3>2. Finished(req[s]) \in Requests(P) /\ NextIteration(req[s]) \in Requests(P)
            BY <1>1, RequestTyped
        <3>3. QED BY <1>7, <3>1, <3>2, SlotTyped DEF Continue
    <2>2. state' \in Nat /\ active' \in Nat BY <1>1, <1>2, <1>7 DEF Continue, Requests
    <2>3. QED BY <1>7, <2>1, <2>2 DEF Continue, chat, trace
<1>8. CASE HotReload(s) BY <1>8, GoesTyped DEF HotReload, Pcs, chat, memory, trace
<1>9. CASE LoopReturns(s) BY <1>2, <1>9, GoesTyped DEF LoopReturns, Pcs, chat, trace
<1>10. QED BY <1>3, <1>4, <1>5, <1>6, <1>7, <1>8, <1>9

LEMMA HandlersTyped ==
    ASSUME NEW P, TypedFor(P), NEW s \in Slots,
           \/ SaveMessages(s) \/ UpdateAgentPermission(s) \/ ExecutePendingCommands(s)
           \/ \E c \in Commands : RunApproved(s, c)
           \/ ResumeLoop(s) \/ ChatAnswer(s) \/ ExecAnswer(s) \/ DenyAnswer(s)
    PROVE  TypedFor(P)'
<1> USE DEF TypedFor
<1>1. req[s] \in Requests(P) OBVIOUS
<1>2. Idle \in Requests(P) BY IdleTyped
<1>3. Said \in Messages(P) /\ Hello \in Messages(P) BY GreetingTyped
<1>4. Answer(req[s]) \in Messages(P) BY <1>1, MessageTyped DEF Answer, Requests
<1>5. CASE SaveMessages(s)
    <2>1. Replied(req[s]) \in Requests(P) BY <1>1, <1>2, RequestTyped DEF Replied, Pcs
    <2>2. <<Answer(req[s])>> \in Seq(Messages(P)) /\ <<Said, Answer(req[s])>> \in Seq(Messages(P))
        BY <1>3, <1>4
    <2>3. saved' \in Seq(Messages(P)) BY <1>5, <2>2, ConcatProperties DEF SaveMessages
    <2>4. QED BY <1>5, <2>1, <2>3, SlotTyped DEF SaveMessages, memory, trace
<1>6. CASE UpdateAgentPermission(s)
    <2>1. req' \in [Slots -> Requests(P)] BY <1>6, GoesTyped DEF UpdateAgentPermission, Pcs
    <2>2. perm' \in Perms BY <1>6 DEF UpdateAgentPermission, Perms
    <2>3. QED BY <1>6, <2>1, <2>2 DEF UpdateAgentPermission, chat, memory, trace
<1>7. CASE ExecutePendingCommands(s)
    <2>1. [req[s] EXCEPT !.pc = "refused", !.resume = TRUE] \in Requests(P)
        BY <1>1 DEF Requests, Pcs
    <2>2. [req[s] EXCEPT !.pc = "exec commands", !.resume = TRUE, !.perm = perm,
                         !.deployed = (status = "deployed")] \in Requests(P)
        BY <1>1 DEF Requests, Pcs
    <2>3. QED BY <1>7, <2>1, <2>2, SlotTyped DEF ExecutePendingCommands, chat, memory, trace
<1>8. ASSUME NEW c \in Commands, RunApproved(s, c) PROVE TypedFor(P)'
    <2>1. req[s].todo \ {c} \in SUBSET Commands BY <1>1 DEF Requests
    <2>2. [req[s] EXCEPT !.todo = req[s].todo \ {c}] \in Requests(P) BY <1>1, <2>1 DEF Requests
    <2>3. req' \in [Slots -> Requests(P)] BY <1>8, <2>2, SlotTyped DEF RunApproved
    <2>4. QED BY <1>8, <2>3 DEF RunApproved, chat, memory
<1>9. CASE ResumeLoop(s)
    <2>1. saved' \in Seq(Messages(P)) BY <1>9, ClearedTyped DEF ResumeLoop
    <2>2. req' \in [Slots -> Requests(P)] BY <1>9, GoesTyped DEF ResumeLoop, Pcs
    <2>3. active' \in Nat
        <3>1. CASE state > 0
            <4>1. active' = active + 1 BY <1>9, <3>1 DEF ResumeLoop, Entered
            <4>2. QED BY <4>1
        <3>2. CASE ~(state > 0) BY <1>9, <3>2 DEF ResumeLoop
        <3>3. QED BY <3>1, <3>2
    <2>4. QED BY <1>9, <2>1, <2>2, <2>3 DEF ResumeLoop, trace
<1>10. CASE ChatAnswer(s)
    <2>1. shown' \in Seq(Messages(P)) BY <1>3, <1>4, <1>10, PutTyped DEF ChatAnswer
    <2>2. QED BY <1>2, <1>10, <2>1, SlotTyped DEF ChatAnswer, memory, trace
<1>11. CASE ExecAnswer(s) BY <1>2, <1>11, SlotTyped DEF ExecAnswer, memory, trace
<1>12. CASE DenyAnswer(s)
    <2>1. CASE req[s].at \in 1 .. Len(shown)
        <3>1. shown[req[s].at] \in Messages(P) BY <2>1, ElementOfSeq
        <3>2. [shown[req[s].at] EXCEPT !.pending = {}] \in Messages(P) BY <3>1 DEF Messages
        <3>3. [shown EXCEPT ![req[s].at].pending = {}] \in Seq(Messages(P))
            BY <2>1, <3>2, ExceptSeq
        <3>4. QED BY <1>2, <1>12, <3>3, SlotTyped DEF DenyAnswer, memory, trace
    <2>2. CASE req[s].at \notin 1 .. Len(shown)
        <3>1. Len(shown) \in Nat /\ DOMAIN shown = 1 .. Len(shown) BY LenProperties
        <3>2. [shown EXCEPT ![req[s].at].pending = {}] = shown BY <2>2, <3>1
        <3>3. QED BY <1>2, <1>12, <3>2, SlotTyped DEF DenyAnswer, memory, trace
    <2>3. QED BY <2>1, <2>2
<1>13. QED BY <1>5, <1>6, <1>7, <1>8, <1>9, <1>10, <1>11, <1>12

LEMMA StepTyped == Typed /\ [Next]_vars => Typed'
<1> SUFFICES ASSUME NEW P, P = Seq(Recorded), TypedFor(P), Numbered, [Next]_vars PROVE Typed'
    BY DEF Typed
<1>1. ASSUME TypedFor(P)', UNCHANGED <<was, writes>> PROVE Typed'
    <2>1. Recorded' = Recorded /\ Numbered' BY <1>1 DEF Recorded, Numbered
    <2>2. P = Seq(Recorded') BY <2>1
    <2>3. QED BY <1>1, <2>1, <2>2 DEF Typed, TypedFor
<1>2. ASSUME NEW f \in Files, Write(f),
             \A Q : P \subseteq Q /\ Patch(f) \in Recorded' /\ Q = Seq(Recorded') => TypedFor(Q)'
      PROVE  Typed'
    <2>1. Numbered' /\ P \subseteq Seq(Recorded') /\ Patch(f) \in Recorded'
        BY <1>2, WriteRecorded
    <2>2. PICK Q : Q = Seq(Recorded') OBVIOUS
    <2>3. TypedFor(Q)' BY <1>2, <2>1, <2>2
    <2>4. QED BY <2>1, <2>2, <2>3 DEF Typed, TypedFor
<1>3. CASE User
    <2>1. UNCHANGED <<was, writes>>
        BY <1>3 DEF User, HandleSendChat, HandlePermissionAllow, HandlePermissionAllowEverytime,
                    HandlePermissionNever, HandleStopChat, HandleRollback, HandleUndo, Rewritten,
                    files
    <2>2. QED BY <1>1, <1>3, <2>1, UserTyped
<1>4. ASSUME NEW s \in Slots, NEW p \in Files \cup {NoFile}, NEW w, LlmAnswers(s, p, w)
      PROVE  Typed'
    <2>1. CASE p = NoFile
        <3>1. UNCHANGED <<was, writes>> BY <1>4, <2>1 DEF LlmAnswers, files
        <3>2. TypedFor(P)' BY <1>4, <2>1, LlmAnswersTyped
        <3>3. QED BY <1>1, <3>1, <3>2
    <2>2. CASE p # NoFile
        <3>1. p \in Files /\ Write(p) BY <1>4, <2>2 DEF LlmAnswers
        <3>2. req[s].patches \in P BY DEF TypedFor, Requests
        <3>3. ASSUME NEW Q, P \subseteq Q, Patch(p) \in Recorded', Q = Seq(Recorded')
              PROVE  TypedFor(Q)'
            <4>1. Append(req[s].patches, Patch(p)) \in Q BY <3>2, <3>3, AppendTyped
            <4>2. QED BY <1>4, <3>3, <4>1, LlmAnswersTyped
        <3>4. QED BY <1>2, <3>1, <3>3
    <2>3. QED BY <2>1, <2>2
<1>5. ASSUME NEW s \in Slots, Serve(s) PROVE Typed'
    <2>1. CASE \E p \in Files \cup {NoFile}, w \in Wanted : LlmAnswers(s, p, w) BY <1>4, <2>1
    <2>2. CASE ~ \E p \in Files \cup {NoFile}, w \in Wanted : LlmAnswers(s, p, w)
        <3>1. UNCHANGED <<was, writes>>
            BY <1>5, <2>2
               DEF Serve, ExecuteAgentChat, Begin, LlmFails, RunCommandInContainer, Continue,
                   HotReload, LoopReturns, SaveMessages, UpdateAgentPermission,
                   ExecutePendingCommands, RunApproved, ResumeLoop, ChatAnswer, ExecAnswer,
                   DenyAnswer, files
        <3>2. TypedFor(P)' BY <1>5, <2>2, LoopTyped, HandlersTyped DEF Serve
        <3>3. QED BY <1>1, <3>1, <3>2
    <2>3. QED BY <2>1, <2>2
<1>6. ASSUME NEW f \in Files, Edit(f) PROVE Typed'
    <2>1. ASSUME NEW Q, P \subseteq Q PROVE TypedFor(Q)'
        <3>1. TypedFor(Q) BY <2>1, TypedMonotonic
        <3>2. QED BY <1>6, <3>1 DEF TypedFor, Edit, chat, memory, trace
    <2>2. QED BY <1>2, <1>6, <2>1 DEF Edit
<1>7. CASE Deployment BY <1>1, <1>7 DEF TypedFor, Deployment, chat, memory, trace, files
<1>8. CASE Expire BY <1>1, <1>8 DEF TypedFor, Expire, chat, trace, files
<1>9. CASE UNCHANGED vars BY <1>1, <1>9 DEF TypedFor, vars, chat, memory, trace, files
<1>10. QED BY <1>3, <1>5, <1>6, <1>7, <1>8, <1>9 DEF Next

-----------------------------------------------------------------------------
(***************************************************************************)
(* Consent.                                                                *)
(***************************************************************************)
LEMMA InitConsent == Init => ConsentHeld
<1>1. Allowed(Idle, agreed) BY DEF Allowed, Idle
<1>2. Init => (perm = "always" => agreed = Commands) BY DEF Init
<1>3. Init => \A s \in Slots : req[s] = Idle BY DEF Init
<1>4. Init => ConsentIsGiven BY DEF Init, ConsentIsGiven
<1>5. QED BY <1>1, <1>2, <1>3, <1>4 DEF ConsentHeld

LEMMA PlannedAllowed ==
    ASSUME NEW P, NEW r \in Requests(P), NEW w, Allowed(r, agreed)
    PROVE  /\ Allowed(Planned(r, w), agreed)
           /\ Allowed(Finished(r), agreed)
           /\ Allowed(NextIteration(r), agreed)
<1>1. Allowed(Finished(r), agreed) BY DEF Allowed, Finished, Requests
<1>2. Allowed(NextIteration(r), agreed) BY <1>1 DEF Allowed, NextIteration, Requests
<1>3. Allowed(Planned(r, w), agreed)
    <2> DEFINE cud  == Changes(w)
               todo == Unasked(w) \cup IF r.perm = "always" THEN cud ELSE {}
               ask  == IF r.perm = "ask" THEN cud ELSE {}
    <2>1. todo \ Disguised \subseteq agreed BY DEF Allowed, Changes, Unasked
    <2> HIDE DEF cud, todo, ask
    <2>2. Allowed([r EXCEPT !.pc = "run", !.cud = cud # {}, !.todo = todo, !.ask = ask], agreed)
        BY <2>1 DEF Allowed, Requests
    <2>3. QED BY <1>1, <2>2 DEF Planned, cud, todo, ask
<1>4. QED BY <1>1, <1>2, <1>3

(***************************************************************************)
(* A step that changes one request, and takes no consent back.             *)
(***************************************************************************)
LEMMA OneAllowed ==
    ASSUME NEW P, TypedFor(P), ConsentHeld,
           NEW s \in Slots, NEW r, req' = [req EXCEPT ![s] = r], Allowed(r, agreed'),
           agreed \subseteq agreed', agreed' \subseteq Commands,
           ran' \ Disguised \subseteq agreed', perm' = "always" => agreed' = Commands
    PROVE  ConsentHeld'
<1>1. req'[s] = r /\ \A t \in Slots \ {s} : req'[t] = req[t] BY DEF TypedFor
<1>2. \A t \in Slots : Allowed(req[t], agreed') BY DEF ConsentHeld, Allowed
<1>3. QED BY <1>1, <1>2 DEF ConsentHeld, ConsentIsGiven

LEMMA UserConsent == ASSUME NEW P, TypedFor(P), ConsentHeld, User PROVE ConsentHeld'
<1>1. Asked \in SUBSET Commands /\ agreed \subseteq Commands BY AskedTyped DEF TypedFor
<1>2. ASSUME NEW s \in Slots, HandleSendChat(s) PROVE ConsentHeld'
    <2>1. Allowed([Idle EXCEPT !.pc = "accept"], agreed) BY DEF Allowed, Idle
    <2>2. \A t \in Slots : Allowed([req[t] EXCEPT !.heard = FALSE], agreed)
        BY DEF ConsentHeld, Allowed, TypedFor, Requests
    <2>3. \A t \in Slots : Allowed(req'[t], agreed)
        BY <1>2, <2>1, <2>2 DEF HandleSendChat, ConsentHeld
    <2>4. QED BY <1>2, <2>3 DEF HandleSendChat, ConsentHeld, ConsentIsGiven, trace
<1>3. ASSUME NEW s \in Slots, HandlePermissionAllow(s) PROVE ConsentHeld'
    <2>1. agreed' = agreed \cup Asked /\ UNCHANGED <<ran, perm>>
          /\ req' = [req EXCEPT ![s] = [Idle EXCEPT !.pc = "exec", !.todo = Asked]]
        BY <1>3 DEF HandlePermissionAllow, Request
    <2>2. Allowed([Idle EXCEPT !.pc = "exec", !.todo = Asked], agreed')
        BY <2>1 DEF Allowed, Idle
    <2>3. QED BY <1>1, <2>1, <2>2, OneAllowed DEF ConsentHeld, ConsentIsGiven
<1>4. ASSUME NEW s \in Slots, HandlePermissionAllowEverytime(s) PROVE ConsentHeld'
    <2>1. agreed' = Commands /\ UNCHANGED <<ran, perm>>
          /\ req' = [req EXCEPT ![s] = [Idle EXCEPT !.pc = "grant", !.todo = Asked]]
        BY <1>4 DEF HandlePermissionAllowEverytime, Request
    <2>2. Allowed([Idle EXCEPT !.pc = "grant", !.todo = Asked], agreed')
        BY <1>1, <2>1 DEF Allowed, Idle
    <2>3. QED BY <1>1, <2>1, <2>2, OneAllowed DEF ConsentHeld, ConsentIsGiven
<1>5. ASSUME NEW s \in Slots, HandlePermissionNever(s) PROVE ConsentHeld'
    <2>1. UNCHANGED <<agreed, ran, perm>>
          /\ req' = [req EXCEPT ![s] = [Idle EXCEPT !.pc = "deny", !.at = Len(shown)]]
        BY <1>5 DEF HandlePermissionNever, Request, trace
    <2>2. Allowed([Idle EXCEPT !.pc = "deny", !.at = Len(shown)], agreed) BY DEF Allowed, Idle
    <2>3. QED BY <1>1, <2>1, <2>2, OneAllowed DEF ConsentHeld, ConsentIsGiven
<1>6. CASE HandleStopChat
    <2>1. UNCHANGED <<agreed, ran, perm>> BY <1>6 DEF HandleStopChat, trace
    <2>2. CASE controller = None
        BY <1>6, <2>1, <2>2 DEF HandleStopChat, ConsentHeld, ConsentIsGiven
    <2>3. CASE controller # None
        <3> DEFINE r == [req[controller] EXCEPT !.heard = FALSE]
        <3>1. controller \in Slots BY <2>3 DEF TypedFor
        <3>2. req' = [req EXCEPT ![controller] = r] BY <1>6, <2>3 DEF HandleStopChat
        <3>3. Allowed(r, agreed) BY <3>1 DEF ConsentHeld, Allowed, TypedFor, Requests
        <3> HIDE DEF r
        <3>4. QED BY <1>1, <2>1, <3>1, <3>2, <3>3, OneAllowed DEF ConsentHeld, ConsentIsGiven
    <2>4. QED BY <2>2, <2>3
<1>7. ASSUME NEW i \in 1 .. Len(shown), (\E failed : HandleRollback(i, failed)) \/ HandleUndo(i) PROVE ConsentHeld'
    BY <1>7 DEF HandleRollback, HandleUndo, ConsentHeld, ConsentIsGiven, trace
<1>8. QED BY <1>2, <1>3, <1>4, <1>5, <1>6, <1>7 DEF User

LEMMA ServeConsent ==
    ASSUME NEW P, TypedFor(P), ConsentHeld, NEW s \in Slots, Serve(s) PROVE ConsentHeld'
<1>1. req[s] \in Requests(P) /\ Allowed(req[s], agreed) BY DEF TypedFor, ConsentHeld
<1>2. agreed \subseteq Commands BY DEF TypedFor
<1>3. agreed' = agreed BY DEF Serve, ExecuteAgentChat, Begin, LlmFails, LlmAnswers,
        RunCommandInContainer, Continue, HotReload, LoopReturns, SaveMessages,
        UpdateAgentPermission, ExecutePendingCommands, RunApproved, ResumeLoop, ChatAnswer,
        ExecAnswer, DenyAnswer, trace
<1>4. ASSUME NEW r, req' = [req EXCEPT ![s] = r], Allowed(r, agreed), UNCHANGED <<ran, perm>>
      PROVE  ConsentHeld'
    BY <1>2, <1>3, <1>4, OneAllowed DEF ConsentHeld, ConsentIsGiven
<1>5. ASSUME NEW pc \in {"begin", "think", "reload", "return", "save", "reply", "refused", "denied"}
      PROVE  Allowed([req[s] EXCEPT !.pc = pc], agreed)
    BY <1>1 DEF Allowed, Requests
<1>6. Allowed(Idle, agreed) BY DEF Allowed, Idle
<1>7. CASE ExecuteAgentChat(s)
    <2>1. Allowed([req[s] EXCEPT !.pc = "begin", !.perm = perm,
                                 !.deployed = (status = "deployed")], agreed)
        BY <1>1 DEF Allowed, Requests, ConsentHeld
    <2>2. QED BY <1>4, <1>5, <1>7, <2>1 DEF ExecuteAgentChat, Goes, trace
<1>8. CASE Begin(s)
    <2>1. \A n : Allowed([req[s] EXCEPT !.pc = "think", !.iter = n], agreed)
        BY <1>1 DEF Allowed, Requests
    <2>2. QED BY <1>4, <1>8, <2>1 DEF Begin, trace
<1>9. CASE LlmFails(s)
    <2>1. Allowed([req[s] EXCEPT !.pc = "save", !.patches = <<>>], agreed)
        BY <1>1 DEF Allowed, Requests
    <2>2. QED BY <1>4, <1>9, <2>1 DEF LlmFails, trace
<1>10. ASSUME NEW p, NEW w, LlmAnswers(s, p, w) PROVE ConsentHeld'
    <2> DEFINE r == IF p = NoFile THEN req[s] ELSE Applied(req[s], p)
    <2>1. PICK Q : r \in Requests(Q)
        <3>1. CASE p = NoFile BY <1>1, <3>1
        <3>2. CASE p # NoFile
            <4> DEFINE ps == Append(req[s].patches, Patch(p))
            <4>1. Applied(req[s], p) = [req[s] EXCEPT !.patches = ps] BY DEF Applied
            <4> HIDE DEF ps
            <4>2. [req[s] EXCEPT !.patches = ps] \in Requests({ps}) BY <1>1 DEF Requests
            <4>3. QED BY <3>2, <4>1, <4>2
        <3>3. QED BY <3>1, <3>2
    <2>2. Allowed(r, agreed) BY <1>1 DEF Applied, Allowed, Requests
    <2>3. req' = [req EXCEPT ![s] = Planned(r, w)] BY <1>10 DEF LlmAnswers
    <2> HIDE DEF r
    <2>4. Allowed(Planned(r, w), agreed) BY <2>1, <2>2, PlannedAllowed
    <2>5. QED BY <1>4, <1>10, <2>3, <2>4 DEF LlmAnswers, trace
<1>11. ASSUME NEW c \in Commands, RunCommandInContainer(s, c) \/ RunApproved(s, c)
       PROVE  ConsentHeld'
    <2>1. /\ c \in req[s].todo /\ req[s].pc \in {"run", "exec commands"}
          /\ req' = [req EXCEPT ![s] = [req[s] EXCEPT !.todo = req[s].todo \ {c}]]
          /\ ran' = ran \cup {c} /\ perm' = perm
        BY <1>11 DEF RunCommandInContainer, RunApproved
    <2>2. Allowed([req[s] EXCEPT !.todo = req[s].todo \ {c}], agreed)
        BY <1>1 DEF Allowed, Requests
    <2>3. ran' \ Disguised \subseteq agreed
        BY <1>1, <2>1 DEF Allowed, ConsentHeld, ConsentIsGiven
    <2>4. QED BY <1>2, <1>3, <2>1, <2>2, <2>3, OneAllowed DEF ConsentHeld
<1>12. CASE Continue(s)
    <2>1. Allowed(Finished(req[s]), agreed) /\ Allowed(NextIteration(req[s]), agreed)
        BY <1>1, PlannedAllowed
    <2>2. QED BY <1>4, <1>5, <1>12, <2>1 DEF Continue, trace
<1>13. CASE HotReload(s) \/ LoopReturns(s)
    BY <1>4, <1>5, <1>13 DEF HotReload, LoopReturns, Goes, trace
<1>14. CASE SaveMessages(s)
    BY <1>4, <1>5, <1>6, <1>14 DEF SaveMessages, Replied, trace
<1>15. CASE UpdateAgentPermission(s)
    <2>1. CASE req[s].pc = "grant"
        <3>1. agreed = Commands BY <1>1, <2>1 DEF Allowed
        <3>2. Allowed([req[s] EXCEPT !.pc = "exec"], agreed) BY <1>1, <2>1 DEF Allowed, Requests
        <3>3. /\ req' = [req EXCEPT ![s] = [req[s] EXCEPT !.pc = "exec"]] /\ ran' = ran
            BY <1>15, <2>1 DEF UpdateAgentPermission, Goes, trace
        <3>4. QED BY <1>2, <1>3, <3>1, <3>2, <3>3, OneAllowed DEF ConsentHeld, ConsentIsGiven
    <2>2. CASE req[s].pc # "grant"
        <3>1. /\ req' = [req EXCEPT ![s] = [req[s] EXCEPT !.pc = "denied"]]
              /\ ran' = ran /\ perm' = "never"
            BY <1>15, <2>2 DEF UpdateAgentPermission, Goes, trace
        <3>2. QED BY <1>2, <1>3, <1>5, <3>1, OneAllowed DEF ConsentHeld, ConsentIsGiven
    <2>3. QED BY <2>1, <2>2
<1>16. CASE ExecutePendingCommands(s)
    <2>1. Allowed([req[s] EXCEPT !.pc = "refused", !.resume = TRUE], agreed)
        BY <1>1 DEF Allowed, Requests
    <2>2. Allowed([req[s] EXCEPT !.pc = "exec commands", !.resume = TRUE, !.perm = perm,
                                 !.deployed = (status = "deployed")], agreed)
        BY <1>1, <1>16 DEF Allowed, Requests, ConsentHeld, ExecutePendingCommands
    <2>3. QED BY <1>4, <1>16, <2>1, <2>2 DEF ExecutePendingCommands, trace
<1>17. CASE ResumeLoop(s) BY <1>4, <1>5, <1>17 DEF ResumeLoop, Goes, trace
<1>18. CASE ChatAnswer(s) \/ ExecAnswer(s) \/ DenyAnswer(s)
    BY <1>4, <1>6, <1>18 DEF ChatAnswer, ExecAnswer, DenyAnswer, trace
<1>19. QED BY <1>7, <1>8, <1>9, <1>10, <1>11, <1>12, <1>13, <1>14, <1>15, <1>16, <1>17, <1>18
           DEF Serve

LEMMA StepConsent == Typed /\ ConsentHeld /\ [Next]_vars => ConsentHeld'
<1> SUFFICES ASSUME NEW P, TypedFor(P), ConsentHeld, [Next]_vars PROVE ConsentHeld'
    BY DEF Typed
<1>1. ASSUME NEW f \in Files, Edit(f) PROVE ConsentHeld'
    BY <1>1 DEF Edit, ConsentHeld, ConsentIsGiven, trace
<1>2. CASE Deployment BY <1>2 DEF Deployment, ConsentHeld, ConsentIsGiven, trace
<1>3. CASE Expire BY <1>3 DEF Expire, ConsentHeld, ConsentIsGiven, trace
<1>4. CASE UNCHANGED vars BY <1>4 DEF vars, ConsentHeld, ConsentIsGiven, trace
<1>5. QED BY <1>1, <1>2, <1>3, <1>4, UserConsent, ServeConsent DEF Next

-----------------------------------------------------------------------------
(***************************************************************************)
(* No command is run twice by the loops.                                   *)
(***************************************************************************)
LEMMA InitOnce == Init => PlannedOnce
<1> SUFFICES ASSUME Init PROVE PlannedOnce OBVIOUS
<1>1. \A s \in Slots : req[s].pc = "idle" BY DEF Init, Idle
<1>2. \A c \in Commands : auto[c] = 0 BY DEF Init
<1>3. QED BY <1>1, <1>2 DEF PlannedOnce, Holds, NoCommandLoop

(***************************************************************************)
(* A step after which every loop holds what it held, or less.              *)
(***************************************************************************)
LEMMA NoneHeldAnew ==
    ASSUME PlannedOnce, UNCHANGED <<past, auto>>,
           \A t \in Slots, c \in Commands : Holds(t, c)' => Holds(t, c)
    PROVE  PlannedOnce'
<1> USE DEF PlannedOnce
<1>1. (\A c \in Commands : c \notin past => auto[c] = 0 /\ \A s \in Slots : ~Holds(s, c))' OBVIOUS
<1>2. (\A c \in Commands, s \in Slots :
          Holds(s, c) => auto[c] = 0 /\ \A t \in Slots : Holds(t, c) => t = s)' OBVIOUS
<1>3. NoCommandLoop' BY DEF NoCommandLoop
<1>4. QED BY <1>1, <1>2, <1>3

LEMMA OneNotHolding ==
    ASSUME NEW P, TypedFor(P), PlannedOnce, UNCHANGED <<past, auto>>,
           NEW s \in Slots, NEW r, req' = [req EXCEPT ![s] = r], r.pc # "run"
    PROVE  PlannedOnce'
<1>1. \A t \in Slots : req'[t] = IF t = s THEN r ELSE req[t] BY DEF TypedFor
<1>2. \A t \in Slots, c \in Commands : Holds(t, c)' => Holds(t, c) BY <1>1 DEF Holds
<1>3. QED BY <1>2, NoneHeldAnew

LEMMA LlmAnswersOnce ==
    ASSUME NEW P, TypedFor(P), PlannedOnce, NEW s \in Slots, NEW p, NEW w, LlmAnswers(s, p, w)
    PROVE  PlannedOnce'
<1> DEFINE r == IF p = NoFile THEN req[s] ELSE Applied(req[s], p)
<1>1. req' = [req EXCEPT ![s] = Planned(r, w)] BY DEF LlmAnswers
<1>2. DOMAIN r = DOMAIN Idle
    <2>1. DOMAIN req[s] = DOMAIN Idle BY DEF TypedFor, Requests, Idle
    <2>2. DOMAIN Applied(req[s], p) = DOMAIN req[s] BY DEF Applied
    <2>3. QED BY <2>1, <2>2
<1> HIDE DEF r
<1>3. \A c \in Commands :
          Planned(r, w).pc = "run" /\ c \in Planned(r, w).todo => c \in Fresh(w)
    <2> DEFINE cud  == Changes(w)
               todo == Unasked(w) \cup IF r.perm = "always" THEN cud ELSE {}
               ask  == IF r.perm = "ask" THEN cud ELSE {}
               b    == cud # {}
    <2>1. Finished(r).pc # "run" BY <1>2 DEF Finished, Idle
    <2>2. todo \subseteq Fresh(w) BY DEF Changes, Unasked
    <2>3. Planned(r, w) = IF Fresh(w) = {} THEN Finished(r)
                          ELSE [r EXCEPT !.pc = "run", !.cud = b, !.todo = todo, !.ask = ask]
        BY DEF Planned
    <2> HIDE DEF cud, todo, ask, b
    <2>4. [r EXCEPT !.pc = "run", !.cud = b, !.todo = todo, !.ask = ask].todo = todo
        BY <1>2 DEF Idle
    <2>5. QED BY <2>1, <2>2, <2>3, <2>4
<1>4. /\ past' = past \cup (Fresh(w) \cap Commands) /\ auto' = auto
    BY DEF LlmAnswers, trace
<1>5. \A c \in Commands : c \in Fresh(w) => c \notin past /\ c \in past' BY <1>4 DEF Fresh
<1>6. \A t \in Slots : req'[t] = IF t = s THEN Planned(r, w) ELSE req[t] BY <1>1 DEF TypedFor
<1>7. \A c \in Commands, t \in Slots : Holds(t, c)' => IF t = s THEN c \in Fresh(w) ELSE Holds(t, c)
    BY <1>3, <1>6 DEF Holds
<1>8. (\A c \in Commands : c \notin past => auto[c] = 0 /\ \A t \in Slots : ~Holds(t, c))'
    BY <1>4, <1>5, <1>7 DEF PlannedOnce
<1>9. (\A c \in Commands, t \in Slots :
          Holds(t, c) => auto[c] = 0 /\ \A u \in Slots : Holds(u, c) => u = t)'
    BY <1>4, <1>5, <1>7 DEF PlannedOnce
<1>10. NoCommandLoop' BY <1>4 DEF PlannedOnce, NoCommandLoop
<1>11. QED BY <1>8, <1>9, <1>10 DEF PlannedOnce

LEMMA RunOnce ==
    ASSUME NEW P, TypedFor(P), PlannedOnce, NEW s \in Slots, NEW c \in Commands,
           RunCommandInContainer(s, c)
    PROVE  PlannedOnce'
<1>1. /\ Holds(s, c) /\ past' = past
      /\ req' = [req EXCEPT ![s] = [req[s] EXCEPT !.todo = req[s].todo \ {c}]]
      /\ auto' = [auto EXCEPT ![c] = auto[c] + 1]
    BY DEF RunCommandInContainer, Holds, memory
<1>2. auto[c] = 0 /\ (\A t \in Slots : Holds(t, c) => t = s) /\ c \in past
    BY <1>1 DEF PlannedOnce
<1>3. auto'[c] = 1 /\ \A d \in Commands \ {c} : auto'[d] = auto[d]
    BY <1>1, <1>2 DEF TypedFor
<1>4. req'[s] = [req[s] EXCEPT !.todo = req[s].todo \ {c}]
      /\ \A t \in Slots \ {s} : req'[t] = req[t]
    BY <1>1 DEF TypedFor
<1>5. req'[s].pc = req[s].pc /\ req'[s].todo = req[s].todo \ {c}
    BY <1>4 DEF TypedFor, Requests
<1>6. \A t \in Slots, d \in Commands : Holds(t, d)' => Holds(t, d) /\ d # c
    BY <1>2, <1>4, <1>5 DEF Holds
<1>7. (\A d \in Commands : d \notin past => auto[d] = 0 /\ \A t \in Slots : ~Holds(t, d))'
    BY <1>1, <1>2, <1>3, <1>6 DEF PlannedOnce
<1>8. (\A d \in Commands, t \in Slots :
          Holds(t, d) => auto[d] = 0 /\ \A u \in Slots : Holds(u, d) => u = t)'
    BY <1>3, <1>6 DEF PlannedOnce
<1>9. NoCommandLoop' BY <1>3 DEF PlannedOnce, NoCommandLoop
<1>10. QED BY <1>7, <1>8, <1>9 DEF PlannedOnce

LEMMA ServeOnce ==
    ASSUME NEW P, TypedFor(P), PlannedOnce, NEW s \in Slots, Serve(s) PROVE PlannedOnce'
<1>1. req[s] \in Requests(P) /\ DOMAIN req[s] = DOMAIN Idle BY DEF TypedFor, Requests, Idle
<1>2. ASSUME NEW r, req' = [req EXCEPT ![s] = r], r.pc # "run", UNCHANGED <<past, auto>>
      PROVE  PlannedOnce'
    BY <1>2, OneNotHolding
<1>3. ASSUME NEW pc, pc # "run" PROVE [req[s] EXCEPT !.pc = pc].pc # "run"
    BY <1>1, <1>3 DEF Idle
<1>4. Idle.pc # "run" BY DEF Idle
<1>5. ASSUME NEW pc, pc # "run", Goes(s, pc), UNCHANGED <<past, auto>> PROVE PlannedOnce'
    <2> DEFINE r == [req[s] EXCEPT !.pc = pc]
    <2>1. r.pc # "run" BY <1>3, <1>5
    <2>2. req' = [req EXCEPT ![s] = r] BY <1>5 DEF Goes
    <2> HIDE DEF r
    <2>3. QED BY <1>2, <1>5, <2>1, <2>2
<1>6. CASE ExecuteAgentChat(s)
    <2>1. [req[s] EXCEPT !.pc = "begin", !.perm = perm, !.deployed = (status = "deployed")].pc # "run"
        BY <1>1 DEF Requests
    <2>2. QED BY <1>2, <1>5, <1>6, <2>1 DEF ExecuteAgentChat, trace
<1>7. CASE Begin(s)
    <2>1. \A n : [req[s] EXCEPT !.pc = "think", !.iter = n].pc # "run" BY <1>1 DEF Requests
    <2>2. QED BY <1>2, <1>7, <2>1 DEF Begin, trace
<1>8. CASE LlmFails(s)
    <2>1. [req[s] EXCEPT !.pc = "save", !.patches = <<>>].pc # "run" BY <1>1 DEF Requests
    <2>2. QED BY <1>2, <1>8, <2>1 DEF LlmFails, trace
<1>9. CASE Continue(s)
    <2>1. Finished(req[s]).pc # "run" BY <1>1 DEF Finished, Requests
    <2>2. NextIteration(req[s]).pc # "run" BY <1>1, <2>1 DEF NextIteration, Requests
    <2>3. QED BY <1>2, <1>3, <1>9, <2>1, <2>2 DEF Continue, trace
<1>10. CASE HotReload(s) \/ LoopReturns(s)
    BY <1>10, <1>5 DEF HotReload, LoopReturns, memory, trace
<1>11. CASE SaveMessages(s)
    BY <1>2, <1>3, <1>4, <1>11 DEF SaveMessages, Replied, memory, trace
<1>12. CASE UpdateAgentPermission(s)
    BY <1>12, <1>5 DEF UpdateAgentPermission, memory, trace
<1>13. CASE ExecutePendingCommands(s)
    <2>1. [req[s] EXCEPT !.pc = "refused", !.resume = TRUE].pc # "run" BY <1>1 DEF Requests
    <2>2. [req[s] EXCEPT !.pc = "exec commands", !.resume = TRUE, !.perm = perm,
                         !.deployed = (status = "deployed")].pc # "run"
        BY <1>1 DEF Requests
    <2>3. QED BY <1>2, <1>13, <2>1, <2>2 DEF ExecutePendingCommands, memory, trace
<1>14. ASSUME NEW c \in Commands, RunApproved(s, c) PROVE PlannedOnce'
    <2>1. req' = [req EXCEPT ![s] = [req[s] EXCEPT !.todo = req[s].todo \ {c}]]
        BY <1>14 DEF RunApproved
    <2>2. [req[s] EXCEPT !.todo = req[s].todo \ {c}].pc # "run"
        BY <1>1, <1>14 DEF Requests, RunApproved
    <2>3. QED BY <1>2, <1>14, <2>1, <2>2 DEF RunApproved, memory
<1>15. CASE ResumeLoop(s) BY <1>15, <1>5 DEF ResumeLoop, trace
<1>16. CASE ChatAnswer(s) \/ ExecAnswer(s) \/ DenyAnswer(s)
    BY <1>2, <1>4, <1>16 DEF ChatAnswer, ExecAnswer, DenyAnswer, memory, trace
<1>17. QED BY <1>6, <1>7, <1>8, <1>9, <1>10, <1>11, <1>12, <1>13, <1>14, <1>15, <1>16,
              LlmAnswersOnce, RunOnce DEF Serve

(***************************************************************************)
(* What the page and the world around do to the requests and the loops.    *)
(***************************************************************************)
Elsewhere == {"idle", "accept", "exec", "grant", "deny"}

Same(t) == req'[t].pc = req[t].pc /\ req'[t].todo = req[t].todo

LoopsUntouched ==
    /\ UNCHANGED <<past, auto, active>>
    /\ \A t \in Slots : Same(t) \/ {req[t].pc, req'[t].pc} \subseteq Elsewhere

LEMMA OneOutside ==
    ASSUME NEW P, TypedFor(P), NEW s \in Slots, NEW r, Request(s, r), r.pc \in Elsewhere,
           UNCHANGED <<past, auto, active>>
    PROVE  LoopsUntouched
<1>1. req[s].pc \in Elsewhere BY DEF Request, Free, Idle, Elsewhere
<1>2. req'[s] = r /\ \A t \in Slots \ {s} : Same(t) BY DEF Request, TypedFor, Same
<1>3. QED BY <1>1, <1>2 DEF LoopsUntouched

LEMMA OthersTouchNoLoop ==
    ASSUME NEW P, TypedFor(P), User \/ (\E f \in Files : Edit(f)) \/ Deployment \/ Expire
                               \/ UNCHANGED vars
    PROVE  LoopsUntouched
<1>1. ASSUME NEW s \in Slots, HandleSendChat(s) PROVE LoopsUntouched
    <2>1. req[s].pc \in Elsewhere BY <1>1 DEF HandleSendChat, Free, Idle, Elsewhere
    <2>2. [Idle EXCEPT !.pc = "accept"].pc \in Elsewhere BY DEF Idle, Elsewhere
    <2>3. \A t \in Slots : /\ [req[t] EXCEPT !.heard = FALSE].pc = req[t].pc
                           /\ [req[t] EXCEPT !.heard = FALSE].todo = req[t].todo
        BY DEF TypedFor, Requests
    <2>4. req'[s].pc \in Elsewhere /\ \A t \in Slots \ {s} : Same(t)
        BY <1>1, <2>2, <2>3 DEF HandleSendChat, Same
    <2>5. UNCHANGED <<past, auto, active>> BY <1>1 DEF HandleSendChat, memory, trace
    <2>6. QED BY <2>1, <2>4, <2>5 DEF LoopsUntouched
<1>2. ASSUME NEW s \in Slots,
             HandlePermissionAllow(s) \/ HandlePermissionAllowEverytime(s) \/ HandlePermissionNever(s)
      PROVE  LoopsUntouched
    <2>1. UNCHANGED <<past, auto, active>>
        BY <1>2 DEF HandlePermissionAllow, HandlePermissionAllowEverytime,
                    HandlePermissionNever, memory, trace
    <2>2. [Idle EXCEPT !.pc = "exec", !.todo = Asked].pc \in Elsewhere BY DEF Idle, Elsewhere
    <2>3. [Idle EXCEPT !.pc = "grant", !.todo = Asked].pc \in Elsewhere BY DEF Idle, Elsewhere
    <2>4. [Idle EXCEPT !.pc = "deny", !.at = Len(shown)].pc \in Elsewhere BY DEF Idle, Elsewhere
    <2>5. QED BY <1>2, <2>1, <2>2, <2>3, <2>4, OneOutside
              DEF HandlePermissionAllow, HandlePermissionAllowEverytime, HandlePermissionNever
<1>3. CASE HandleStopChat
    <2>1. UNCHANGED <<past, auto, active>> BY <1>3 DEF HandleStopChat, memory, trace
    <2>2. CASE controller = None
        BY <1>3, <2>1, <2>2 DEF HandleStopChat, LoopsUntouched, Same
    <2>3. CASE controller # None
        <3>1. req' = [req EXCEPT ![controller] = [req[controller] EXCEPT !.heard = FALSE]]
            BY <1>3, <2>3 DEF HandleStopChat
        <3>2. \A t \in Slots : Same(t) BY <3>1 DEF TypedFor, Requests, Same
        <3>3. QED BY <2>1, <3>2 DEF LoopsUntouched
    <2>4. QED BY <2>2, <2>3
<1>4. ASSUME UNCHANGED <<req, past, auto, active>> PROVE LoopsUntouched
    BY <1>4 DEF LoopsUntouched, Same
<1>5. ASSUME NEW i \in 1 .. Len(shown), (\E failed : HandleRollback(i, failed)) \/ HandleUndo(i) PROVE LoopsUntouched
    BY <1>4, <1>5 DEF HandleRollback, HandleUndo, memory, trace
<1>6. CASE (\E f \in Files : Edit(f)) \/ Deployment \/ Expire \/ UNCHANGED vars
    BY <1>4, <1>6 DEF Edit, Deployment, Expire, vars, memory, trace
<1>7. QED BY <1>1, <1>2, <1>3, <1>5, <1>6 DEF User

LEMMA StepOnce == Typed /\ PlannedOnce /\ [Next]_vars => PlannedOnce'
<1> SUFFICES ASSUME NEW P, TypedFor(P), PlannedOnce, [Next]_vars PROVE PlannedOnce'
    BY DEF Typed
<1>1. ASSUME NEW s \in Slots, Serve(s) PROVE PlannedOnce' BY <1>1, ServeOnce
<1>2. CASE ~ \E s \in Slots : Serve(s)
    <2>1. LoopsUntouched BY <1>2, OthersTouchNoLoop DEF Next
    <2>2. \A t \in Slots, c \in Commands : Holds(t, c)' => Holds(t, c)
        BY <2>1 DEF LoopsUntouched, Holds, Same, Elsewhere
    <2>3. QED BY <2>1, <2>2, NoneHeldAnew DEF LoopsUntouched
<1>3. QED BY <1>1, <1>2

-----------------------------------------------------------------------------
(***************************************************************************)
(* The count of the loops.                                                 *)
(***************************************************************************)
LEMMA InitCounted == Init => LoopsAreCounted
<1> SUFFICES ASSUME Init PROVE LoopsAreCounted OBVIOUS
<1>1. InLoop = {} BY DEF Init, Idle, InLoop, Inside
<1>2. QED BY <1>1, FS_EmptySet DEF Init, LoopsAreCounted, InLoop, Inside

LEMMA OneCounted ==
    ASSUME NEW P, TypedFor(P), LoopsAreCounted, NEW s \in Slots, NEW r,
           req' = [req EXCEPT ![s] = r],
           \/ (r.pc \in Inside <=> req[s].pc \in Inside) /\ active' = active
           \/ r.pc \in Inside /\ req[s].pc \notin Inside /\ Entered
           \/ r.pc \notin Inside /\ req[s].pc \in Inside /\ Returned
    PROVE  LoopsAreCounted'
<1>1. req'[s] = r /\ \A t \in Slots \ {s} : req'[t] = req[t] BY DEF TypedFor
<1>2. active = Cardinality(InLoop) BY DEF LoopsAreCounted, InLoop, Inside
<1>3. IsFiniteSet(InLoop) /\ Cardinality(InLoop) \in Nat
    BY SlotsAreFinite, FS_Subset, FS_CardinalityType DEF InLoop
<1>4. CASE (r.pc \in Inside <=> req[s].pc \in Inside) /\ active' = active
    <2>1. InLoop' = InLoop BY <1>1, <1>4 DEF InLoop
    <2>2. QED BY <1>2, <1>4, <2>1 DEF LoopsAreCounted, InLoop, Inside
<1>5. CASE r.pc \in Inside /\ req[s].pc \notin Inside /\ Entered
    <2>1. InLoop' = InLoop \cup {s} /\ s \notin InLoop BY <1>1, <1>5 DEF InLoop
    <2>2. Cardinality(InLoop \cup {s}) = Cardinality(InLoop) + 1 BY <1>3, <2>1, FS_AddElement
    <2>3. QED BY <1>2, <1>5, <2>1, <2>2 DEF Entered, LoopsAreCounted, InLoop, Inside
<1>6. CASE r.pc \notin Inside /\ req[s].pc \in Inside /\ Returned
    <2>1. InLoop' = InLoop \ {s} /\ s \in InLoop BY <1>1, <1>6 DEF InLoop
    <2>2. Cardinality(InLoop \ {s}) = Cardinality(InLoop) - 1 BY <1>3, <2>1, FS_RemoveElement
    <2>3. Cardinality(InLoop) > 0 BY <1>3, <2>1, FS_EmptySet
    <2>4. active' = active - 1 BY <1>2, <1>6, <2>3 DEF Returned
    <2>5. QED BY <1>2, <2>1, <2>2, <2>4 DEF LoopsAreCounted, InLoop, Inside
<1>7. QED BY <1>4, <1>5, <1>6

LEMMA ServeCounted ==
    ASSUME NEW P, TypedFor(P), LoopsAreCounted, NEW s \in Slots, Serve(s)
    PROVE  LoopsAreCounted'
<1>1. req[s] \in Requests(P) /\ DOMAIN req[s] = DOMAIN Idle BY DEF TypedFor, Requests, Idle
<1>2. ASSUME NEW r, req' = [req EXCEPT ![s] = r],
             \/ (r.pc \in Inside <=> req[s].pc \in Inside) /\ active' = active
             \/ r.pc \in Inside /\ req[s].pc \notin Inside /\ Entered
             \/ r.pc \notin Inside /\ req[s].pc \in Inside /\ Returned
      PROVE  LoopsAreCounted'
    BY <1>2, OneCounted
<1>3. ASSUME NEW pc, Goes(s, pc),
             \/ (pc \in Inside <=> req[s].pc \in Inside) /\ active' = active
             \/ pc \in Inside /\ req[s].pc \notin Inside /\ Entered
             \/ pc \notin Inside /\ req[s].pc \in Inside /\ Returned
      PROVE  LoopsAreCounted'
    <2> DEFINE r == [req[s] EXCEPT !.pc = pc]
    <2>1. r.pc = pc BY <1>1 DEF Idle
    <2>2. req' = [req EXCEPT ![s] = r] BY <1>3 DEF Goes
    <2> HIDE DEF r
    <2>3. QED BY <1>2, <1>3, <2>1, <2>2
<1>4. Idle.pc \notin Inside BY DEF Idle, Inside
<1>5. Finished(req[s]).pc \in Inside /\ NextIteration(req[s]).pc \in Inside
    <2>1. Finished(req[s]).pc \in Inside BY <1>1 DEF Finished, Idle, Inside
    <2>2. QED BY <1>1, <2>1 DEF NextIteration, Idle, Inside
<1>6. CASE ExecuteAgentChat(s)
    <2>1. CASE status = "building"
        BY <1>3, <1>6, <2>1 DEF ExecuteAgentChat, Inside
    <2>2. CASE status # "building"
        <3> DEFINE r == [req[s] EXCEPT !.pc = "begin", !.perm = perm,
                                       !.deployed = (status = "deployed")]
        <3>1. r.pc = "begin" BY <1>1 DEF Idle
        <3>2. req' = [req EXCEPT ![s] = r] /\ Entered /\ req[s].pc = "accept"
            BY <1>6, <2>2 DEF ExecuteAgentChat
        <3> HIDE DEF r
        <3>3. QED BY <1>2, <3>1, <3>2 DEF Inside
    <2>3. QED BY <2>1, <2>2
<1>7. CASE Begin(s)
    <2> DEFINE n == IF req[s].resume /\ state > 0 THEN state ELSE 1
               r == [req[s] EXCEPT !.pc = "think", !.iter = n]
    <2>1. r.pc = "think" BY <1>1 DEF Idle
    <2>2. req' = [req EXCEPT ![s] = r] /\ active' = active /\ req[s].pc = "begin"
        BY <1>7 DEF Begin
    <2> HIDE DEF r
    <2>3. QED BY <1>2, <2>1, <2>2 DEF Inside
<1>8. CASE LlmFails(s)
    <2> DEFINE r == [req[s] EXCEPT !.pc = "save", !.patches = <<>>]
    <2>1. r.pc = "save" BY <1>1 DEF Idle
    <2>2. req' = [req EXCEPT ![s] = r] /\ Returned /\ req[s].pc = "think" BY <1>8 DEF LlmFails
    <2> HIDE DEF r
    <2>3. QED BY <1>2, <2>1, <2>2 DEF Inside
<1>9. ASSUME NEW p, NEW w, LlmAnswers(s, p, w) PROVE LoopsAreCounted'
    <2> DEFINE r == IF p = NoFile THEN req[s] ELSE Applied(req[s], p)
    <2>1. DOMAIN r = DOMAIN Idle
        <3>1. DOMAIN Applied(req[s], p) = DOMAIN req[s] BY DEF Applied
        <3>2. QED BY <1>1, <3>1
    <2>2. req' = [req EXCEPT ![s] = Planned(r, w)] /\ active' = active /\ req[s].pc = "think"
        BY <1>9 DEF LlmAnswers
    <2> HIDE DEF r
    <2>3. Planned(r, w).pc \in Inside
        <3>1. Finished(r).pc \in Inside BY <2>1 DEF Finished, Idle, Inside
        <3>2. \A b, todo, ask :
                  [r EXCEPT !.pc = "run", !.cud = b, !.todo = todo, !.ask = ask].pc = "run"
            BY <2>1 DEF Idle
        <3>3. QED BY <3>1, <3>2 DEF Planned, Inside
    <2>4. QED BY <1>2, <2>2, <2>3 DEF Inside
<1>10. ASSUME NEW c \in Commands, RunCommandInContainer(s, c) \/ RunApproved(s, c)
       PROVE  LoopsAreCounted'
    <2> DEFINE r == [req[s] EXCEPT !.todo = req[s].todo \ {c}]
    <2>1. r.pc = req[s].pc BY <1>1 DEF Idle
    <2>2. req' = [req EXCEPT ![s] = r] /\ active' = active
        BY <1>10 DEF RunCommandInContainer, RunApproved, memory
    <2> HIDE DEF r
    <2>3. QED BY <1>2, <2>1, <2>2
<1>11. CASE Continue(s)
    <2>1. CASE req[s].ask # {}
        <3>1. Goes(s, "save") /\ Returned /\ req[s].pc = "run"
            BY <1>11, <2>1 DEF Continue, Goes
        <3>2. QED BY <1>3, <3>1 DEF Inside
    <2>2. CASE req[s].ask = {}
        <3> DEFINE r == IF req[s].patches # <<>> /\ ~req[s].cud
                        THEN Finished(req[s]) ELSE NextIteration(req[s])
        <3>1. r.pc \in Inside BY <1>5
        <3>2. req' = [req EXCEPT ![s] = r] /\ active' = active /\ req[s].pc = "run"
            BY <1>11, <2>2 DEF Continue
        <3> HIDE DEF r
        <3>3. QED BY <1>2, <3>1, <3>2 DEF Inside
    <2>3. QED BY <2>1, <2>2
<1>12. CASE HotReload(s) BY <1>3, <1>12 DEF HotReload, memory, Inside
<1>13. CASE LoopReturns(s) BY <1>3, <1>13 DEF LoopReturns, Inside
<1>14. CASE SaveMessages(s)
    <2>1. req[s].pc = "save" /\ req' = [req EXCEPT ![s] = Replied(req[s])] /\ active' = active
        BY <1>14 DEF SaveMessages, memory
    <2>2. [req[s] EXCEPT !.pc = "reply"].pc = "reply" BY <1>1 DEF Idle
    <2>3. Replied(req[s]).pc \notin Inside BY <1>4, <2>2 DEF Replied, Inside
    <2>4. QED BY <1>2, <2>1, <2>3 DEF Inside
<1>15. CASE UpdateAgentPermission(s)
    <2>1. active' = active /\ req[s].pc \in {"grant", "deny"}
          /\ (Goes(s, "exec") \/ Goes(s, "denied"))
        BY <1>15 DEF UpdateAgentPermission, memory
    <2>2. QED BY <1>3, <2>1 DEF Inside
<1>16. CASE ExecutePendingCommands(s)
    <2> DEFINE r == IF ~up THEN [req[s] EXCEPT !.pc = "refused", !.resume = TRUE]
                    ELSE [req[s] EXCEPT !.pc = "exec commands", !.resume = TRUE, !.perm = perm,
                                        !.deployed = (status = "deployed")]
    <2>1. r.pc \in {"refused", "exec commands"} BY <1>1 DEF Idle
    <2>2. req' = [req EXCEPT ![s] = r] /\ active' = active /\ req[s].pc = "exec"
        BY <1>16 DEF ExecutePendingCommands, memory
    <2> HIDE DEF r
    <2>3. QED BY <1>2, <2>1, <2>2 DEF Inside
<1>17. CASE ResumeLoop(s)
    <2>1. CASE state > 0 BY <1>3, <1>17, <2>1 DEF ResumeLoop, Inside
    <2>2. CASE ~(state > 0) BY <1>3, <1>17, <2>2 DEF ResumeLoop, Inside
    <2>3. QED BY <2>1, <2>2
<1>18. CASE ChatAnswer(s) \/ ExecAnswer(s) \/ DenyAnswer(s)
    <2>1. req' = [req EXCEPT ![s] = Idle] /\ active' = active
          /\ req[s].pc \in {"reply", "refused", "denied"}
        BY <1>18 DEF ChatAnswer, ExecAnswer, DenyAnswer, memory
    <2>2. QED BY <1>2, <1>4, <2>1 DEF Inside
<1>19. QED BY <1>6, <1>7, <1>8, <1>9, <1>10, <1>11, <1>12, <1>13, <1>14, <1>15, <1>16, <1>17, <1>18
           DEF Serve

LEMMA StepCounted == Typed /\ LoopsAreCounted /\ [Next]_vars => LoopsAreCounted'
<1> SUFFICES ASSUME NEW P, TypedFor(P), LoopsAreCounted, [Next]_vars PROVE LoopsAreCounted'
    BY DEF Typed
<1>1. ASSUME NEW s \in Slots, Serve(s) PROVE LoopsAreCounted' BY <1>1, ServeCounted
<1>2. CASE ~ \E s \in Slots : Serve(s)
    <2>1. LoopsUntouched BY <1>2, OthersTouchNoLoop DEF Next
    <2>2. active' = active /\ InLoop' = InLoop
        BY <2>1 DEF LoopsUntouched, InLoop, Inside, Elsewhere, Same
    <2>3. QED BY <2>2 DEF LoopsAreCounted, InLoop, Inside
<1>3. QED BY <1>1, <1>2

-----------------------------------------------------------------------------
(***************************************************************************)
(* The theorems.                                                           *)
(***************************************************************************)
IInv == Typed /\ ConsentHeld /\ PlannedOnce /\ LoopsAreCounted

\* The four parts hold together, from the first state on.
THEOREM Inductive == Spec => []IInv
<1>1. Init => IInv BY InitTyped, InitConsent, InitOnce, InitCounted DEF IInv
<1>2. IInv /\ [Next]_vars => IInv'
    BY StepTyped, StepConsent, StepOnce, StepCounted DEF IInv
<1>3. QED BY <1>1, <1>2, PTL DEF Spec

\* A command that the classifier takes for a change is run only when the user has allowed
\* it: by the click on its card, or by the permission 'always', which a loop reads when it
\* begins and the user may have taken back since.  Nothing is said of those it does not
\* recognise, whichever these are.
THEOREM RunsAreAllowed == Spec => []ConsentIsGiven
<1>1. IInv => ConsentIsGiven BY DEF IInv, ConsentHeld
<1>2. QED BY <1>1, Inductive, PTL

\* However many loops of a chat run together, resumed or not, and whatever the model
\* repeats, they run a command at most once.
THEOREM NothingRunsTwice == Spec => []NoCommandLoop
<1>1. IInv => NoCommandLoop BY DEF IInv, PlannedOnce
<1>2. QED BY <1>1, Inductive, PTL

(***************************************************************************)
(* A rollback takes, of the patches of a file, the one of the greatest     *)
(* place.  Of a single patch, that is its own.                             *)
(***************************************************************************)
LEMMA OnlyOne == ASSUME NEW j \in Nat PROVE Max({j}) = j
    BY DEF Max

LEMMA StepUndoes == Typed /\ [Next]_vars => [RollbacksUndo]_vars
<1> SUFFICES ASSUME NEW P, P = Seq(Recorded), TypedFor(P), NEW i \in DOMAIN shown,
                    NEW failed \in SUBSET DOMAIN shown[i].patches,
                    HandleRollback(i, failed), NEW f \in Files,
                    NEW j \in DOMAIN shown[i].patches, Of(f, shown[i].patches) = {j},
                    disk[f] = shown[i].patches[j].new
             PROVE  disk'[f] = IF f \in Outside \/ j \in failed THEN disk[f] ELSE was[disk[f]]
    BY DEF Typed, RollbacksUndo, UndoesItsPatch
<1> DEFINE ps     == shown[i].patches
           undone == Of(f, ps) \ failed
<1>1. ps \in Seq(Recorded)
    <2>1. shown \in Seq(Messages(P)) /\ i \in 1 .. Len(shown) BY LenProperties DEF TypedFor
    <2>2. shown[i] \in Messages(P) BY <2>1, ElementOfSeq
    <2>3. QED BY <2>2 DEF Messages
<1>2. j \in 1 .. Len(ps) BY <1>1, LenProperties
<1>3. j \in Nat BY <1>2
<1>4. ps[j] \in Recorded BY <1>1, <1>2, ElementOfSeq
<1>5. ps[j].prev = was[ps[j].new]
    <2>1. PICK g \in Files, n \in 1 .. Len(was) : ps[j] = [file |-> g, prev |-> was[n], new |-> n]
        BY <1>4 DEF Recorded
    <2>2. QED BY <2>1
<1>6. disk' = Restored(disk, ps, failed) BY DEF HandleRollback, Rewritten
<1>7. disk'[f] = IF f \in Outside \/ undone = {} THEN disk[f] ELSE ps[Max(undone)].prev
    BY <1>6 DEF Restored
<1>8. CASE j \in failed
    <2>1. undone = {} BY <1>8
    <2>2. QED BY <1>7, <1>8, <2>1
<1>9. CASE j \notin failed
    <2>1. undone = {j} BY <1>9
    <2>2. undone # {} /\ Max(undone) = j BY <1>3, <2>1, OnlyOne
    <2>3. QED BY <1>5, <1>7, <1>9, <2>2
<1>10. QED BY <1>8, <1>9

\* A rollback gives a file that its message patched once, and that still holds what the
\* message wrote, the content this write replaced, in whatever order other writes,
\* rollbacks and undos have come in between: the page keeps of every patch what was recorded.
\* A file that is refused, or whose write fails, is left as it is.
THEOREM RollbacksGiveBack == Spec => SinglePatchIsUndone
<1>1. IInv /\ [Next]_vars => [RollbacksUndo]_vars BY StepUndoes DEF IInv
<1>2. QED BY <1>1, Inductive, PTL DEF Spec, SinglePatchIsUndone

\* activeAgentLoops is the number of loops in progress: the test at its decrement never
\* hides a missing increment.
THEOREM CountIsExact == Spec => []LoopsAreCounted
<1>1. IInv => LoopsAreCounted BY DEF IInv
<1>2. QED BY <1>1, Inductive, PTL
=============================================================================
