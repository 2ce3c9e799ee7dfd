---------------------------- MODULE DetectionBus ----------------------------
(***************************************************************************)
(* The detection bus (Security/detect/detection.go) and the locks its      *)
(* callbacks take.  EmitDetection calls every subscriber under the read    *)
(* side of the bus's RWMutex.  Two subscribers take a lock of their own    *)
(* that is also held around an emission: the behavioural engine            *)
(* (detect/behavioral.go) and the DNS drain loop (main.go).                *)
(*                                                                         *)
(* A thread is a stack of the calls it is in, the innermost first.  Who    *)
(* holds which lock follows from the stacks.  Subscribers that take a lock *)
(* of their own and release it before they return (logger, statistics,     *)
(* streamers, calibrator) are one subscriber, "log".                       *)
(***************************************************************************)
EXTENDS Naturals, Sequences

CONSTANTS
    Handlers,    \* goroutines that analyze traffic
    Incidents,   \* goroutines the graph engine may start (a bound)
    Sources,     \* source addresses
    Modes,       \* the modes looked at: TRUE for proxy-only, which starts the DNS drain loop
    Traffic,     \* Traffic[m][h]: what handler h meets in mode m, kinds of detection
                 \* that the analyzers report and "chunk" for a client chunk (a bound)
    Scored,      \* the kinds of alert the ML service may answer
    MaxQueue,    \* capacity of DNSFeatureChan
    MaxBatch     \* vectors per batch

ASSUME ConstantsOK ==
    /\ Modes \subseteq BOOLEAN
    /\ Traffic \in [Modes -> [Handlers ->
          SUBSET {"alert", "teardown", "dnsresp", "nxflood", "axfr", "chunk"}]]
    /\ Scored \subseteq {"dga", "tunnel"}
    /\ MaxQueue \in Nat
    /\ MaxBatch \in Nat \ {0}
    /\ "honeypot" \notin Handlers \cup Incidents
    /\ "drain" \notin Handlers \cup Incidents
    /\ Handlers \cap Incidents = {}

Threads == Handlers \cup Incidents \cup {"honeypot", "drain"}

\* The rule alert that suppresses an ML alert of the same source.
Rule == [dga |-> "nxflood", tunnel |-> "axfr"]

Kinds == {"alert", "teardown", "distbrute", "dnsresp", "incident", "nxflood",
          "axfr", "dga", "tunnel"}
Addresses == Sources \cup {"Multiple"}     \* what SourceIP may say
Detections == [kind : Kinds, src : Addresses]

VARIABLES
    subs,        \* the bus's subscribers
    pending,     \* the goroutine that waits in Subscribe for the write lock
    main,        \* where the goroutine that builds the engine is
    stack,       \* stack[t]: the calls thread t is in
    queue,       \* DNSFeatureChan: the sources of the vectors in it
    drain,       \* where the drain loop is, outside its emissions; off in the integrated mode
    batch,       \* the vectors it has taken
    scores,      \* scores[i]: what the ML service said of the batch, from the vector at hand on
    suppressed   \* the rule alerts fired within the last five seconds

vars == <<subs, pending, main, stack, queue, drain, batch, scores, suppressed>>

Frame(op, d, at) == [op |-> op, det |-> d, at |-> at]
Ops == {"rlock", "each", "behave", "behaving", "settled", "dns", "track", "tracking"}
Subscribers == {"log", "graph", "behaviour", "dns"}

TypeOK ==
    /\ subs \in Seq(Subscribers)
    /\ pending \in {"nobody", "main", "drain"}
    /\ main \in {"setup", "started"}
    /\ stack \in [Threads -> Seq([op : Ops, det : Detections, at : Nat \ {0}])]
    /\ queue \in Seq(Addresses)
    /\ drain \in {"off", "subscribe", "loop", "scored", "locked"}
    /\ batch \in Seq(Addresses)
    /\ scores \in Seq(Scored \cup {"none"})
    /\ suppressed \subseteq {"nxflood", "axfr"} \X Addresses

Init ==
    /\ subs = <<"log", "graph">>
    /\ pending = "nobody"
    /\ main = "setup"
    /\ stack = [t \in Threads |-> <<>>]
    /\ queue = <<>>
    /\ drain \in {IF m THEN "subscribe" ELSE "off" : m \in Modes}
    /\ batch = <<>>
    /\ scores = <<>>
    /\ suppressed = {}

-----------------------------------------------------------------------------
(* Who is where, and who holds what.                                       *)

At(t, op) == stack[t] # <<>> /\ Head(stack[t]).op = op
Top(t) == Head(stack[t])
In(t, ops) == \E i \in DOMAIN stack[t] : stack[t][i].op \in ops

Readers == {t \in Threads : In(t, {"each"})}

\* The behavioural engine's mutex.
BehaviourHolders == {t \in Threads : In(t, {"behaving", "settled", "tracking"})}

\* The drain loop's mutex: the loop itself holds it while it walks the batch.
DrainHolds == drain = "locked"

Push(t, f) == stack' = [stack EXCEPT ![t] = <<f>> \o @]
Replace(t, f) == stack' = [stack EXCEPT ![t] = <<f>> \o Tail(@)]
Pop(t) == stack' = [stack EXCEPT ![t] = Tail(@)]
Calling(f, d) == <<Frame("rlock", d, 1), f>>

-----------------------------------------------------------------------------
(* EmitDetection.                                                          *)

\* A waiting writer keeps new readers out, those that hold the lock included.
RLock(t) ==
    /\ At(t, "rlock")
    /\ pending = "nobody"
    /\ Replace(t, Frame("each", Top(t).det, 1))
    /\ UNCHANGED <<subs, pending, main, queue, drain, batch, scores, suppressed>>

\* The subscriber whose turn it is, and the frame with its successor's turn.
Turn(t, s) == At(t, "each") /\ Top(t).at <= Len(subs) /\ subs[Top(t).at] = s
Returned(t) == [Top(t) EXCEPT !.at = @ + 1]

DeliverToLog(t) ==
    /\ Turn(t, "log")
    /\ Replace(t, Returned(t))
    /\ UNCHANGED <<subs, pending, main, queue, drain, batch, scores, suppressed>>

\* GraphEngine.OnDetection: an incident is emitted by a goroutine of its own.
\* Informational detections and incidents themselves are ignored.
DeliverToGraph(t) ==
    /\ Turn(t, "graph")
    /\ \/ Replace(t, Returned(t))
       \/ \E g \in Incidents :
            /\ stack[g] = <<>>
            /\ Top(t).det.kind \notin {"teardown", "dnsresp", "incident"}
            /\ stack' = [stack EXCEPT
                   ![t] = <<Returned(t)>> \o Tail(@),
                   ![g] = <<Frame("rlock", [kind |-> "incident", src |-> Top(t).det.src], 1)>>]
    /\ UNCHANGED <<subs, pending, main, queue, drain, batch, scores, suppressed>>

\* Mutant: the engine also counts the brute force it reports under its lock.
EntersEngineAgain(d) == d.kind \in {"teardown", "distbrute"}

\* The detections for which BehavioralEngine.OnDetection takes the engine's lock.
EntersEngine(d) == d.kind = "teardown"

\* Mutant: the vector is sent without a default case, so a full channel blocks.
DeliverBlocking(t) ==
    /\ Turn(t, "behaviour")
    /\ \/ /\ EntersEngine(Top(t).det)
          /\ stack' = [stack EXCEPT
                 ![t] = <<Frame("behave", Top(t).det, 1), Returned(t)>> \o Tail(@)]
          /\ UNCHANGED queue
       \/ /\ Top(t).det.kind = "dnsresp"
          /\ Len(queue) < MaxQueue
          /\ Replace(t, Returned(t))
          /\ queue' = Append(queue, Top(t).det.src)
       \/ /\ ~EntersEngine(Top(t).det) /\ Top(t).det.kind # "dnsresp"
          /\ Replace(t, Returned(t))
          /\ UNCHANGED queue
    /\ UNCHANGED <<subs, pending, main, drain, batch, scores, suppressed>>

\* BehavioralEngine.OnDetection: a teardown enters TrackSSHFailAtDst, a DNS
\* response leaves a vector in the channel unless it is full.
DeliverToBehaviour(t) ==
    /\ Turn(t, "behaviour")
    /\ \/ /\ EntersEngine(Top(t).det)
          /\ stack' = [stack EXCEPT
                 ![t] = <<Frame("behave", Top(t).det, 1), Returned(t)>> \o Tail(@)]
          /\ UNCHANGED queue
       \/ /\ ~EntersEngine(Top(t).det)
          /\ Replace(t, Returned(t))
          /\ queue' = IF Top(t).det.kind = "dnsresp" /\ Len(queue) < MaxQueue
                      THEN Append(queue, Top(t).det.src) ELSE queue
    /\ UNCHANGED <<subs, pending, main, drain, batch, scores, suppressed>>

DeliverToDns(t) ==
    /\ Turn(t, "dns")
    /\ stack' = [stack EXCEPT
           ![t] = <<Frame("dns", Top(t).det, 1), Returned(t)>> \o Tail(@)]
    /\ UNCHANGED <<subs, pending, main, queue, drain, batch, scores, suppressed>>

RUnlock(t) ==
    /\ At(t, "each")
    /\ Top(t).at > Len(subs)
    /\ Pop(t)
    /\ UNCHANGED <<subs, pending, main, queue, drain, batch, scores, suppressed>>

-----------------------------------------------------------------------------
(* The subscribers that lock.                                              *)

\* TrackSSHFailAtDst: b.mu.Lock and the counting; whether more than fifteen failures
\* of more than three sources are reached is left open.
BehaveLock(t) ==
    /\ At(t, "behave")
    /\ BehaviourHolders = {}
    /\ Replace(t, Frame("behaving", Top(t).det, 1))
    /\ UNCHANGED <<subs, pending, main, queue, drain, batch, scores, suppressed>>

\* The emission inside TrackSSHFailAtDst, or its deferred b.mu.Unlock.
Behave(t) ==
    /\ At(t, "behaving")
    /\ \/ Pop(t)
       \/ stack' = [stack EXCEPT ![t] =
             Calling(Frame("settled", Top(t).det, 1),
                     [kind |-> "distbrute", src |-> "Multiple"]) \o Tail(@)]
    /\ UNCHANGED <<subs, pending, main, queue, drain, batch, scores, suppressed>>

BehaveUnlock(t) ==
    /\ At(t, "settled")
    /\ Pop(t)
    /\ UNCHANGED <<subs, pending, main, queue, drain, batch, scores, suppressed>>

\* dnsRuleSubscriber.OnDetection.
DnsRecord(t) ==
    /\ At(t, "dns")
    /\ ~DrainHolds
    /\ suppressed' = IF Top(t).det.kind \in {"nxflood", "axfr"}
                     THEN suppressed \cup {<<Top(t).det.kind, Top(t).det.src>>}
                     ELSE suppressed
    /\ Pop(t)
    /\ UNCHANGED <<subs, pending, main, queue, drain, batch, scores>>

\* Five seconds have passed since the rule alert.
Forget ==
    /\ \E r \in suppressed : suppressed' = suppressed \ {r}
    /\ UNCHANGED <<subs, pending, main, stack, queue, drain, batch, scores>>

-----------------------------------------------------------------------------
(* The goroutines that emit.                                               *)

\* What handler h meets in the mode the process runs in.
Meets(h) == UNION {Traffic[m][h] : m \in {n \in Modes : n <=> drain # "off"}}

\* What an analyzer reports of a chunk, or of the end of a connection.
Emit(t, k, s) ==
    /\ stack[t] = <<>>
    /\ Push(t, Frame("rlock", [kind |-> k, src |-> s], 1))
    /\ UNCHANGED <<subs, pending, main, queue, drain, batch, scores, suppressed>>

HandlerEmits(h) ==
    /\ main = "started"
    /\ \E k \in Meets(h) \ {"chunk"}, s \in Sources : Emit(h, k, s)

\* The honeypots listen before the engine is built.
HoneypotEmits == \E s \in Sources : Emit("honeypot", "alert", s)

\* TrackConnection, which every client chunk enters.
Track(h) ==
    /\ main = "started"
    /\ "chunk" \in Meets(h)
    /\ stack[h] = <<>>
    /\ \E s \in Sources : Push(h, Frame("track", [kind |-> "alert", src |-> s], 1))
    /\ UNCHANGED <<subs, pending, main, queue, drain, batch, scores, suppressed>>

TrackLock(h) ==
    /\ At(h, "track")
    /\ BehaviourHolders = {}
    /\ Replace(h, Frame("tracking", Top(h).det, 1))
    /\ UNCHANGED <<subs, pending, main, queue, drain, batch, scores, suppressed>>

\* Its three checks in turn (rate, scan, beaconing), each of which may emit.
TrackCheck(h) ==
    /\ At(h, "tracking")
    /\ Top(h).at <= 3
    /\ \/ Replace(h, Returned(h))
       \/ stack' = [stack EXCEPT ![h] = Calling(Returned(h), Top(h).det) \o Tail(@)]
    /\ UNCHANGED <<subs, pending, main, queue, drain, batch, scores, suppressed>>

TrackUnlock(h) ==
    /\ At(h, "tracking")
    /\ Top(h).at > 3
    /\ Pop(h)
    /\ UNCHANGED <<subs, pending, main, queue, drain, batch, scores, suppressed>>

-----------------------------------------------------------------------------
(* Subscribe, by the goroutine that builds the engine and by the drain     *)
(* loop: the writer first announces itself, then waits for the readers.    *)

MainLock ==
    /\ main = "setup"
    /\ pending = "nobody"
    /\ pending' = "main"
    /\ UNCHANGED <<subs, main, stack, queue, drain, batch, scores, suppressed>>

\* NewBehavioralEngine's Subscribe; then the listeners start.
MainSubscribe ==
    /\ pending = "main"
    /\ Readers = {}
    /\ subs' = Append(subs, "behaviour")
    /\ pending' = "nobody"
    /\ main' = "started"
    /\ UNCHANGED <<stack, queue, drain, batch, scores, suppressed>>

DrainLock ==
    /\ drain = "subscribe"
    /\ pending = "nobody"
    /\ pending' = "drain"
    /\ UNCHANGED <<subs, main, stack, queue, drain, batch, scores, suppressed>>

DrainSubscribe ==
    /\ pending = "drain"
    /\ Readers = {}
    /\ subs' = Append(subs, "dns")
    /\ pending' = "nobody"
    /\ drain' = "loop"
    /\ UNCHANGED <<main, stack, queue, batch, scores, suppressed>>

-----------------------------------------------------------------------------
(* The drain loop.                                                         *)

DrainReceive ==
    /\ drain = "loop"
    /\ queue # <<>>
    /\ Len(batch) < MaxBatch
    /\ batch' = Append(batch, Head(queue))
    /\ queue' = Tail(queue)
    /\ UNCHANGED <<subs, pending, main, stack, drain, scores, suppressed>>

\* flush: the batch is full or the ticker fired, and ScoreDNSBatch answers; it
\* answers nothing but "none" while its circuit breaker is open.
DrainScore ==
    /\ drain = "loop"
    /\ batch # <<>>
    /\ scores' \in [DOMAIN batch -> Scored \cup {"none"}]
    /\ drain' = "scored"
    /\ UNCHANGED <<subs, pending, main, stack, queue, batch, suppressed>>

\* ScoreDNSBatch returned an error: the batch is dropped.
DrainError ==
    /\ drain = "loop"
    /\ batch # <<>>
    /\ batch' = <<>>
    /\ UNCHANGED <<subs, pending, main, stack, queue, drain, scores, suppressed>>

\* mu.Lock: a subscriber's OnDetection holds it only within DnsRecord.
DrainMutex ==
    /\ drain = "scored"
    /\ drain' = "locked"
    /\ UNCHANGED <<subs, pending, main, stack, queue, batch, scores, suppressed>>

Silenced(k, s) == <<Rule[k], s>> \in suppressed

\* The vector at hand: its alert is emitted, with mu held, unless the rule
\* already reported the source.
DrainVector ==
    /\ drain = "locked"
    /\ stack["drain"] = <<>>
    /\ scores # <<>>
    /\ LET k == Head(scores)
           s == Head(batch)
       IN IF k # "none" /\ ~Silenced(k, s)
          THEN Push("drain", Frame("rlock", [kind |-> k, src |-> s], 1))
          ELSE UNCHANGED stack
    /\ scores' = Tail(scores)
    /\ batch' = Tail(batch)
    /\ UNCHANGED <<subs, pending, main, queue, drain, suppressed>>

DrainUnlock ==
    /\ drain = "locked"
    /\ stack["drain"] = <<>>
    /\ scores = <<>>
    /\ drain' = "loop"
    /\ UNCHANGED <<subs, pending, main, stack, queue, batch, scores, suppressed>>

-----------------------------------------------------------------------------
Inside(t) ==
    \/ RLock(t)
    \/ DeliverToLog(t)
    \/ DeliverToGraph(t)
    \/ DeliverToBehaviour(t)
    \/ DeliverToDns(t)
    \/ RUnlock(t)
    \/ BehaveLock(t)
    \/ Behave(t)
    \/ BehaveUnlock(t)
    \/ DnsRecord(t)
    \/ TrackLock(t)
    \/ TrackCheck(t)
    \/ TrackUnlock(t)

Subscribing == MainLock \/ MainSubscribe \/ DrainLock \/ DrainSubscribe

Drain ==
    \/ DrainReceive
    \/ DrainScore
    \/ DrainError
    \/ DrainMutex
    \/ DrainVector
    \/ DrainUnlock

Next ==
    \/ \E t \in Threads : Inside(t)
    \/ \E h \in Handlers : HandlerEmits(h) \/ Track(h)
    \/ HoneypotEmits
    \/ Subscribing
    \/ Drain
    \/ Forget

\* Every goroutine is scheduled.  sync.Mutex hands the engine's lock to whoever
\* waits long enough, so a handler that can take it again and again takes it.  A
\* waiting writer keeps new readers out of the bus, so weak fairness is enough
\* there.  Traffic owes nothing.
Fairness ==
    /\ \A t \in Threads : WF_vars(Inside(t))
    /\ \A h \in Handlers : SF_vars(BehaveLock(h) \/ TrackLock(h))
    /\ WF_vars(MainLock \/ MainSubscribe)
    /\ WF_vars(DrainLock \/ DrainSubscribe)
    /\ WF_vars(Drain)

Spec == Init /\ [][Next]_vars
FairSpec == Spec /\ Fairness

-----------------------------------------------------------------------------
(* Properties.                                                             *)

\* The step that a thread needs to go on is one it can take.
Waits(t) ==
    \/ At(t, "rlock") /\ pending # "nobody"
    \/ (At(t, "behave") \/ At(t, "track")) /\ BehaviourHolders # {}
    \/ At(t, "dns") /\ DrainHolds

\* In the integrated mode a thread that holds the behavioural engine's lock never
\* waits for a lock in its turn: not for its own, not behind a writer of the bus.
\* Emitting under the lock is safe only because of that.
EngineHolderRuns == drain = "off" => \A t \in BehaviourHolders : ~Waits(t)

\* In the integrated mode every call that was begun comes to its end: an emission,
\* the correlated incident it starts, the tracking of a chunk that emits three times
\* under the engine's lock while other goroutines wait for it.  The mode never
\* changes, so this says that each thread is outside every call again and again.
IntegratedEmissionsEnd == \A t \in Threads : []<>(drain = "off" => stack[t] = <<>>)

\* "EmitDetection sends a detection to all subscribers": every call that was
\* begun comes to its end, in either mode.
EveryEmissionEnds == \A t \in Threads : stack[t] # <<>> ~> stack[t] = <<>>

\* "bounded drop channel ... never blocks packet ingestion": the vectors that
\* wait in the channel are taken out of it.
ChannelIsDrained == Len(queue) = MaxQueue ~> Len(queue) < MaxQueue

=============================================================================
