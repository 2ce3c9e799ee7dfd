---------------------------- MODULE FlowFeatures ----------------------------
(***************************************************************************)
(* The flow pipeline of the monitor (Security/main.go, runMonitor): the    *)
(* FlowTracker aggregates captured packets into flows, a drain goroutine   *)
(* logs each finished flow and hands it to the FlowCorrelator, which joins *)
(* it with the record the SSH analyzer makes of the same connection.  The  *)
(* parts are connected by bounded channels whose senders drop when full.   *)
(*                                                                         *)
(* TrackPacket, Sweep and FlushAll share ft.mu; AddFlowRecord,             *)
(* AddSSHSessionRecord and the correlator's cleanup share c.mu.  Receivers *)
(* take no lock, so a channel may empty while Sweep holds ft.mu.           *)
(*                                                                         *)
(* Endpoints (address and port) are numbers ordered as the code orders     *)
(* them.  Time is kept as ages that stop one tick above their limit.       *)
(***************************************************************************)
EXTENDS Integers, FiniteSets, Sequences, FiniteSetsExt

CONSTANTS
    Conns,          \* the TCP or UDP connections of a behaviour (a bound)
    Client,         \* Client[c]: the endpoint that opened connection c
    Server,         \* Server[c]: the endpoint that accepted it
    Ssh,            \* the connections the SSH analyzer sees
    Udp,            \* the connections that are UDP
    Retransmits,    \* whether a side's FIN may be captured twice
    MaxPackets,     \* packets captured in a behaviour (a bound)
    MaxFlows,       \* maxFlows of the tracker (10000)
    MaxCompleted,   \* capacity of completedCh (256)
    MaxSessions,    \* capacity of SSHSessionChan (1000)
    MaxOut,         \* capacity of OutCh (1000)
    IdleTimeout,    \* idleTimeout of the tracker, in ticks
    PendingTTL,     \* the correlator's 15 seconds, in ticks
    None

Sides == {"client", "server"}
Protocol(c) == IF c \in Udp THEN "UDP" ELSE "TCP"
Canonical(a, b, protocol) == IF a > b THEN <<b, a, protocol>> ELSE <<a, b, protocol>>
Key(c) == Canonical(Client[c], Server[c], Protocol(c))
FlowKeys == {Key(c) : c \in Conns}
Endpoints == {Client[c] : c \in Conns} \cup {Server[c] : c \in Conns}

ASSUME ConstantsOK ==
    /\ Client \in [Conns -> Nat] /\ Server \in [Conns -> Nat]
    /\ Ssh \subseteq Conns /\ Udp \subseteq Conns \ Ssh
    /\ Retransmits \in BOOLEAN
    /\ MaxPackets \in Nat /\ IdleTimeout \in Nat /\ PendingTTL \in Nat
    /\ MaxFlows \in Nat \ {0} /\ MaxCompleted \in Nat \ {0}
    /\ MaxSessions \in Nat \ {0} /\ MaxOut \in Nat \ {0}
    /\ IsFiniteSet(Conns)
    /\ None \notin Conns \cup FlowKeys

VARIABLES
    sent,           \* sent[c]: how many packets of c were captured
    fin,            \* fin[c]: the sides of c that have sent a FIN
    reset,          \* the connections that saw an RST
    session,        \* session[c]: the SSH analyzer's view of c
    tracker,        \* the flow table, completedCh and the packets it dropped
    todo,           \* the keys a Sweep or FlushAll under ft.mu has left, or None
    signalled,      \* the signal handler has begun its FlushAll
    hand,           \* the flow record in the hands of the drain goroutine
    logged,         \* packets in the records written to flow_stats.jsonl
    sessions,       \* SSHSessionChan
    sshHand,        \* the session in the hands of its drain goroutine
    pending,        \* pending[e]: the halves the correlator keeps under e
    out,            \* OutCh
    vectors,        \* vectors[c]: feature vectors built from the session of c
    exited          \* the TUI has quit and the process is gone

networkVars == <<sent, fin, reset, session>>
flowVars == <<tracker, todo, signalled, hand, logged>>
corrVars == <<sessions, sshHand, pending, out, vectors>>
vars == <<networkVars, flowVars, corrVars, exited>>

-----------------------------------------------------------------------------
(* The flow table. *)

NoFlow == [on |-> FALSE, fwd |-> 0, bwd |-> 0, fins |-> 0, age |-> 0, init |-> None, conns |-> {}]
NewFlow(from) == [NoFlow EXCEPT !.on = TRUE, !.init = from]
Live(t) == {k \in FlowKeys : t.flows[k].on}

\* finalize: the record names the canonical key, not the initiator.
Record(k, f) == [key |-> k, src |-> k[1], packets |-> f.fwd + f.bwd, conns |-> f.conns]

\* emitAsync: the record is dropped when the channel is full.
EmitAsync(t, r) ==
    IF Len(t.completed) < MaxCompleted
    THEN [t EXCEPT !.completed = Append(@, r)]
    ELSE [t EXCEPT !.dropped = @ + r.packets]

\* finalize, delete and emitAsync, as every way out of the table does them.
Finish(t, k) == EmitAsync([t EXCEPT !.flows[k] = NoFlow], Record(k, t.flows[k]))

Oldest(t, k) == k \in Live(t) /\ \A j \in Live(t) : t.flows[j].age <= t.flows[k].age

\* The first packet of a flow makes room for it and names its initiator.
Opened(t, k, from, victim) ==
    IF t.flows[k].on THEN t
    ELSE [(IF victim = None THEN t ELSE Finish(t, victim)) EXCEPT !.flows[k] = NewFlow(from)]

Counted(f, c, from, flag) ==
    [f EXCEPT !.fwd = IF from = f.init THEN @ + 1 ELSE @,
              !.bwd = IF from = f.init THEN @ ELSE @ + 1,
              !.fins = IF flag = "fin" THEN @ + 1 ELSE @,
              !.age = 0,
              !.conns = @ \cup {c}]

Closes(f, flag) == flag = "rst" \/ f.fins >= 2

\* TrackPacket.  Its two sends, of an evicted flow and of a flow closed by
\* the same packet, are one step: no receive comes between them.
TrackPacket(c, from, flag) ==
    LET k == Key(c)
        full == ~tracker.flows[k].on /\ Cardinality(Live(tracker)) >= MaxFlows
    IN  \E victim \in FlowKeys \cup {None} :
            /\ IF full THEN Oldest(tracker, victim) ELSE victim = None
            /\ LET t == Opened(tracker, k, from, victim)
                   u == [t EXCEPT !.flows[k] = Counted(@, c, from, flag)]
               IN  tracker' = IF Closes(u.flows[k], flag) THEN Finish(u, k) ELSE u

-----------------------------------------------------------------------------
(* The correlator. *)

NoPair == [flow |-> None, ssh |-> None, age |-> 0]
Exists(p) == p.flow # None \/ p.ssh # None

\* Mutant of Settle: the entry of a pair that was emitted is not deleted.
SettleKeepsEntry(e, p) ==
    /\ pending' = [pending EXCEPT ![e] = p]
    /\ IF p.flow # None /\ p.ssh # None
       THEN /\ out' = IF Len(out) < MaxOut THEN Append(out, [ssh |-> p.ssh, conns |-> p.flow.conns]) ELSE out
            /\ vectors' = [vectors EXCEPT ![p.ssh] = @ + 1]
       ELSE UNCHANGED <<out, vectors>>

\* emitAndClear, when the second half has come: a vector that does not fit
\* into OutCh is dropped, and the entry goes either way.
Settle(e, p) ==
    IF p.flow # None /\ p.ssh # None
    THEN /\ pending' = [pending EXCEPT ![e] = NoPair]
         /\ out' = IF Len(out) < MaxOut THEN Append(out, [ssh |-> p.ssh, conns |-> p.flow.conns]) ELSE out
         /\ vectors' = [vectors EXCEPT ![p.ssh] = @ + 1]
    ELSE /\ pending' = [pending EXCEPT ![e] = p]
         /\ UNCHANGED <<out, vectors>>

-----------------------------------------------------------------------------
(* The network: which packets the ring buffer may deliver.  A side sends   *)
(* one FIN, more if it retransmits; the same two endpoints are used again  *)
(* only for a connection that comes after the end of the other.            *)

Over(c) == c \in reset \/ fin[c] = Sides
From(c, side) == IF side = "client" THEN Client[c] ELSE Server[c]

MaySend(c, side, flag) ==
    /\ MapThenSumSet(LAMBDA d : sent[d], Conns) < MaxPackets
    /\ c \in Udp => flag = "data"
    /\ flag = "fin" => side \notin fin[c] \/ Retransmits
    /\ flag = "rst" => c \notin reset
    /\ \A d \in Conns \ {c} : Key(d) = Key(c) /\ sent[d] > 0 => Over(d) /\ ~Over(c)

Packet(c, side, flag) ==
    /\ todo = None
    /\ MaySend(c, side, flag)
    /\ TrackPacket(c, From(c, side), flag)
    /\ sent' = [sent EXCEPT ![c] = @ + 1]
    /\ fin' = [fin EXCEPT ![c] = IF flag = "fin" THEN @ \cup {side} ELSE @]
    /\ reset' = IF flag = "rst" THEN reset \cup {c} ELSE reset
    /\ UNCHANGED <<session, todo, signalled, hand, logged, corrVars>>

\* Time passes; no age goes further than one tick past its limit.
Older(age, limit) == IF age > limit THEN age ELSE age + 1
Aged(f) == IF f.on THEN [f EXCEPT !.age = Older(@, IdleTimeout)] ELSE f

Tick ==
    /\ tracker' = [tracker EXCEPT !.flows =
           [k \in FlowKeys |-> Aged(tracker.flows[k])]]
    /\ pending' = [e \in Endpoints |->
           IF Exists(pending[e]) THEN [pending[e] EXCEPT !.age = Older(@, PendingTTL)] ELSE pending[e]]
    /\ UNCHANGED <<networkVars, todo, signalled, hand, logged, sessions, sshHand, out, vectors>>

-----------------------------------------------------------------------------
(* Sweep and FlushAll: a loop over the table that holds ft.mu, one record  *)
(* at a time because the drain goroutine goes on receiving.                *)

Idle(t, k) == k \in Live(t) /\ t.flows[k].age > IdleTimeout

SweepStart ==
    /\ todo = None
    /\ \E k \in FlowKeys : Idle(tracker, k)
    /\ todo' = {k \in FlowKeys : Idle(tracker, k)}
    /\ UNCHANGED <<networkVars, tracker, signalled, hand, logged, corrVars>>

FlushStart ==
    /\ todo = None
    /\ ~signalled
    /\ signalled' = TRUE
    /\ todo' = Live(tracker)
    /\ UNCHANGED <<networkVars, tracker, hand, logged, corrVars>>

LoopVisit ==
    /\ todo # None
    /\ \E k \in todo :
           /\ tracker' = Finish(tracker, k)
           /\ todo' = todo \ {k}
    /\ UNCHANGED <<networkVars, signalled, hand, logged, corrVars>>

LoopEnd ==
    /\ todo = {}
    /\ todo' = None
    /\ UNCHANGED <<networkVars, tracker, signalled, hand, logged, corrVars>>

\* The goroutine that drains completedCh: LogFlow, then AddFlowRecord.
DrainReceive ==
    /\ hand = None
    /\ tracker.completed # <<>>
    /\ hand' = Head(tracker.completed)
    /\ logged' = logged + Head(tracker.completed).packets
    /\ tracker' = [tracker EXCEPT !.completed = Tail(@)]
    /\ UNCHANGED <<networkVars, todo, signalled, corrVars>>

\* AddFlowRecord: an entry keeps the age of its first half, a half of the
\* same kind is overwritten.
AddFlowRecord ==
    /\ hand # None
    /\ hand' = None
    /\ IF hand.key[3] = "TCP"
       THEN Settle(hand.src, [pending[hand.src] EXCEPT !.flow = hand])
       ELSE UNCHANGED <<pending, out, vectors>>
    /\ UNCHANGED <<networkVars, tracker, todo, signalled, logged, sessions, sshHand>>

\* AnalyzeClose of the SSH analyzer, when the proxy's connection closes.
AnalyzeClose(c) ==
    /\ c \in Ssh
    /\ sent[c] > 0
    /\ session[c] = "open"
    /\ session' = [session EXCEPT ![c] = "ended"]
    /\ sessions' = IF Len(sessions) < MaxSessions THEN Append(sessions, c) ELSE sessions
    /\ UNCHANGED <<sent, fin, reset, flowVars, sshHand, pending, out, vectors>>

SshReceive ==
    /\ sshHand = None
    /\ sessions # <<>>
    /\ sshHand' = Head(sessions)
    /\ sessions' = Tail(sessions)
    /\ UNCHANGED <<networkVars, flowVars, pending, out, vectors>>

AddSSHSessionRecord ==
    /\ sshHand # None
    /\ sshHand' = None
    /\ Settle(Client[sshHand], [pending[Client[sshHand]] EXCEPT !.ssh = sshHand])
    /\ UNCHANGED <<networkVars, flowVars, sessions>>

\* Mutant of Stale: Before read as After.
StaleInverted(e) == Exists(pending[e]) /\ pending[e].age < PendingTTL

\* cleanupLoop: every entry over its age at once, under c.mu.
Stale(e) == Exists(pending[e]) /\ pending[e].age > PendingTTL

EvictPending ==
    /\ \E e \in Endpoints : Stale(e)
    /\ pending' = [e \in Endpoints |-> IF Stale(e) THEN NoPair ELSE pending[e]]
    /\ UNCHANGED <<networkVars, flowVars, sessions, sshHand, out, vectors>>

\* The goroutine that scores vectors; its alerts go to another bus.
OutReceive ==
    /\ out # <<>>
    /\ out' = Tail(out)
    /\ UNCHANGED <<networkVars, flowVars, sessions, sshHand, pending, vectors>>

\* The TUI ends on a key or on the Quit of the signal handler, and runMonitor
\* returns without waiting for any of its goroutines.
Quit ==
    /\ exited' = TRUE
    /\ UNCHANGED <<networkVars, flowVars, corrVars>>

-----------------------------------------------------------------------------

Init ==
    /\ sent = [c \in Conns |-> 0]
    /\ fin = [c \in Conns |-> {}]
    /\ reset = {}
    /\ session = [c \in Conns |-> "open"]
    /\ tracker = [flows |-> [k \in FlowKeys |-> NoFlow], completed |-> <<>>, dropped |-> 0]
    /\ todo = None
    /\ signalled = FALSE
    /\ hand = None
    /\ logged = 0
    /\ sessions = <<>>
    /\ sshHand = None
    /\ pending = [e \in Endpoints |-> NoPair]
    /\ out = <<>>
    /\ vectors = [c \in Conns |-> 0]
    /\ exited = FALSE

Capture == \E c \in Conns, side \in Sides, flag \in {"data", "fin", "rst"} : Packet(c, side, flag)

Work ==
    \/ Capture
    \/ Tick
    \/ SweepStart
    \/ FlushStart
    \/ LoopVisit
    \/ LoopEnd
    \/ DrainReceive
    \/ AddFlowRecord
    \/ \E c \in Conns : AnalyzeClose(c)
    \/ SshReceive
    \/ AddSSHSessionRecord
    \/ EvictPending
    \/ OutReceive

Running == ~exited /\ UNCHANGED exited

Next == (Running /\ Work) \/ (~exited /\ Quit)

Spec == Init /\ [][Next]_vars

\* Time passes, the tickers fire and the goroutines are scheduled; packets,
\* signals and the end of a session are the environment's.
FairSpec ==
    /\ Spec
    /\ WF_vars(Running /\ Tick)
    /\ WF_vars(Running /\ SweepStart)
    /\ WF_vars(Running /\ LoopVisit)
    /\ WF_vars(Running /\ LoopEnd)
    /\ WF_vars(Running /\ DrainReceive)
    /\ WF_vars(Running /\ AddFlowRecord)
    /\ WF_vars(Running /\ SshReceive)
    /\ WF_vars(Running /\ AddSSHSessionRecord)
    /\ WF_vars(Running /\ EvictPending)
    /\ WF_vars(Running /\ OutReceive)

-----------------------------------------------------------------------------
(* Properties. *)

FlowType ==
    [on : BOOLEAN, fwd : Nat, bwd : Nat, fins : Nat, age : 0 .. IdleTimeout + 1,
     init : Endpoints \cup {None}, conns : SUBSET Conns]
RecordType == [key : FlowKeys, src : Endpoints, packets : Nat, conns : SUBSET Conns]
PairType == [flow : RecordType \cup {None}, ssh : Ssh \cup {None}, age : 0 .. PendingTTL + 1]
VectorType == [ssh : Ssh, conns : SUBSET Conns]

\* Every variable keeps its type and no buffer outgrows its limit: the flow
\* table (the capacity check of TrackPacket), completedCh, SSHSessionChan and
\* OutCh.
TypeOK ==
    /\ sent \in [Conns -> Nat]
    /\ fin \in [Conns -> SUBSET Sides]
    /\ reset \subseteq Conns
    /\ session \in [Conns -> {"open", "ended"}]
    /\ tracker \in [flows : [FlowKeys -> FlowType], completed : Seq(RecordType), dropped : Nat]
    /\ Cardinality(Live(tracker)) <= MaxFlows
    /\ Len(tracker.completed) <= MaxCompleted
    /\ todo = None \/ todo \subseteq Live(tracker)
    /\ signalled \in BOOLEAN
    /\ hand \in RecordType \cup {None}
    /\ logged \in Nat
    /\ sessions \in Seq(Ssh)
    /\ Len(sessions) <= MaxSessions
    /\ sshHand \in Ssh \cup {None}
    /\ pending \in [Endpoints -> PairType]
    /\ out \in Seq(VectorType)
    /\ Len(out) <= MaxOut
    /\ vectors \in [Conns -> Nat]
    /\ exited \in BOOLEAN

\* Every captured packet is in exactly one place: an open flow, a record on
\* its way, the log, or the count of what a full channel cost.  (The ways out
\* of the table: RST, the second FIN, eviction, Sweep, FlushAll.)
PacketsAccounted ==
    MapThenSumSet(LAMBDA c : sent[c], Conns) =
        MapThenSumSet(LAMBDA k : tracker.flows[k].fwd + tracker.flows[k].bwd, FlowKeys)
        + MapThenSumSet(LAMBDA i : tracker.completed[i].packets, 1 .. Len(tracker.completed))
        + logged + tracker.dropped

\* The two halves of a connection never wait side by side for each other: once
\* both are with the correlator they have met.  (The keys under which
\* AddFlowRecord and AddSSHSessionRecord look for the other half.)
FlowHalf(c) == \E e \in Endpoints : pending[e].flow # None /\ c \in pending[e].flow.conns
SshHalf(c) == \E e \in Endpoints : pending[e].ssh = c
PairsMeet == \A c \in Ssh : ~(FlowHalf(c) /\ SshHalf(c))

\* The canonical order decides which connections can be joined at all: halves
\* wait side by side only when the server comes before the client, and then no
\* vector joins the session with a flow record of its own connection.  (The
\* same two keys, finalize's canonical source and the session's client.)
OrderDecides ==
    /\ \A c \in Ssh : FlowHalf(c) /\ SshHalf(c) => Server[c] < Client[c]
    /\ \A i \in 1 .. Len(out) :
           out[i].ssh \in out[i].conns => ~(Server[out[i].ssh] < Client[out[i].ssh])

\* A session goes into one feature vector at most, however many flow records
\* its connection falls apart into.  (emitAndClear and the overwritten halves.)
SessionUsedOnce == \A c \in Conns : vectors[c] <= 1

\* A flow leaves the table by itself, even of a connection of which the last
\* ACK came after the two FINs.  (Sweep against evictOldest and new packets.)
EveryFlowEnds == \A k \in FlowKeys : tracker.flows[k].on ~> ~tracker.flows[k].on \/ exited

\* No half waits for ever, though later halves of the same kind replace it
\* without a new addedAt.  (cleanupLoop.)
EveryHalfLeaves == \A e \in Endpoints : Exists(pending[e]) ~> ~Exists(pending[e]) \/ exited

\* What flow_tracker.go:289 says of its test: a flow that closed without an
\* RST is one of which both sides have sent a FIN.
ClosedByBothSides ==
    [][\A c \in Conns :
          sent'[c] > sent[c] /\ c \notin reset'
             => tracker'.flows[Key(c)].on \/ fin'[c] = Sides]_vars

\* What flow_tracker.go:317 says of FlushAll: after a signal, the process ends
\* with every packet in the log or counted as dropped.
FlushedFlowsAreLogged ==
    exited /\ signalled => MapThenSumSet(LAMBDA c : sent[c], Conns) = logged + tracker.dropped
=============================================================================
