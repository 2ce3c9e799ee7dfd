------------------------- MODULE FlowFeaturesProofs -------------------------
(***************************************************************************)
(* Theorems of FlowFeatures, for any connections, endpoints, channel       *)
(* capacities and timeouts: the types and limits, that a session goes into *)
(* one feature vector at most, and which connections the correlator can    *)
(* join with their own flow at all.                                        *)
(***************************************************************************)
EXTENDS FlowFeatures, FiniteSetTheorems, TLAPS

TrackerType == [flows : [FlowKeys -> FlowType], completed : Seq(RecordType), dropped : Nat]

\* The part of TypeOK a single tracker value must have.
GoodTracker(t) ==
    /\ t \in TrackerType
    /\ Len(t.completed) <= MaxCompleted
    /\ Cardinality(Live(t)) <= MaxFlows

\* A record is about connections of its key, and so is a flow of the table.
Origin(r) == r.src = r.key[1] /\ \A c \in r.conns : Key(c) = r.key
Traced(t) ==
    /\ \A k \in FlowKeys : \A c \in t.flows[k].conns : Key(c) = k
    /\ \A i \in 1 .. Len(t.completed) : Origin(t.completed[i])

-----------------------------------------------------------------------------
(* Keys and the flow table. *)

\* A connection's key is a triple of two of its endpoints and its protocol.
LEMMA KeyShape ==
    ASSUME NEW c \in Conns
    PROVE  /\ Key(c) \in FlowKeys
           /\ Key(c)[1] \in Endpoints
           /\ ~(Server[c] < Client[c]) => Key(c)[1] = Client[c]
           /\ Server[c] < Client[c] => Key(c)[1] = Server[c]
<1>1. Key(c) \in FlowKeys
  BY DEF FlowKeys
<1>2. Client[c] \in Endpoints /\ Server[c] \in Endpoints
  BY DEF Endpoints
<1>3. Client[c] \in Nat /\ Server[c] \in Nat
  BY ConstantsOK
<1>4. CASE Client[c] > Server[c]
  BY <1>1, <1>2, <1>3, <1>4 DEF Key, Canonical
<1>5. CASE ~(Client[c] > Server[c])
  BY <1>1, <1>2, <1>3, <1>5 DEF Key, Canonical
<1> QED
  BY <1>4, <1>5

LEMMA KeyEndpoint ==
    ASSUME NEW k \in FlowKeys
    PROVE  k[1] \in Endpoints
  BY KeyShape DEF FlowKeys

\* There are finitely many keys, so the live flows can be counted.
LEMMA FiniteKeys == IsFiniteSet(FlowKeys)
<1> DEFINE f == [c \in Conns |-> Key(c)]
<1>1. f \in Surjection(Conns, FlowKeys)
  BY DEF Surjection, FlowKeys
<1> QED
  BY <1>1, FS_Surjection, ConstantsOK

LEMMA LiveFinite ==
    ASSUME NEW t
    PROVE  Live(t) \in SUBSET FlowKeys /\ IsFiniteSet(Live(t)) /\ Cardinality(Live(t)) \in Nat
<1>1. Live(t) \in SUBSET FlowKeys
  BY DEF Live
<1>2. IsFiniteSet(Live(t))
  BY <1>1, FiniteKeys, FS_Subset
<1> QED
  BY <1>1, <1>2, FS_CardinalityType

\* What one flow less and one flow more make of the count.
LEMMA LiveCount ==
    ASSUME NEW t, NEW k
    PROVE  /\ Cardinality(Live(t) \ {k}) \in Nat
           /\ Cardinality(Live(t) \ {k}) <= Cardinality(Live(t))
           /\ k \in Live(t) => Cardinality(Live(t) \ {k}) = Cardinality(Live(t)) - 1
           /\ Cardinality(Live(t) \cup {k}) \in Nat
           /\ Cardinality(Live(t) \cup {k}) <= Cardinality(Live(t)) + 1
<1> DEFINE L == Live(t)
<1>1. IsFiniteSet(L) /\ Cardinality(L) \in Nat
  BY LiveFinite
<1> HIDE DEF L
<1>2. /\ IsFiniteSet(L \ {k})
      /\ Cardinality(L \ {k}) = IF k \in L THEN Cardinality(L) - 1 ELSE Cardinality(L)
  BY <1>1, FS_RemoveElement
<1>3. /\ IsFiniteSet(L \cup {k})
      /\ Cardinality(L \cup {k}) = IF k \in L THEN Cardinality(L) ELSE Cardinality(L) + 1
  BY <1>1, FS_AddElement
<1>4. Cardinality(L \ {k}) \in Nat /\ Cardinality(L \cup {k}) \in Nat
  BY <1>2, <1>3, FS_CardinalityType
<1>5. /\ Cardinality(L \ {k}) \in Nat
      /\ Cardinality(L \ {k}) <= Cardinality(L)
      /\ k \in L => Cardinality(L \ {k}) = Cardinality(L) - 1
      /\ Cardinality(L \cup {k}) \in Nat
      /\ Cardinality(L \cup {k}) <= Cardinality(L) + 1
  BY <1>1, <1>2, <1>3, <1>4
<1> QED
  BY <1>5 DEF L

LEMMA NoFlowType == NoFlow \in FlowType /\ ~NoFlow.on
  BY ConstantsOK DEF NoFlow, FlowType

LEMMA RecordTyped ==
    ASSUME NEW k \in FlowKeys, NEW f \in FlowType
    PROVE  Record(k, f) \in RecordType
  BY KeyEndpoint DEF Record, RecordType, FlowType

\* emitAsync keeps the table and appends the record or nothing.
LEMMA EmitTyped ==
    ASSUME NEW t \in TrackerType, NEW r \in RecordType, Len(t.completed) <= MaxCompleted
    PROVE  /\ EmitAsync(t, r) \in TrackerType
           /\ EmitAsync(t, r).flows = t.flows
           /\ Len(EmitAsync(t, r).completed) <= MaxCompleted
           /\ EmitAsync(t, r).completed \in {t.completed, Append(t.completed, r)}
<1>1. t.completed \in Seq(RecordType) /\ t.dropped \in Nat /\ r.packets \in Nat
  BY DEF TrackerType, RecordType
<1>2. /\ Append(t.completed, r) \in Seq(RecordType)
      /\ Len(Append(t.completed, r)) = Len(t.completed) + 1
      /\ Len(t.completed) \in Nat
  BY <1>1
<1>3. MaxCompleted \in Nat
  BY ConstantsOK
<1>4. CASE Len(t.completed) < MaxCompleted
  <2>1. EmitAsync(t, r) = [t EXCEPT !.completed = Append(t.completed, r)]
    BY <1>4 DEF EmitAsync
  <2> QED
    BY <1>2, <1>3, <1>4, <2>1 DEF TrackerType
<1>5. CASE ~(Len(t.completed) < MaxCompleted)
  <2>1. EmitAsync(t, r) = [t EXCEPT !.dropped = t.dropped + r.packets]
    BY <1>5 DEF EmitAsync
  <2> QED
    BY <1>1, <2>1 DEF TrackerType
<1> QED
  BY <1>4, <1>5

\* Finish takes one flow out of the table and appends its record or nothing.
LEMMA FinishTyped ==
    ASSUME NEW t \in TrackerType, NEW k \in FlowKeys, Len(t.completed) <= MaxCompleted
    PROVE  /\ Finish(t, k) \in TrackerType
           /\ Finish(t, k).flows = [t.flows EXCEPT ![k] = NoFlow]
           /\ Len(Finish(t, k).completed) <= MaxCompleted
           /\ Finish(t, k).completed \in {t.completed, Append(t.completed, Record(k, t.flows[k]))}
           /\ Live(Finish(t, k)) = Live(t) \ {k}
<1> DEFINE u == [t EXCEPT !.flows[k] = NoFlow]
<1>1. /\ u \in TrackerType
      /\ u.flows = [t.flows EXCEPT ![k] = NoFlow]
      /\ u.completed = t.completed
  BY NoFlowType DEF TrackerType
<1>2. Record(k, t.flows[k]) \in RecordType
  BY RecordTyped DEF TrackerType
<1>3. Finish(t, k) = EmitAsync(u, Record(k, t.flows[k]))
  BY DEF Finish
<1>4. /\ Finish(t, k) \in TrackerType
      /\ Finish(t, k).flows = [t.flows EXCEPT ![k] = NoFlow]
      /\ Len(Finish(t, k).completed) <= MaxCompleted
      /\ Finish(t, k).completed \in {t.completed, Append(t.completed, Record(k, t.flows[k]))}
  <2> HIDE DEF u
  <2> QED
    BY <1>1, <1>2, <1>3, EmitTyped
<1>5. Live(Finish(t, k)) = Live(t) \ {k}
  BY <1>4, NoFlowType DEF Live, TrackerType
<1> QED
  BY <1>4, <1>5

LEMMA FinishTraced ==
    ASSUME NEW t \in TrackerType, NEW k \in FlowKeys, Len(t.completed) <= MaxCompleted, Traced(t)
    PROVE  Traced(Finish(t, k))
<1> DEFINE u == Finish(t, k)
           r == Record(k, t.flows[k])
<1>1. /\ u.flows = [t.flows EXCEPT ![k] = NoFlow]
      /\ u.completed \in {t.completed, Append(t.completed, r)}
  BY FinishTyped
<1>2. Origin(r)
  BY DEF Traced, Origin, Record
<1>3. \A j \in FlowKeys : \A c \in u.flows[j].conns : Key(c) = j
  BY <1>1 DEF Traced, NoFlow, TrackerType
<1>4. \A i \in 1 .. Len(u.completed) : Origin(u.completed[i])
  <2>1. r \in RecordType /\ t.completed \in Seq(RecordType)
    BY RecordTyped DEF TrackerType
  <2>2. ASSUME NEW i \in 1 .. Len(Append(t.completed, r))
        PROVE  Append(t.completed, r)[i] = r \/ (i \in 1 .. Len(t.completed) /\ Append(t.completed, r)[i] = t.completed[i])
    <3> HIDE DEF r
    <3> QED
      BY <2>1
  <2> HIDE DEF r, u
  <2> QED
    BY <1>1, <1>2, <2>2 DEF Traced
<1> QED
  BY <1>3, <1>4 DEF Traced

\* The first packet of a flow: its place is made or free, and it is empty.
LEMMA OpenedGood ==
    ASSUME NEW t, GoodTracker(t), Traced(t), NEW k \in FlowKeys, NEW from \in Endpoints,
           NEW victim \in FlowKeys \cup {None},
           IF ~t.flows[k].on /\ Cardinality(Live(t)) >= MaxFlows THEN Oldest(t, victim) ELSE victim = None
    PROVE  GoodTracker(Opened(t, k, from, victim)) /\ Traced(Opened(t, k, from, victim))
<1>1. CASE t.flows[k].on
  BY <1>1 DEF Opened
<1>2. CASE ~t.flows[k].on
  <2> DEFINE s == IF victim = None THEN t ELSE Finish(t, victim)
             u == [s EXCEPT !.flows[k] = NewFlow(from)]
  <2>1. Opened(t, k, from, victim) = u
    BY <1>2 DEF Opened
  <2>2. /\ s \in TrackerType /\ Len(s.completed) <= MaxCompleted /\ Traced(s)
        /\ Cardinality(Live(s)) + 1 <= MaxFlows
    <3>1. MaxFlows \in Nat \ {0} /\ Cardinality(Live(t)) \in Nat /\ IsFiniteSet(Live(t))
      BY ConstantsOK, LiveFinite
    <3>2. CASE Cardinality(Live(t)) >= MaxFlows
      <4>1. victim \in Live(t) /\ victim \in FlowKeys /\ victim # None
        BY <1>2, <3>2, ConstantsOK DEF Oldest, Live
      <4>2. Cardinality(Live(t) \ {victim}) = Cardinality(Live(t)) - 1
        BY <4>1, LiveCount
      <4>3. t \in TrackerType /\ Len(t.completed) <= MaxCompleted /\ Cardinality(Live(t)) <= MaxFlows
        BY DEF GoodTracker
      <4>4. Traced(Finish(t, victim))
        BY <4>1, <4>3, FinishTraced
      <4>5. /\ Finish(t, victim) \in TrackerType
            /\ Len(Finish(t, victim).completed) <= MaxCompleted
            /\ Live(Finish(t, victim)) = Live(t) \ {victim}
        BY <4>1, <4>3, FinishTyped
      <4>6. s = Finish(t, victim)
        BY <4>1
      <4> HIDE DEF s
      <4>7. Live(s) = Live(t) \ {victim}
        BY <4>5, <4>6
      <4>8. Cardinality(Live(s)) = Cardinality(Live(t)) - 1
        BY <4>2, <4>7
      <4>9. Cardinality(Live(s)) + 1 <= MaxFlows
        BY <3>1, <4>3, <4>8
      <4> QED
        BY <4>4, <4>5, <4>6, <4>9
    <3>3. CASE ~(Cardinality(Live(t)) >= MaxFlows)
      <4>1. victim = None
        BY <1>2, <3>3
      <4> QED
        BY <3>1, <3>3, <4>1 DEF GoodTracker
    <3> QED
      BY <3>2, <3>3
  <2>3. NewFlow(from) \in FlowType /\ NewFlow(from).on /\ NewFlow(from).conns = {}
    <3>1. NoFlow \in FlowType /\ NoFlow.conns = {}
      BY NoFlowType DEF NoFlow
    <3> QED
      BY <3>1 DEF NewFlow, FlowType
  <2> HIDE DEF s
  <2>4. /\ u \in TrackerType /\ u.completed = s.completed
        /\ u.flows = [s.flows EXCEPT ![k] = NewFlow(from)]
    BY <2>2, <2>3 DEF TrackerType
  <2>5. Live(u) = Live(s) \cup {k}
    <3> HIDE DEF u
    <3> QED
      BY <2>2, <2>3, <2>4 DEF Live, TrackerType
  <2>6. Cardinality(Live(u)) <= MaxFlows
    <3>1. Cardinality(Live(s) \cup {k}) <= Cardinality(Live(s)) + 1
      BY LiveCount
    <3>2. Cardinality(Live(s)) \in Nat /\ Cardinality(Live(s) \cup {k}) \in Nat /\ MaxFlows \in Nat
      BY LiveFinite, LiveCount, ConstantsOK
    <3> HIDE DEF u
    <3> QED
      BY <2>2, <2>5, <3>1, <3>2
  <2>7. Traced(u)
    <3> HIDE DEF u
    <3> QED
      BY <2>2, <2>3, <2>4 DEF Traced, TrackerType
  <2> QED
    BY <2>1, <2>2, <2>4, <2>6, <2>7 DEF GoodTracker
<1> QED
  BY <1>1, <1>2

LEMMA CountedTyped ==
    ASSUME NEW f \in FlowType, NEW c \in Conns, NEW from, NEW flag
    PROVE  /\ Counted(f, c, from, flag) \in FlowType
           /\ Counted(f, c, from, flag).on = f.on
           /\ Counted(f, c, from, flag).conns = f.conns \cup {c}
<1>1. IdleTimeout \in Nat
  BY ConstantsOK
<1>2. /\ f.on \in BOOLEAN /\ f.fwd \in Nat /\ f.bwd \in Nat /\ f.fins \in Nat
      /\ f.init \in Endpoints \cup {None} /\ f.conns \cup {c} \in SUBSET Conns
      /\ 0 \in 0 .. IdleTimeout + 1
  BY <1>1 DEF FlowType
<1> DEFINE a == IF from = f.init THEN f.fwd + 1 ELSE f.fwd
           b == IF from = f.init THEN f.bwd ELSE f.bwd + 1
           d == IF flag = "fin" THEN f.fins + 1 ELSE f.fins
<1>3. a \in Nat /\ b \in Nat /\ d \in Nat
  BY <1>2
<1>4. Counted(f, c, from, flag) =
        [f EXCEPT !.fwd = a, !.bwd = b, !.fins = d, !.age = 0, !.conns = f.conns \cup {c}]
  BY DEF Counted
<1> HIDE DEF a, b, d
<1>5. Counted(f, c, from, flag) =
        [on |-> f.on, fwd |-> a, bwd |-> b, fins |-> d, age |-> 0, init |-> f.init, conns |-> f.conns \cup {c}]
  BY <1>4 DEF FlowType
<1>6. Counted(f, c, from, flag) \in FlowType
  BY <1>2, <1>3, <1>5 DEF FlowType
<1> QED
  BY <1>5, <1>6

LEMMA FinishGood ==
    ASSUME NEW t, GoodTracker(t), Traced(t), NEW k \in FlowKeys
    PROVE  GoodTracker(Finish(t, k)) /\ Traced(Finish(t, k))
<1>1. t \in TrackerType /\ Len(t.completed) <= MaxCompleted /\ Cardinality(Live(t)) <= MaxFlows
  BY DEF GoodTracker
<1>2. /\ Cardinality(Live(t) \ {k}) \in Nat /\ Cardinality(Live(t)) \in Nat
      /\ Cardinality(Live(t) \ {k}) <= Cardinality(Live(t))
  BY LiveCount, LiveFinite
<1>3. /\ Finish(t, k) \in TrackerType
      /\ Len(Finish(t, k).completed) <= MaxCompleted
      /\ Live(Finish(t, k)) = Live(t) \ {k}
  BY <1>1, FinishTyped
<1>4. Cardinality(Live(Finish(t, k))) <= MaxFlows
  <2>1. MaxFlows \in Nat
    BY ConstantsOK
  <2> QED
    BY <1>1, <1>2, <1>3, <2>1
<1>5. Traced(Finish(t, k))
  BY <1>1, FinishTraced
<1> QED
  BY <1>3, <1>4, <1>5 DEF GoodTracker

\* A whole TrackPacket keeps the table, its limit and its traces.
LEMMA TrackGood ==
    ASSUME GoodTracker(tracker), Traced(tracker), NEW c \in Conns, NEW from \in Endpoints, NEW flag,
           TrackPacket(c, from, flag)
    PROVE  GoodTracker(tracker') /\ Traced(tracker')
<1>1. PICK victim \in FlowKeys \cup {None} :
          /\ IF ~tracker.flows[Key(c)].on /\ Cardinality(Live(tracker)) >= MaxFlows
             THEN Oldest(tracker, victim) ELSE victim = None
          /\ LET t == Opened(tracker, Key(c), from, victim)
                 u == [t EXCEPT !.flows[Key(c)] = Counted(@, c, from, flag)]
             IN  tracker' = IF Closes(u.flows[Key(c)], flag) THEN Finish(u, Key(c)) ELSE u
  BY DEF TrackPacket
<1> DEFINE t == Opened(tracker, Key(c), from, victim)
           u == [t EXCEPT !.flows[Key(c)] = Counted(t.flows[Key(c)], c, from, flag)]
<1>2. Key(c) \in FlowKeys
  BY KeyShape
<1>3. GoodTracker(t) /\ Traced(t)
  BY <1>1, <1>2, OpenedGood
<1>4. tracker' = u \/ tracker' = Finish(u, Key(c))
  BY <1>1
<1> HIDE DEF t
<1> DEFINE g == Counted(t.flows[Key(c)], c, from, flag)
<1>5. /\ g \in FlowType /\ g.on = t.flows[Key(c)].on
      /\ g.conns = t.flows[Key(c)].conns \cup {c}
  <2>1. t.flows[Key(c)] \in FlowType
    BY <1>2, <1>3 DEF GoodTracker, TrackerType
  <2> QED
    BY <2>1, CountedTyped
<1>6. u = [t EXCEPT !.flows[Key(c)] = g]
  OBVIOUS
<1> HIDE DEF g, u
<1>7. /\ u \in TrackerType /\ u.completed = t.completed
      /\ u.flows = [t.flows EXCEPT ![Key(c)] = g]
  BY <1>2, <1>3, <1>5, <1>6 DEF GoodTracker, TrackerType
<1>8. Live(u) = Live(t)
  BY <1>2, <1>3, <1>5, <1>7 DEF Live, GoodTracker, TrackerType
<1>9. GoodTracker(u)
  BY <1>3, <1>7, <1>8 DEF GoodTracker
<1>10. Traced(u)
  BY <1>2, <1>3, <1>5, <1>7 DEF Traced, GoodTracker, TrackerType
<1> QED
  BY <1>2, <1>4, <1>9, <1>10, FinishGood

-----------------------------------------------------------------------------
(* The inductive invariants. *)

\* A record keeps the connections of its key on its whole way.
Traces ==
    /\ Traced(tracker)
    /\ hand # None => Origin(hand)

\* A half waits under its own endpoint, and alone.
Shelved ==
    \A e \in Endpoints :
        /\ pending[e].flow # None => Origin(pending[e].flow) /\ pending[e].flow.src = e
        /\ pending[e].ssh # None => Client[pending[e].ssh] = e
        /\ pending[e].flow = None \/ pending[e].ssh = None

\* A session that ended is in one place: the channel, the hands of its drain
\* goroutine, the correlator, or a vector.  Or it is dropped.
Queued(c) == \E i \in 1 .. Len(sessions) : sessions[i] = c
Waits(c) == \E e \in Endpoints : pending[e].ssh = c
OnePlace ==
    /\ \A i, j \in 1 .. Len(sessions) : sessions[i] = sessions[j] => i = j
    /\ \A c \in Ssh :
          /\ Queued(c) => sshHand # c /\ ~Waits(c)
          /\ sshHand = c => ~Waits(c)
          /\ Queued(c) \/ sshHand = c \/ Waits(c) => session[c] = "ended" /\ vectors[c] = 0
          /\ session[c] = "open" => vectors[c] = 0
    /\ SessionUsedOnce

-----------------------------------------------------------------------------
(* Types and limits. *)

LEMMA NoPairType == NoPair \in PairType
  BY ConstantsOK DEF NoPair, PairType

\* What the arrival of a half does to the correlator.
LEMMA SettleTyped ==
    ASSUME TypeOK, NEW e \in Endpoints, NEW p \in PairType, Settle(e, p)
    PROVE  /\ pending' \in [Endpoints -> PairType]
           /\ out' \in Seq(VectorType) /\ Len(out') <= MaxOut
           /\ vectors' \in [Conns -> Nat]
<1>0. /\ pending \in [Endpoints -> PairType] /\ out \in Seq(VectorType) /\ Len(out) <= MaxOut
      /\ vectors \in [Conns -> Nat] /\ MaxOut \in Nat
  BY ConstantsOK DEF TypeOK
<1>1. CASE p.flow # None /\ p.ssh # None
  <2> DEFINE v == [ssh |-> p.ssh, conns |-> p.flow.conns]
  <2>1. p.ssh \in Ssh /\ p.ssh \in Conns /\ p.flow \in RecordType
    BY <1>1, ConstantsOK DEF PairType
  <2>2. v \in VectorType
    BY <2>1 DEF VectorType, RecordType
  <2>3. /\ pending' = [pending EXCEPT ![e] = NoPair]
        /\ out' = IF Len(out) < MaxOut THEN Append(out, v) ELSE out
        /\ vectors' = [vectors EXCEPT ![p.ssh] = vectors[p.ssh] + 1]
    BY <1>1 DEF Settle
  <2> HIDE DEF v
  <2>4. out' \in Seq(VectorType) /\ Len(out') <= MaxOut
    BY <1>0, <2>2, <2>3
  <2> QED
    BY <1>0, <2>1, <2>3, <2>4, NoPairType
<1>2. CASE ~(p.flow # None /\ p.ssh # None)
  BY <1>0, <1>2 DEF Settle
<1> QED
  BY <1>1, <1>2

LEMMA OlderTyped ==
    ASSUME NEW limit \in Nat, NEW age \in 0 .. limit + 1
    PROVE  Older(age, limit) \in 0 .. limit + 1
  BY DEF Older

LEMMA InitTyped == Init => TypeOK /\ Traces
<1> SUFFICES ASSUME Init PROVE TypeOK /\ Traces
  OBVIOUS
<1>1. Live(tracker) = {}
  BY NoFlowType DEF Init, Live
<1>2. Cardinality(Live(tracker)) <= MaxFlows
  BY <1>1, FS_EmptySet, ConstantsOK
<1>3. tracker \in TrackerType /\ Len(tracker.completed) = 0
  BY NoFlowType DEF Init, TrackerType
<1>4. pending \in [Endpoints -> PairType]
  BY NoPairType DEF Init
<1>5. TypeOK
  <2>1. /\ sent \in [Conns -> Nat] /\ fin \in [Conns -> SUBSET Sides]
        /\ reset \subseteq Conns /\ session \in [Conns -> {"open", "ended"}]
        /\ vectors \in [Conns -> Nat]
    BY DEF Init
  <2>2. /\ sessions \in Seq(Ssh) /\ Len(sessions) <= MaxSessions
        /\ out \in Seq(VectorType) /\ Len(out) <= MaxOut
    BY ConstantsOK DEF Init
  <2>3. Len(tracker.completed) <= MaxCompleted
    BY <1>3, ConstantsOK
  <2> QED
    BY <1>2, <1>3, <1>4, <2>1, <2>2, <2>3 DEF Init, TypeOK, TrackerType
<1>6. Traces
  BY <1>3 DEF Init, Traces, Traced, NoFlow
<1> QED
  BY <1>5, <1>6

LEMMA TypedTracker ==
    ASSUME TypeOK
    PROVE  GoodTracker(tracker)
  BY DEF TypeOK, GoodTracker, TrackerType

\* A packet of the network.
LEMMA PacketTyped ==
    ASSUME TypeOK, Traces, NEW c \in Conns, NEW side \in Sides, NEW flag \in {"data", "fin", "rst"},
           Packet(c, side, flag), exited' = exited
    PROVE  TypeOK' /\ Traces'
<1>1. From(c, side) \in Endpoints
  BY DEF From, Endpoints
<1>2. GoodTracker(tracker') /\ Traced(tracker')
  BY <1>1, TypedTracker, TrackGood DEF Packet, Traces
<1>3. /\ sent' \in [Conns -> Nat] /\ fin' \in [Conns -> SUBSET Sides] /\ reset' \subseteq Conns
      /\ todo' = None
  BY DEF Packet, TypeOK
<1>4. TypeOK'
  BY <1>2, <1>3 DEF TypeOK, GoodTracker, TrackerType, Packet, corrVars
<1>5. Traces'
  BY <1>2 DEF Traces, Packet
<1> QED
  BY <1>4, <1>5

\* A tick only changes ages.
LEMMA TickTyped ==
    ASSUME TypeOK, Traces, Tick, exited' = exited
    PROVE  TypeOK' /\ Traces'
<1> DEFINE flows == [k \in FlowKeys |-> Aged(tracker.flows[k])]
<1>1. tracker \in TrackerType /\ IdleTimeout \in Nat /\ PendingTTL \in Nat
  BY ConstantsOK DEF TypeOK, TrackerType
<1>2. ASSUME NEW k \in FlowKeys
      PROVE  /\ flows[k] \in FlowType /\ flows[k].on = tracker.flows[k].on
             /\ flows[k].conns = tracker.flows[k].conns
  <2>1. tracker.flows[k] \in FlowType
    BY <1>1 DEF TrackerType
  <2>2. Older(tracker.flows[k].age, IdleTimeout) \in 0 .. IdleTimeout + 1
    BY <1>1, <2>1, OlderTyped DEF FlowType
  <2> QED
    BY <2>1, <2>2 DEF FlowType, Aged
<1>3. tracker' = [tracker EXCEPT !.flows = flows]
  BY DEF Tick
<1> HIDE DEF flows
<1>4. flows \in [FlowKeys -> FlowType]
  <2>1. flows = [k \in FlowKeys |-> flows[k]]
    BY DEF flows
  <2> QED
    BY <1>2, <2>1
<1>5. /\ tracker' \in TrackerType /\ tracker'.flows = flows
      /\ tracker'.completed = tracker.completed
  BY <1>1, <1>3, <1>4 DEF TrackerType
<1>6. Live(tracker') = Live(tracker)
  BY <1>2, <1>5 DEF Live
<1>7. pending' \in [Endpoints -> PairType]
  <2>1. ASSUME NEW e \in Endpoints, NEW q \in PairType
        PROVE  [q EXCEPT !.age = Older(q.age, PendingTTL)] \in PairType
    BY <1>1, OlderTyped DEF PairType
  <2>2. ASSUME NEW e \in Endpoints PROVE pending[e] \in PairType
    BY DEF TypeOK
  <2> QED
    BY <2>1, <2>2 DEF Tick
<1>8. TypeOK'
  BY <1>5, <1>6, <1>7 DEF TypeOK, TrackerType, Tick, networkVars
<1>9. Traces'
  BY <1>2, <1>5 DEF Traces, Traced, Tick
<1> QED
  BY <1>8, <1>9

\* Sweep and FlushAll: their start, a visit and their end.
LEMMA LoopTyped ==
    ASSUME TypeOK, Traces, SweepStart \/ FlushStart \/ LoopVisit \/ LoopEnd, exited' = exited
    PROVE  TypeOK' /\ Traces'
<1>1. CASE SweepStart
  <2>1. todo' \subseteq Live(tracker)
    BY <1>1 DEF SweepStart, Idle
  <2> QED
    BY <1>1, <2>1 DEF SweepStart, TypeOK, Traces, networkVars, corrVars
<1>2. CASE FlushStart
  BY <1>2 DEF FlushStart, TypeOK, Traces, networkVars, corrVars
<1>3. CASE LoopVisit
  <2>1. PICK k \in todo : tracker' = Finish(tracker, k) /\ todo' = todo \ {k}
    BY <1>3 DEF LoopVisit
  <2>2. todo \subseteq Live(tracker) /\ k \in FlowKeys
    BY <1>3 DEF LoopVisit, TypeOK, Live
  <2>3. GoodTracker(tracker') /\ Traced(tracker')
    BY <2>1, <2>2, TypedTracker, FinishGood DEF Traces
  <2>4. todo' \subseteq Live(tracker')
    <3>1. Live(Finish(tracker, k)) = Live(tracker) \ {k}
      BY <2>2, TypedTracker, FinishTyped DEF GoodTracker
    <3> QED
      BY <2>1, <2>2, <3>1
  <2>5. TypeOK'
    BY <1>3, <2>3, <2>4 DEF LoopVisit, TypeOK, GoodTracker, TrackerType, networkVars, corrVars
  <2> QED
    BY <1>3, <2>3, <2>5 DEF LoopVisit, Traces
<1>4. CASE LoopEnd
  BY <1>4 DEF LoopEnd, TypeOK, Traces, networkVars, corrVars
<1> QED
  BY <1>1, <1>2, <1>3, <1>4

\* The drain goroutine takes the record at the head of the channel.
LEMMA DrainTyped ==
    ASSUME TypeOK, Traces, DrainReceive, exited' = exited
    PROVE  TypeOK' /\ Traces'
<1> DEFINE q == tracker.completed
<1>1. /\ tracker \in TrackerType /\ q \in Seq(RecordType) /\ Len(q) <= MaxCompleted /\ q # <<>>
      /\ MaxCompleted \in Nat
  BY ConstantsOK DEF TypeOK, TrackerType, DrainReceive
<1>2. /\ tracker' = [tracker EXCEPT !.completed = Tail(q)]
      /\ hand' = Head(q) /\ logged' = logged + Head(q).packets
  BY DEF DrainReceive
<1>3. \A i \in 1 .. Len(q) : Origin(q[i])
  BY DEF Traces, Traced
<1> HIDE DEF q
<1>4. /\ Head(q) \in RecordType /\ Head(q) = q[1] /\ 1 \in 1 .. Len(q)
      /\ Tail(q) \in Seq(RecordType) /\ Len(Tail(q)) <= MaxCompleted
      /\ \A i \in 1 .. Len(Tail(q)) : i + 1 \in 1 .. Len(q) /\ Tail(q)[i] = q[i + 1]
  BY <1>1
<1>5. /\ tracker' \in TrackerType /\ tracker'.flows = tracker.flows
      /\ tracker'.completed = Tail(q)
  BY <1>1, <1>2, <1>4 DEF TrackerType
<1>6. Live(tracker') = Live(tracker)
  BY <1>5 DEF Live
<1>7. Head(q).packets \in Nat
  BY <1>4 DEF RecordType
<1>8. TypeOK'
  <2>1. hand' \in RecordType /\ logged' \in Nat /\ Len(tracker'.completed) <= MaxCompleted
    BY <1>2, <1>4, <1>5, <1>7 DEF TypeOK
  <2>2. Cardinality(Live(tracker')) <= MaxFlows /\ (todo' = None \/ todo' \subseteq Live(tracker'))
    BY <1>6 DEF DrainReceive, TypeOK
  <2> QED
    BY <1>5, <2>1, <2>2 DEF DrainReceive, TypeOK, TrackerType, networkVars, corrVars
<1>9. Traces'
  BY <1>2, <1>3, <1>4, <1>5 DEF Traces, Traced
<1> QED
  BY <1>8, <1>9

\* The two entries of the correlator, its cleanup and its receiver.
LEMMA CorrelatorTyped ==
    ASSUME TypeOK, Traces, AddFlowRecord \/ AddSSHSessionRecord \/ EvictPending \/ OutReceive,
           exited' = exited
    PROVE  TypeOK' /\ Traces'
<1>0. \A e \in Endpoints : pending[e] \in PairType
  BY DEF TypeOK
<1>1. CASE AddFlowRecord
  <2>1. hand \in RecordType /\ hand.src \in Endpoints
    BY <1>1 DEF AddFlowRecord, TypeOK, RecordType
  <2>2. [pending[hand.src] EXCEPT !.flow = hand] \in PairType
    BY <1>0, <2>1 DEF PairType
  <2>3. /\ pending' \in [Endpoints -> PairType]
        /\ out' \in Seq(VectorType) /\ Len(out') <= MaxOut
        /\ vectors' \in [Conns -> Nat]
    <3>1. CASE hand.key[3] = "TCP"
      BY <1>1, <2>1, <2>2, <3>1, SettleTyped DEF AddFlowRecord
    <3>2. CASE hand.key[3] # "TCP"
      BY <1>1, <3>2 DEF AddFlowRecord, TypeOK
    <3> QED
      BY <3>1, <3>2
  <2>4. TypeOK'
    BY <1>1, <2>3 DEF AddFlowRecord, TypeOK, networkVars
  <2> QED
    BY <1>1, <2>4 DEF AddFlowRecord, Traces
<1>2. CASE AddSSHSessionRecord
  <2>1. sshHand \in Ssh /\ Client[sshHand] \in Endpoints
    BY <1>2, ConstantsOK DEF AddSSHSessionRecord, TypeOK, Endpoints
  <2>2. [pending[Client[sshHand]] EXCEPT !.ssh = sshHand] \in PairType
    BY <1>0, <2>1 DEF PairType
  <2>3. /\ pending' \in [Endpoints -> PairType]
        /\ out' \in Seq(VectorType) /\ Len(out') <= MaxOut
        /\ vectors' \in [Conns -> Nat]
    BY <1>2, <2>1, <2>2, SettleTyped DEF AddSSHSessionRecord
  <2>4. TypeOK'
    BY <1>2, <2>3 DEF AddSSHSessionRecord, TypeOK, networkVars, flowVars
  <2> QED
    BY <1>2, <2>4 DEF AddSSHSessionRecord, Traces, flowVars
<1>3. CASE EvictPending
  <2>1. pending' \in [Endpoints -> PairType]
    BY <1>0, <1>3, NoPairType DEF EvictPending
  <2> QED
    BY <1>3, <2>1 DEF EvictPending, TypeOK, Traces, networkVars, flowVars
<1>4. CASE OutReceive
  <2>1. out' \in Seq(VectorType) /\ Len(out') <= MaxOut
    BY <1>4, ConstantsOK DEF OutReceive, TypeOK
  <2> QED
    BY <1>4, <2>1 DEF OutReceive, TypeOK, Traces, networkVars, flowVars
<1> QED
  BY <1>1, <1>2, <1>3, <1>4

\* The way of a session to the correlator.
LEMMA SessionTyped ==
    ASSUME TypeOK, Traces, (\E c \in Conns : AnalyzeClose(c)) \/ SshReceive, exited' = exited
    PROVE  TypeOK' /\ Traces'
<1>0. sessions \in Seq(Ssh) /\ Len(sessions) <= MaxSessions /\ MaxSessions \in Nat
  BY ConstantsOK DEF TypeOK
<1>1. ASSUME NEW c \in Conns, AnalyzeClose(c) PROVE TypeOK' /\ Traces'
  <2>1. session' \in [Conns -> {"open", "ended"}]
    BY <1>1 DEF AnalyzeClose, TypeOK
  <2>2. sessions' \in Seq(Ssh) /\ Len(sessions') <= MaxSessions
    BY <1>0, <1>1 DEF AnalyzeClose
  <2> QED
    BY <1>1, <2>1, <2>2 DEF AnalyzeClose, TypeOK, Traces, flowVars
<1>2. CASE SshReceive
  <2>1. sessions' \in Seq(Ssh) /\ Len(sessions') <= MaxSessions /\ sshHand' \in Ssh
    BY <1>0, <1>2 DEF SshReceive
  <2> QED
    BY <1>2, <2>1 DEF SshReceive, TypeOK, Traces, networkVars, flowVars
<1> QED
  BY <1>1, <1>2

LEMMA NextTyped == TypeOK /\ Traces /\ [Next]_vars => TypeOK' /\ Traces'
<1> SUFFICES ASSUME TypeOK, Traces, [Next]_vars PROVE TypeOK' /\ Traces'
  OBVIOUS
<1>1. CASE Running /\ Work
  <2>1. exited' = exited
    BY <1>1 DEF Running
  <2>2. CASE Capture
    BY <2>1, <2>2, PacketTyped DEF Capture
  <2> QED
    BY <1>1, <2>1, <2>2, TickTyped, LoopTyped, DrainTyped, CorrelatorTyped, SessionTyped DEF Work
<1>2. CASE Quit
  BY <1>2 DEF Quit, TypeOK, Traces, networkVars, flowVars, corrVars
<1>3. CASE UNCHANGED vars
  BY <1>3 DEF vars, TypeOK, Traces, networkVars, flowVars, corrVars
<1> QED
  BY <1>1, <1>2, <1>3 DEF Next

\* Every variable keeps its type, the flow table its limit and every channel
\* its capacity, whatever packets come (TrackPacket, emitAsync, AnalyzeClose,
\* emitAndClear).
THEOREM TypeCorrect == Spec => []TypeOK
<1>1. Spec => [](TypeOK /\ Traces)
  BY InitTyped, NextTyped, PTL DEF Spec
<1> QED
  BY <1>1, PTL

-----------------------------------------------------------------------------
(* The halves of a pair. *)

\* What emitAndClear leaves in the table and adds to the vectors.
LEMMA SettlePlaces ==
    ASSUME TypeOK, Shelved, NEW e \in Endpoints, NEW p \in PairType,
           p.flow # None => Origin(p.flow) /\ p.flow.src = e,
           p.ssh # None => Client[p.ssh] = e,
           Settle(e, p)
    PROVE  /\ Shelved'
           /\ \A c \in Conns : Waits(c)' => (Waits(c) \/ p.ssh = c) /\ vectors'[c] = vectors[c]
           /\ \A c \in Conns : vectors'[c] # vectors[c] => p.ssh = c /\ vectors'[c] = vectors[c] + 1
<1>0. /\ pending \in [Endpoints -> PairType] /\ vectors \in [Conns -> Nat]
      /\ NoPair.flow = None /\ NoPair.ssh = None /\ \A c \in Conns : c # None
  BY ConstantsOK DEF TypeOK, NoPair
<1>1. CASE p.flow # None /\ p.ssh # None
  <2>1. /\ pending' = [pending EXCEPT ![e] = NoPair]
        /\ vectors' = [vectors EXCEPT ![p.ssh] = vectors[p.ssh] + 1]
    BY <1>1 DEF Settle
  <2>2. p.ssh \in Conns
    BY <1>1, ConstantsOK DEF PairType
  <2>3. Shelved'
    BY <1>0, <2>1 DEF Shelved, Origin
  <2>4. ASSUME NEW c \in Conns, Waits(c)'
        PROVE  Waits(c) /\ vectors'[c] = vectors[c]
    <3>1. PICK d \in Endpoints : pending'[d].ssh = c
      BY <2>4 DEF Waits
    <3>2. d # e /\ pending[d].ssh = c
      BY <1>0, <2>1, <3>1
    <3>3. Client[c] = d
      BY <1>0, <3>2 DEF Shelved
    <3>4. c # p.ssh
      BY <1>1, <3>2, <3>3
    <3> QED
      BY <1>0, <2>1, <2>2, <3>2, <3>4 DEF Waits
  <2>5. ASSUME NEW c \in Conns, vectors'[c] # vectors[c]
        PROVE  p.ssh = c /\ vectors'[c] = vectors[c] + 1
    BY <1>0, <2>1, <2>2, <2>5
  <2> QED
    BY <2>3, <2>4, <2>5
<1>2. CASE ~(p.flow # None /\ p.ssh # None)
  <2>1. pending' = [pending EXCEPT ![e] = p] /\ vectors' = vectors
    BY <1>2 DEF Settle
  <2>2. Shelved'
    BY <1>0, <1>2, <2>1 DEF Shelved, Origin
  <2>3. \A c \in Conns : Waits(c)' => Waits(c) \/ p.ssh = c
    BY <1>0, <2>1 DEF Waits
  <2> QED
    BY <2>1, <2>2, <2>3
<1> QED
  BY <1>1, <1>2

\* The pair AddFlowRecord and AddSSHSessionRecord put together.
LEMMA FlowPair ==
    ASSUME TypeOK, Traces, Shelved, hand # None
    PROVE  LET p == [pending[hand.src] EXCEPT !.flow = hand]
           IN  /\ hand.src \in Endpoints /\ p \in PairType
               /\ p.ssh = pending[hand.src].ssh
               /\ p.flow # None => Origin(p.flow) /\ p.flow.src = hand.src
               /\ p.ssh # None => Client[p.ssh] = hand.src
<1>1. hand \in RecordType /\ hand.src \in Endpoints /\ Origin(hand)
  BY DEF TypeOK, Traces, RecordType
<1>2. pending[hand.src] \in PairType
  BY <1>1 DEF TypeOK
<1> DEFINE p == [pending[hand.src] EXCEPT !.flow = hand]
<1>3. p \in PairType /\ p.flow = hand /\ p.ssh = pending[hand.src].ssh
  BY <1>1, <1>2 DEF PairType
<1> QED
  BY <1>1, <1>3 DEF Shelved

LEMMA SshPair ==
    ASSUME TypeOK, Shelved, sshHand # None
    PROVE  LET p == [pending[Client[sshHand]] EXCEPT !.ssh = sshHand]
           IN  /\ Client[sshHand] \in Endpoints /\ p \in PairType
               /\ p.ssh = sshHand
               /\ p.flow # None => Origin(p.flow) /\ p.flow.src = Client[sshHand]
               /\ p.ssh # None => Client[p.ssh] = Client[sshHand]
<1>1. sshHand \in Ssh /\ Client[sshHand] \in Endpoints
  BY ConstantsOK DEF TypeOK, Endpoints
<1>2. pending[Client[sshHand]] \in PairType
  BY <1>1 DEF TypeOK
<1> DEFINE p == [pending[Client[sshHand]] EXCEPT !.ssh = sshHand]
<1>3. p \in PairType /\ p.ssh = sshHand /\ p.flow = pending[Client[sshHand]].flow
  BY <1>1, <1>2 DEF PairType
<1> QED
  BY <1>1, <1>3 DEF Shelved

\* Steps that do not touch the correlator's table.
LEMMA ShelvedSame ==
    ASSUME Shelved, pending' = pending
    PROVE  Shelved'
  BY DEF Shelved, Origin

LEMMA NextShelved == TypeOK /\ Traces /\ Shelved /\ [Next]_vars => Shelved'
<1> SUFFICES ASSUME TypeOK, Traces, Shelved, [Next]_vars PROVE Shelved'
  OBVIOUS
<1>1. CASE AddFlowRecord
  <2>1. CASE pending' = pending
    BY <2>1, ShelvedSame
  <2>2. CASE Settle(hand.src, [pending[hand.src] EXCEPT !.flow = hand])
    BY <1>1, <2>2, FlowPair, SettlePlaces DEF AddFlowRecord
  <2> QED
    BY <1>1, <2>1, <2>2 DEF AddFlowRecord
<1>2. CASE AddSSHSessionRecord
  BY <1>2, SshPair, SettlePlaces DEF AddSSHSessionRecord
<1>3. CASE EvictPending
  BY <1>3 DEF EvictPending, Shelved, Origin, NoPair
<1>4. CASE Tick
  <2>1. \A e \in Endpoints : pending'[e].flow = pending[e].flow /\ pending'[e].ssh = pending[e].ssh
    BY <1>4 DEF Tick, TypeOK, PairType
  <2> QED
    BY <2>1 DEF Shelved, Origin
<1>5. CASE UNCHANGED pending
  BY <1>5, ShelvedSame
<1>6. \/ AddFlowRecord \/ AddSSHSessionRecord \/ EvictPending \/ Tick
      \/ UNCHANGED pending
  BY DEF Next, Work, Capture, Packet, SweepStart, FlushStart, LoopVisit, LoopEnd, DrainReceive,
         AnalyzeClose, SshReceive, OutReceive, Quit, vars, networkVars, flowVars, corrVars
<1> QED
  BY <1>1, <1>2, <1>3, <1>4, <1>5, <1>6

LEMMA InitShelved == Init => Shelved
  BY DEF Init, Shelved, NoPair

\* A vector is made of halves that were kept under one endpoint.
OneEndpoint(v) == \A c \in v.conns : Key(c)[1] = Client[v.ssh]
Joined == \A i \in 1 .. Len(out) : OneEndpoint(out[i])

\* emitAndClear adds a vector of such halves or none.
LEMMA SettleJoins ==
    ASSUME TypeOK, Joined, NEW e \in Endpoints, NEW p \in PairType,
           p.flow # None => Origin(p.flow) /\ p.flow.src = e,
           p.ssh # None => Client[p.ssh] = e,
           Settle(e, p)
    PROVE  Joined'
<1>1. CASE UNCHANGED out
  BY <1>1 DEF Joined, OneEndpoint
<1>2. CASE ~UNCHANGED out
  <2> DEFINE v == [ssh |-> p.ssh, conns |-> p.flow.conns]
  <2>1. p.flow # None /\ p.ssh # None /\ out' = Append(out, v)
    BY <1>2 DEF Settle
  <2>2. p.flow \in RecordType /\ p.ssh \in Ssh
    BY <2>1 DEF PairType
  <2>3. v \in VectorType
    BY <2>2 DEF VectorType, RecordType
  <2>4. OneEndpoint(v)
    BY <2>1, <2>2 DEF OneEndpoint, Origin
  <2>5. out \in Seq(VectorType)
    BY DEF TypeOK
  <2> HIDE DEF v
  <2>6. ASSUME NEW i \in 1 .. Len(out') PROVE OneEndpoint(out'[i])
    <3>1. out'[i] = v \/ (i \in 1 .. Len(out) /\ out'[i] = out[i])
      BY <2>1, <2>3, <2>5
    <3> QED
      BY <3>1, <2>4 DEF Joined
  <2> QED
    BY <2>6 DEF Joined, OneEndpoint
<1> QED
  BY <1>1, <1>2

LEMMA NextJoined == TypeOK /\ Traces /\ Shelved /\ Joined /\ [Next]_vars => Joined'
<1> SUFFICES ASSUME TypeOK, Traces, Shelved, Joined, [Next]_vars PROVE Joined'
  OBVIOUS
<1>1. CASE AddFlowRecord
  <2>1. CASE UNCHANGED out
    BY <2>1 DEF Joined, OneEndpoint
  <2>2. CASE Settle(hand.src, [pending[hand.src] EXCEPT !.flow = hand])
    BY <1>1, <2>2, FlowPair, SettleJoins DEF AddFlowRecord
  <2> QED
    BY <1>1, <2>1, <2>2 DEF AddFlowRecord
<1>2. CASE AddSSHSessionRecord
  BY <1>2, SshPair, SettleJoins DEF AddSSHSessionRecord
<1>3. CASE OutReceive
  <2>1. out \in Seq(VectorType) /\ out # <<>> /\ out' = Tail(out)
    BY <1>3 DEF OutReceive, TypeOK
  <2>2. ASSUME NEW i \in 1 .. Len(out') PROVE i + 1 \in 1 .. Len(out) /\ out'[i] = out[i + 1]
    BY <2>1
  <2> QED
    BY <2>2 DEF Joined, OneEndpoint
<1>4. CASE UNCHANGED out
  BY <1>4 DEF Joined, OneEndpoint
<1>5. AddFlowRecord \/ AddSSHSessionRecord \/ OutReceive \/ UNCHANGED out
  BY DEF Next, Work, Capture, Packet, Tick, SweepStart, FlushStart, LoopVisit, LoopEnd,
         DrainReceive, AnalyzeClose, SshReceive, EvictPending, Quit, vars, networkVars,
         flowVars, corrVars
<1> QED
  BY <1>1, <1>2, <1>3, <1>4, <1>5

\* Whatever is dropped, evicted or overwritten, the canonical order alone decides
\* whether a connection can be joined with its own flow: a flow record is kept
\* under the lower endpoint, a session under the client's (finalize,
\* AddFlowRecord, AddSSHSessionRecord).  When the client is the lower one the
\* halves share an entry, in which, by Shelved, a half waits alone; when it is
\* the higher one they never share an entry, and no vector joins them.
THEOREM OrderDecidesJoins == Spec => []OrderDecides
<1>1. TypeOK /\ Shelved /\ Joined => OrderDecides
  <2> SUFFICES ASSUME TypeOK, Shelved, Joined PROVE OrderDecides
    OBVIOUS
  <2>1. ASSUME NEW c \in Ssh, FlowHalf(c), SshHalf(c) PROVE Server[c] < Client[c]
    <3> SUFFICES ASSUME ~(Server[c] < Client[c]) PROVE FALSE
      OBVIOUS
    <3>1. c \in Conns /\ c # None
      BY ConstantsOK
    <3>2. PICK e \in Endpoints : pending[e].flow # None /\ c \in pending[e].flow.conns
      BY <2>1 DEF FlowHalf
    <3>3. PICK d \in Endpoints : pending[d].ssh = c
      BY <2>1 DEF SshHalf
    <3>4. Key(c)[1] = e
      BY <3>2 DEF Shelved, Origin
    <3>5. Client[c] = e /\ Client[c] = d
      BY <3>1, <3>3, <3>4, KeyShape DEF Shelved
    <3> QED
      BY <3>1, <3>2, <3>3, <3>5 DEF Shelved
  <2>2. ASSUME NEW i \in 1 .. Len(out), out[i].ssh \in out[i].conns
        PROVE  ~(Server[out[i].ssh] < Client[out[i].ssh])
    <3> DEFINE c == out[i].ssh
    <3>1. out \in Seq(VectorType)
      BY DEF TypeOK
    <3>2. out[i] \in VectorType
      BY <3>1
    <3>3. c \in Ssh
      BY <3>2 DEF VectorType
    <3>4. c \in Conns /\ Client[c] \in Nat /\ Server[c] \in Nat
      BY <3>3, ConstantsOK
    <3>5. Key(c)[1] = Client[c]
      BY <2>2 DEF Joined, OneEndpoint
    <3> HIDE DEF c
    <3>6. ~(Server[c] < Client[c])
      BY <3>5, <3>4, KeyShape
    <3> QED
      BY <3>6 DEF c
  <2> QED
    BY <2>1, <2>2 DEF OrderDecides
<1>2. Init => Joined
  BY DEF Init, Joined
<1>3. Spec => [](TypeOK /\ Traces /\ Shelved /\ Joined)
  BY InitTyped, NextTyped, InitShelved, NextShelved, <1>2, NextJoined, PTL DEF Spec
<1> QED
  BY <1>1, <1>3, PTL

-----------------------------------------------------------------------------
(* A session is in one place. *)

LEMMA InitOnePlace == Init => OnePlace
<1> SUFFICES ASSUME Init PROVE OnePlace
  OBVIOUS
<1>1. Len(sessions) = 0 /\ \A c \in Ssh : ~Queued(c)
  BY DEF Init, Queued
<1>2. \A c \in Ssh : c # None /\ c \in Conns
  BY ConstantsOK
<1>3. \A c \in Ssh : sshHand # c /\ ~Waits(c)
  BY <1>2 DEF Init, Waits, NoPair
<1>4. \A c \in Conns : vectors[c] = 0
  BY DEF Init
<1> QED
  BY <1>1, <1>2, <1>3, <1>4 DEF OnePlace, SessionUsedOnce

\* A step that leaves the sessions' places alone.
LEMMA OnePlaceSame ==
    ASSUME OnePlace, sessions' = sessions, sshHand' = sshHand, session' = session, vectors' = vectors,
           \A e \in Endpoints : pending'[e].ssh # None => pending'[e].ssh = pending[e].ssh
    PROVE  OnePlace'
<1>1. \A c \in Ssh : Waits(c)' => Waits(c)
  BY ConstantsOK DEF Waits
<1>2. \A c \in Ssh : Queued(c)' <=> Queued(c)
  BY DEF Queued
<1> QED
  BY <1>1, <1>2 DEF OnePlace, SessionUsedOnce

\* A session ends once, so it enters the channel once.
LEMMA CloseOnePlace ==
    ASSUME TypeOK, OnePlace, NEW c \in Conns, AnalyzeClose(c)
    PROVE  OnePlace'
<1>0. /\ sessions \in Seq(Ssh) /\ c \in Ssh /\ session[c] = "open" /\ vectors[c] = 0
      /\ session' = [session EXCEPT ![c] = "ended"] /\ session \in [Conns -> {"open", "ended"}]
      /\ UNCHANGED <<sshHand, pending, vectors>>
  BY DEF TypeOK, OnePlace, AnalyzeClose
<1>1. ~Queued(c) /\ sshHand # c /\ ~Waits(c)
  BY <1>0 DEF OnePlace
<1>2. sessions' = sessions \/ sessions' = Append(sessions, c)
  BY DEF AnalyzeClose
<1>3. \A d \in Ssh : Queued(d)' => Queued(d) \/ d = c
  BY <1>0, <1>2 DEF Queued
<1>4. \A i, j \in 1 .. Len(sessions') : sessions'[i] = sessions'[j] => i = j
  <2>1. CASE sessions' = sessions
    BY <2>1 DEF OnePlace
  <2>2. CASE sessions' = Append(sessions, c)
    <3>1. \A i \in 1 .. Len(sessions') :
             \/ i = Len(sessions) + 1 /\ sessions'[i] = c
             \/ i \in 1 .. Len(sessions) /\ sessions'[i] = sessions[i]
      BY <1>0, <2>2
    <3> QED
      BY <1>1, <3>1 DEF OnePlace, Queued
  <2> QED
    BY <1>2, <2>1, <2>2
<1>5. \A d \in Ssh : Waits(d)' <=> Waits(d)
  BY <1>0 DEF Waits
<1>6. \A d \in Ssh : session[d] = "ended" => session'[d] = "ended"
  BY <1>0, ConstantsOK
<1>7. \A d \in Ssh : session'[d] = "open" => session[d] = "open"
  BY <1>0, ConstantsOK
<1>8. session'[c] = "ended"
  BY <1>0
<1> QED
  BY <1>0, <1>1, <1>3, <1>4, <1>5, <1>6, <1>7, <1>8 DEF OnePlace, SessionUsedOnce

\* The drain goroutine takes a session out of the channel.
LEMMA ReceiveOnePlace ==
    ASSUME TypeOK, OnePlace, SshReceive
    PROVE  OnePlace'
<1>0. /\ sessions \in Seq(Ssh) /\ sessions # <<>> /\ sessions' = Tail(sessions)
      /\ sshHand' = Head(sessions) /\ sshHand = None
      /\ UNCHANGED <<session, pending, vectors>>
  BY DEF TypeOK, SshReceive, networkVars
<1>1. /\ Head(sessions) = sessions[1] /\ 1 \in 1 .. Len(sessions)
      /\ \A i \in 1 .. Len(Tail(sessions)) :
            i \in Nat /\ i # 0 /\ i + 1 \in 1 .. Len(sessions) /\ Tail(sessions)[i] = sessions[i + 1]
  BY <1>0
<1>2. \A d \in Ssh : Queued(d)' => Queued(d) /\ d # sessions[1]
  BY <1>0, <1>1 DEF Queued, OnePlace
<1>3. \A i, j \in 1 .. Len(sessions') : sessions'[i] = sessions'[j] => i = j
  <2> TAKE i, j \in 1 .. Len(sessions')
  <2> HAVE sessions'[i] = sessions'[j]
  <2>1. i + 1 = j + 1
    BY <1>0, <1>1 DEF OnePlace
  <2> QED
    BY <1>0, <1>1, <2>1
<1>4. \A d \in Ssh : (Waits(d)' <=> Waits(d)) /\ (sshHand' = d => Queued(d))
  BY <1>0, <1>1 DEF Waits, Queued
<1> QED
  BY <1>0, <1>1, <1>2, <1>3, <1>4 DEF OnePlace, SessionUsedOnce

\* The correlator gets a session, or a flow that may use one that waits.
LEMMA SettleOnePlace ==
    ASSUME TypeOK, Traces, Shelved, OnePlace, AddFlowRecord \/ AddSSHSessionRecord
    PROVE  OnePlace'
<1>0. /\ vectors \in [Conns -> Nat] /\ Ssh \subseteq Conns /\ None \notin Conns
      /\ sshHand \in Ssh \cup {None} /\ UNCHANGED <<sessions, session>>
  BY ConstantsOK DEF TypeOK, AddFlowRecord, AddSSHSessionRecord, networkVars, flowVars
<1>1. \A c \in Ssh : Queued(c)' <=> Queued(c)
  BY <1>0 DEF Queued
<1>2. CASE AddSSHSessionRecord
  <2> DEFINE p == [pending[Client[sshHand]] EXCEPT !.ssh = sshHand]
  <2>1. /\ sshHand # None /\ sshHand' = None /\ Settle(Client[sshHand], p)
    BY <1>2 DEF AddSSHSessionRecord
  <2>2. /\ p.ssh = sshHand
        /\ \A c \in Conns : Waits(c)' => (Waits(c) \/ p.ssh = c) /\ vectors'[c] = vectors[c]
        /\ \A c \in Conns : vectors'[c] # vectors[c] => p.ssh = c /\ vectors'[c] = vectors[c] + 1
    BY <2>1, SshPair, SettlePlaces
  <2> HIDE DEF p
  <2>3. vectors[sshHand] = 0 /\ session[sshHand] = "ended" /\ ~Queued(sshHand)
    BY <1>0, <2>1 DEF OnePlace
  <2>4. SessionUsedOnce'
    BY <1>0, <2>2, <2>3 DEF OnePlace, SessionUsedOnce
  <2>5. ASSUME NEW c \in Ssh
        PROVE  /\ Queued(c)' => ~Waits(c)' /\ vectors'[c] = 0 /\ session'[c] = "ended"
               /\ Waits(c)' => vectors'[c] = 0 /\ session'[c] = "ended"
               /\ session'[c] = "open" => vectors'[c] = 0
    BY <1>0, <1>1, <2>2, <2>3 DEF OnePlace
  <2> QED
    BY <1>0, <2>1, <2>4, <2>5 DEF OnePlace
<1>3. CASE AddFlowRecord /\ UNCHANGED <<pending, vectors>>
  BY <1>0, <1>3, OnePlaceSame DEF AddFlowRecord
<1>4. CASE AddFlowRecord /\ ~UNCHANGED <<pending, vectors>>
  <2> DEFINE p == [pending[hand.src] EXCEPT !.flow = hand]
  <2>1. hand # None /\ sshHand' = sshHand /\ Settle(hand.src, p)
    BY <1>4 DEF AddFlowRecord
  <2>2. /\ p.ssh = pending[hand.src].ssh /\ hand.src \in Endpoints
        /\ \A c \in Conns : Waits(c)' => (Waits(c) \/ p.ssh = c) /\ vectors'[c] = vectors[c]
        /\ \A c \in Conns : vectors'[c] # vectors[c] => p.ssh = c /\ vectors'[c] = vectors[c] + 1
    BY <2>1, FlowPair, SettlePlaces
  <2> HIDE DEF p
  <2>3. \A c \in Conns : p.ssh = c => c \in Ssh /\ Waits(c)
    <3>1. pending[hand.src] \in PairType
      BY <2>2 DEF TypeOK
    <3>2. p.ssh \in Ssh \cup {None}
      BY <2>2, <3>1 DEF PairType
    <3>3. Waits(p.ssh)
      BY <2>2 DEF Waits
    <3> QED
      BY <1>0, <3>2, <3>3
  <2>4. \A c \in Conns : p.ssh = c => vectors[c] = 0 /\ session[c] = "ended"
    BY <2>3 DEF OnePlace
  <2>5. SessionUsedOnce'
    BY <1>0, <2>2, <2>4 DEF OnePlace, SessionUsedOnce
  <2>6. ASSUME NEW c \in Ssh
        PROVE  /\ Waits(c)' => Waits(c) /\ vectors'[c] = vectors[c]
               /\ vectors'[c] # vectors[c] => Waits(c) /\ session[c] = "ended"
    BY <1>0, <2>2, <2>3, <2>4
  <2> QED
    BY <1>0, <1>1, <2>1, <2>5, <2>6 DEF OnePlace
<1> QED
  BY <1>2, <1>3, <1>4

LEMMA NextOnePlace == TypeOK /\ Traces /\ Shelved /\ OnePlace /\ [Next]_vars => OnePlace'
<1> SUFFICES ASSUME TypeOK, Traces, Shelved, OnePlace, [Next]_vars PROVE OnePlace'
  OBVIOUS
<1>1. CASE AddFlowRecord \/ AddSSHSessionRecord
  BY <1>1, SettleOnePlace
<1>2. CASE \E c \in Conns : AnalyzeClose(c)
  BY <1>2, CloseOnePlace
<1>3. CASE SshReceive
  BY <1>3, ReceiveOnePlace
<1>4. CASE EvictPending
  <2>1. \A e \in Endpoints : pending'[e].ssh # None => pending'[e].ssh = pending[e].ssh
    BY <1>4 DEF EvictPending, NoPair
  <2> QED
    BY <1>4, <2>1, OnePlaceSame DEF EvictPending, networkVars
<1>5. CASE Tick
  <2>1. \A e \in Endpoints : pending'[e].ssh = pending[e].ssh
    BY <1>5 DEF Tick, TypeOK, PairType
  <2> QED
    BY <1>5, <2>1, OnePlaceSame DEF Tick, networkVars
<1>6. CASE UNCHANGED <<sessions, sshHand, session, vectors, pending>>
  BY <1>6, OnePlaceSame
<1>7. \/ AddFlowRecord \/ AddSSHSessionRecord \/ (\E c \in Conns : AnalyzeClose(c)) \/ SshReceive
      \/ EvictPending \/ Tick \/ UNCHANGED <<sessions, sshHand, session, vectors, pending>>
  BY DEF Next, Work, Capture, Packet, SweepStart, FlushStart, LoopVisit, LoopEnd, DrainReceive,
         OutReceive, Quit, vars, networkVars, flowVars, corrVars
<1> QED
  BY <1>1, <1>2, <1>3, <1>4, <1>5, <1>6, <1>7

\* A session becomes part of one feature vector at most, however its connection
\* falls apart into flows and whatever is overwritten in between (AnalyzeClose,
\* SSHSessionChan, AddSSHSessionRecord, emitAndClear).
THEOREM OneVectorPerSession == Spec => []SessionUsedOnce
<1>1. Spec => [](TypeOK /\ Traces /\ Shelved /\ OnePlace)
  BY InitTyped, NextTyped, InitShelved, NextShelved, InitOnePlace, NextOnePlace, PTL DEF Spec
<1>2. OnePlace => SessionUsedOnce
  BY DEF OnePlace
<1> QED
  BY <1>1, <1>2, PTL
=============================================================================
