----------------------------- MODULE ProxyProofs -----------------------------
(***************************************************************************)
(* The safety invariants of the proxy engine's two listeners: of TcpProxy  *)
(* for every set of connections and every number of listeners, then of     *)
(* UdpRelay for every set of clients and sessions.                         *)
(***************************************************************************)
EXTENDS TcpProxy, UdpRelay, FiniteSetTheorems, TLAPS

(***************************************************************************)
(* The inductive invariant.                                                *)
(***************************************************************************)

\* TypeOK, except that the counters may be any integer: that they never go
\* below zero follows from what they count.
Typing ==
    /\ cancelled \in BOOLEAN
    /\ stop \in {"no", "close", "wait", "stopped"}
    /\ stopAt \in 1..(NumListeners + 1)
    /\ listening \subseteq Listeners
    /\ serve \in [Listeners -> {"accept", "accepted", "exited"}]
    /\ held \in [Listeners -> Conns \cup {None}]
    /\ connWg \in [Listeners -> Int]
    /\ active \in Int
    /\ h \in [Conns -> {"none", "held", "start", "gate", "read", "dial", "first",
                        "relay", "emit", "unwind", "done", "uncount", "finished"}]
    /\ registry \subseteq Conns
    /\ connCancelled \subseteq Conns
    /\ clientOpen \subseteq Conns
    /\ clientGone \subseteq Conns
    /\ relay \in [Conns -> [Dirs -> {"off", "check", "read", "write", "eof", "cut"}]]
    /\ bytes \in [Conns -> [Dirs -> Nat]]
    /\ seen \in [Conns -> [Dirs -> Nat]]
    /\ sent \in [Conns -> [Dirs -> Nat]]
    /\ bumped \subseteq Conns
    /\ reason \in [Conns -> Reasons]
    /\ record \in [Conns -> SUBSET [reason : Reasons, up : Nat, down : Nat]]
    /\ kill \in [Conns -> {"none", "cancel", "close", "done"}]

\* A connection that Serve holds is its listener's, and not counted yet.
HeldIsNew ==
    \A l \in Listeners : serve[l] = "accepted" =>
        held[l] \in Conns /\ On[held[l]] = l /\ h[held[l]] = "held"

\* Stop waits on the connections of a listener that exists.
StopInRange == stop = "wait" => stopAt \in Listeners

Early == {"none", "held", "start", "gate", "read", "dial", "first"}
Late  == {"emit", "unwind", "done", "uncount", "finished"}

\* Relays exist only below Forward: off before it, moving only while
\* handleConnection waits for them.
RelaysInForward ==
    \A c \in Conns : \A d \in Dirs :
        /\ h[c] \in Early => relay[c][d] = "off"
        /\ h[c] = "relay" => relay[c][d] # "off"
        /\ h[c] \in Late => relay[c][d] \in {"off", "eof", "cut"}

\* What CloseReason may be where.
ReasonTold ==
    \A c \in Conns :
        /\ h[c] \in Early => reason[c] = "normal"
        /\ h[c] \in Late /\ reason[c] = "normal" => \A d \in Dirs : relay[c][d] = "eof"
        /\ \A d \in Dirs : relay[c][d] = "cut" => reason[c] # "normal"

\* A chunk that is about to be written has been handed to the analyzers, or the
\* limit was reached before it.
ChunkInspected ==
    \A c \in Conns :
        /\ h[c] \in {"none", "held", "start", "gate", "read"} => seen[c]["up"] = 0
        /\ h[c] \in {"dial", "first"} => seen[c]["up"] = 1
        /\ h[c] \in Early => sent[c]["up"] = 0
        /\ \A d \in Dirs : relay[c][d] = "write" =>
              sent[c][d] < seen[c][d] \/ Inspected(c, d) >= MaxInspect

\* A blocked client is past its check only when the check found a cancelled
\* context.
PassedGate ==
    \A c \in Blocked : RedisAnswers =>
        (h[c] \in {"read", "dial", "first", "relay"} \/ sent[c]["up"] > 0 => cancelled)

Core ==
    /\ Typing
    /\ StopInRange
    /\ HeldIsNew
    /\ RelaysInForward
    /\ ReasonTold
    /\ ChunkInspected
    /\ PassedGate
    /\ RecordIsFinal
    /\ InspectedBeforeForwarded

LEMMA InitCore == Init => Core
<1> SUFFICES ASSUME Init PROVE Core
  OBVIOUS
<1>1. Typing /\ StopInRange
  <2>1. stopAt \in 1..(NumListeners + 1) /\ StopInRange
    BY ConstantsOK DEF ConstantsOK, Init, StopInRange
  <2>2. Zero \in [Dirs -> Nat]
    BY DEF Zero
  <2>3. bytes \in [Conns -> [Dirs -> Nat]] /\ seen \in [Conns -> [Dirs -> Nat]]
          /\ sent \in [Conns -> [Dirs -> Nat]]
    BY <2>2 DEF Init
  <2>4. relay \in [Conns -> [Dirs -> {"off", "check", "read", "write", "eof", "cut"}]]
    BY DEF Init
  <2>5. record \in [Conns -> SUBSET [reason : Reasons, up : Nat, down : Nat]]
    BY DEF Init
  <2>6. reason \in [Conns -> Reasons]
    BY DEF Init, Reasons
  <2>7. /\ serve \in [Listeners -> {"accept", "accepted", "exited"}]
        /\ held \in [Listeners -> Conns \cup {None}]
        /\ connWg \in [Listeners -> Int]
        /\ kill \in [Conns -> {"none", "cancel", "close", "done"}]
    BY DEF Init
  <2>8. h \in [Conns -> {"none", "held", "start", "gate", "read", "dial", "first",
                         "relay", "emit", "unwind", "done", "uncount", "finished"}]
    BY DEF Init
  <2>9. /\ cancelled \in BOOLEAN
        /\ stop \in {"no", "close", "wait", "stopped"}
        /\ listening \subseteq Listeners
        /\ active \in Int
        /\ registry \subseteq Conns
        /\ connCancelled \subseteq Conns
        /\ clientOpen \subseteq Conns
        /\ clientGone \subseteq Conns
        /\ bumped \subseteq Conns
    <3>1. cancelled = FALSE /\ stop = "no" /\ active = 0
      BY DEF Init
    <3>2. listening = Listeners /\ clientOpen = Conns /\ registry = {} /\ bumped = {}
            /\ connCancelled = {} /\ clientGone = {}
      BY Zenon DEF Init
    <3>3. cancelled \in BOOLEAN
      BY <3>1
    <3>4. stop \in {"no", "close", "wait", "stopped"} /\ active \in Int
      BY <3>1
    <3>5. listening \subseteq Listeners /\ clientOpen \subseteq Conns
      BY <3>2
    <3>6. registry \subseteq Conns /\ bumped \subseteq Conns
            /\ connCancelled \subseteq Conns /\ clientGone \subseteq Conns
      BY <3>2
    <3>7. QED
      BY <3>3, <3>4, <3>5, <3>6
  <2>10. QED
    BY <2>1, <2>3, <2>4, <2>5, <2>6, <2>7, <2>8, <2>9, Zenon DEF Typing
<1>2. HeldIsNew /\ RelaysInForward /\ ReasonTold /\ RecordIsFinal
  <2>1. \A c \in Conns : h[c] = "none" /\ reason[c] = "normal" /\ record[c] = {}
    BY DEF Init
  <2>2. \A c \in Conns : \A d \in Dirs : relay[c][d] = "off"
    BY DEF Init
  <2>3. HeldIsNew
    BY DEF Init, HeldIsNew
  <2>4. RelaysInForward /\ ReasonTold
    BY <2>1, <2>2 DEF RelaysInForward, ReasonTold, Early, Late
  <2>5. RecordIsFinal
    BY <2>1 DEF RecordIsFinal
  <2>6. QED
    BY <2>3, <2>4, <2>5
<1>3. ChunkInspected /\ PassedGate /\ InspectedBeforeForwarded
  BY ConstantsOK DEF ConstantsOK, Init, ChunkInspected, PassedGate, InspectedBeforeForwarded, Dirs, Zero, Early
<1>4. QED
  BY <1>1, <1>2, <1>3 DEF Core

LEMMA ServeCore ==
    ASSUME Core, NEW l \in Listeners, NEW c \in Conns,
           Accept(l, c) \/ CountAndSpawn(l) \/ ServeExit(l)
    PROVE  Core'
<1> USE ConstantsOK DEF ConstantsOK, Core, Typing, StopInRange, HeldIsNew, RelaysInForward,
      ReasonTold, ChunkInspected, PassedGate, RecordIsFinal,
      InspectedBeforeForwarded, Early, Late, Inspected, engineVars, countVars,
      sockVars, flowVars
<1>1. CASE Accept(l, c)
  BY <1>1 DEF Accept
<1>2. CASE CountAndSpawn(l)
  BY <1>2 DEF CountAndSpawn
<1>3. CASE ServeExit(l)
  BY <1>3 DEF ServeExit
<1>4. QED
  BY <1>1, <1>2, <1>3

LEMMA HandleCore == ASSUME Core, NEW c \in Conns, Handle(c) PROVE Core'
<1> USE ConstantsOK DEF ConstantsOK, Core, Typing, StopInRange, HeldIsNew, RelaysInForward,
      ReasonTold, ChunkInspected, PassedGate, RecordIsFinal,
      InspectedBeforeForwarded, Early, Late, Inspected, Goto, GiveUp, Reasons,
      Dirs, engineVars, serveVars, countVars, sockVars, flowVars
<1>1. CASE Register(c)
  BY <1>1 DEF Register
<1>2. CASE CheckReputation(c)
  <2>1. CASE GiveUp(c, "reputation-block")
    BY <1>2, <2>1 DEF CheckReputation
  <2>2. CASE ~ShouldShortCircuit(c) /\ Goto(c, "read")
    BY <1>2, <2>2 DEF CheckReputation, ShouldShortCircuit
  <2>3. QED
    BY <1>2, <2>1, <2>2 DEF CheckReputation
<1>3. CASE FirstRead(c)
  BY <1>3 DEF FirstRead
<1>4. CASE FirstReadFails(c)
  BY <1>4 DEF FirstReadFails
<1>5. CASE Dial(c)
  <2>1. CASE Goto(c, "first")
    BY <1>5, <2>1 DEF Dial
  <2>2. CASE GiveUp(c, "backend_unreachable")
    BY <1>5, <2>2 DEF Dial
  <2>3. QED
    BY <1>5, <2>1, <2>2 DEF Dial
<1>6. CASE WriteInitial(c)
  BY <1>6 DEF WriteInitial
<1>7. CASE WriteInitialFails(c)
  BY <1>7 DEF WriteInitialFails
<1>8. CASE RelaysJoined(c)
  BY <1>8 DEF RelaysJoined
<1>9. CASE emitClose(c)
  BY <1>9 DEF emitClose
<1>10. CASE Unwind(c)
  BY <1>10 DEF Unwind
<1>11. CASE WgDone(c)
  BY <1>11 DEF WgDone
<1>12. CASE Uncount(c)
  BY <1>12 DEF Uncount
<1>13. QED
  BY <1>1, <1>2, <1>3, <1>4, <1>5, <1>6, <1>7, <1>8, <1>9, <1>10, <1>11, <1>12
     DEF Handle

LEMMA RelayCore ==
    ASSUME Core, NEW c \in Conns, NEW d \in Dirs, Relay(c, d) PROVE Core'
<1> USE ConstantsOK DEF ConstantsOK, Core, Typing, StopInRange, HeldIsNew, RelaysInForward,
      ReasonTold, ChunkInspected, PassedGate, RecordIsFinal,
      InspectedBeforeForwarded, Early, Late, Inspected, RelayGoto, RelayCut,
      Reasons, Dirs, engineVars, serveVars, countVars, sockVars
<1>1. CASE RelayCheck(c, d)
  <2>1. CASE RelayCut(c, d)
    BY <1>1, <2>1 DEF RelayCheck
  <2>2. CASE RelayGoto(c, d, "read")
    BY <1>1, <2>2 DEF RelayCheck
  <2>3. QED
    BY <1>1, <2>1, <2>2 DEF RelayCheck
<1>2. CASE RelayData(c, d)
  BY <1>2 DEF RelayData
<1>3. CASE RelayTimeout(c, d)
  <2>1. CASE RelayCut(c, d)
    BY <1>3, <2>1 DEF RelayTimeout
  <2>2. CASE RelayGoto(c, d, "check")
    BY <1>3, <2>2 DEF RelayTimeout
  <2>3. QED
    BY <1>3, <2>1, <2>2 DEF RelayTimeout
<1>4. CASE RelayReadEnds(c, d)
  <2>1. CASE RelayCut(c, d)
    BY <1>4, <2>1 DEF RelayReadEnds
  <2>2. CASE RelayGoto(c, d, "eof")
    BY <1>4, <2>2 DEF RelayReadEnds
  <2>3. QED
    BY <1>4, <2>1, <2>2 DEF RelayReadEnds
<1>5. CASE RelayWrite(c, d)
  BY <1>5 DEF RelayWrite
<1>6. CASE RelayWriteFails(c, d)
  BY <1>6 DEF RelayWriteFails
<1>7. QED
  BY <1>1, <1>2, <1>3, <1>4, <1>5, <1>6 DEF Relay

LEMMA OperatorCore ==
    ASSUME Core, NEW c \in Conns,
           KillLoad(c) \/ KillCancel(c) \/ KillClose(c) \/ ClientLeaves(c)
    PROVE  Core'
<1> USE ConstantsOK DEF ConstantsOK, Core, Typing, StopInRange, HeldIsNew, RelaysInForward,
      ReasonTold, ChunkInspected, PassedGate, RecordIsFinal,
      InspectedBeforeForwarded, Early, Late, Inspected, engineVars, serveVars,
      countVars, sockVars, flowVars
<1>1. CASE KillLoad(c)
  BY <1>1 DEF KillLoad
<1>2. CASE KillCancel(c)
  BY <1>2 DEF KillCancel
<1>3. CASE KillClose(c)
  BY <1>3 DEF KillClose
<1>4. CASE ClientLeaves(c)
  BY <1>4 DEF ClientLeaves
<1>5. QED
  BY <1>1, <1>2, <1>3, <1>4

LEMMA StopCore == ASSUME Core, Stop PROVE Core'
<1> USE ConstantsOK DEF ConstantsOK, Core, Typing, StopInRange, HeldIsNew, RelaysInForward,
      ReasonTold, ChunkInspected, PassedGate, RecordIsFinal,
      InspectedBeforeForwarded, Early, Late, Inspected, Listeners, serveVars,
      countVars, sockVars, flowVars
<1>1. CASE StopCancel
  BY <1>1 DEF StopCancel
<1>2. CASE StopCloseListener
  BY <1>2 DEF StopCloseListener
<1>3. CASE StopWaitConns
  BY <1>3 DEF StopWaitConns
<1>4. CASE StopJoin
  BY <1>4 DEF StopJoin
<1>5. QED
  BY <1>1, <1>2, <1>3, <1>4 DEF Stop

LEMMA NextCore == Core /\ [Next]_vars => Core'
<1> SUFFICES ASSUME Core, [Next]_vars PROVE Core'
  OBVIOUS
<1>1. CASE UNCHANGED vars
  BY <1>1 DEF vars, Core, Typing, StopInRange, HeldIsNew, RelaysInForward,
     ReasonTold, ChunkInspected, PassedGate, RecordIsFinal,
     InspectedBeforeForwarded, Inspected, engineVars, serveVars, countVars,
     sockVars, flowVars
<1>2. ASSUME NEW l \in Listeners, NEW c \in Conns, Accept(l, c) PROVE Core'
  BY <1>2, ServeCore
<1>3. ASSUME NEW l \in Listeners, CountAndSpawn(l) PROVE Core'
  <2>1. PICK c \in Conns : c = held[l]
    BY <1>3 DEF CountAndSpawn, Core, HeldIsNew
  <2>2. QED
    BY <1>3, <2>1, ServeCore
<1>4. ASSUME NEW l \in Listeners, ServeExit(l) PROVE Core'
  BY <1>4 DEF ServeExit, Core, Typing, StopInRange, HeldIsNew, RelaysInForward,
     ReasonTold, ChunkInspected, PassedGate, RecordIsFinal,
     InspectedBeforeForwarded, Inspected, engineVars, countVars, sockVars, flowVars
<1>5. QED
  BY <1>1, <1>2, <1>3, <1>4, HandleCore, RelayCore, OperatorCore, StopCore DEF Next

-----------------------------------------------------------------------------
(* The counters.                                                           *)

LEMMA RunningFinite ==
    ASSUME NEW l
    PROVE  IsFiniteSet(Running(l)) /\ IsFiniteSet(Live)
<1>1. Running(l) \subseteq Conns /\ Live \subseteq Conns
  BY DEF Running, Live
<1>2. QED
  BY <1>1, ConstantsOK, FS_Subset DEF ConstantsOK

\* A step that neither counts a handler in nor out.
LEMMA SameCounts ==
    ASSUME CountsMatchHandlers, UNCHANGED <<connWg, active>>,
           \A c \in Conns : \/ h'[c] = h[c]
                            \/ /\ h[c] \notin {"none", "held", "uncount", "finished"}
                               /\ h'[c] \notin {"none", "held", "uncount", "finished"}
                            \/ h[c] = "none" /\ h'[c] = "held"
    PROVE  CountsMatchHandlers'
<1>1. \A l \in Listeners : Running(l)' = Running(l)
  BY DEF Running
<1>2. Live' = Live
  BY DEF Live
<1>3. QED
  BY <1>1, <1>2 DEF CountsMatchHandlers

LEMMA CountIn ==
    ASSUME Core, CountsMatchHandlers, NEW l \in Listeners, CountAndSpawn(l)
    PROVE  CountsMatchHandlers'
<1>1. PICK c \in Conns : c = held[l] /\ On[c] = l /\ h[c] = "held"
  BY DEF CountAndSpawn, Core, HeldIsNew
<1>2. h \in [Conns -> {"none", "held", "start", "gate", "read", "dial", "first",
                       "relay", "emit", "unwind", "done", "uncount", "finished"}]
      /\ connWg \in [Listeners -> Int]
  BY DEF Core, Typing
<1>3. h' = [h EXCEPT ![c] = "start"] /\ connWg' = [connWg EXCEPT ![l] = @ + 1]
        /\ active' = active + 1
  BY <1>1 DEF CountAndSpawn
<1>4. Running(l)' = Running(l) \cup {c} /\ c \notin Running(l)
  BY <1>1, <1>2, <1>3 DEF Running
<1>5. \A m \in Listeners \ {l} : Running(m)' = Running(m)
  BY <1>1, <1>2, <1>3 DEF Running
<1>6. Live' = Live \cup {c} /\ c \notin Live
  BY <1>1, <1>2, <1>3 DEF Live
<1>7. Cardinality(Running(l)') = Cardinality(Running(l)) + 1
        /\ Cardinality(Live') = Cardinality(Live) + 1
  BY <1>4, <1>6, RunningFinite, FS_AddElement
<1>8. connWg'[l] = connWg[l] + 1 /\ \A m \in Listeners \ {l} : connWg'[m] = connWg[m]
  BY <1>2, <1>3
<1>9. QED
  BY <1>3, <1>5, <1>7, <1>8 DEF CountsMatchHandlers

LEMMA CountOut ==
    ASSUME Core, CountsMatchHandlers, NEW c \in Conns, WgDone(c) \/ Uncount(c)
    PROVE  CountsMatchHandlers'
<1>1. h \in [Conns -> {"none", "held", "start", "gate", "read", "dial", "first",
                       "relay", "emit", "unwind", "done", "uncount", "finished"}]
      /\ connWg \in [Listeners -> Int] /\ On[c] \in Listeners
  BY ConstantsOK DEF ConstantsOK, Core, Typing
<1>2. CASE WgDone(c)
  <2>1. h[c] = "done" /\ h' = [h EXCEPT ![c] = "uncount"] /\ active' = active
          /\ connWg' = [connWg EXCEPT ![On[c]] = @ - 1]
    BY <1>2 DEF WgDone, Goto
  <2>2. Running(On[c])' = Running(On[c]) \ {c} /\ c \in Running(On[c])
    BY <1>1, <2>1 DEF Running
  <2>3. \A m \in Listeners \ {On[c]} : Running(m)' = Running(m)
    BY <1>1, <2>1 DEF Running
  <2>4. Live' = Live
    BY <1>1, <2>1 DEF Live
  <2>5. Cardinality(Running(On[c])') = Cardinality(Running(On[c])) - 1
    BY <2>2, RunningFinite, FS_RemoveElement
  <2>6. QED
    BY <1>1, <2>1, <2>3, <2>4, <2>5 DEF CountsMatchHandlers
<1>3. CASE Uncount(c)
  <2>1. h[c] = "uncount" /\ h' = [h EXCEPT ![c] = "finished"] /\ active' = active - 1
          /\ connWg' = connWg
    BY <1>3 DEF Uncount, Goto
  <2>2. Live' = Live \ {c} /\ c \in Live
    BY <1>1, <2>1 DEF Live
  <2>3. \A m \in Listeners : Running(m)' = Running(m)
    BY <1>1, <2>1 DEF Running
  <2>4. Cardinality(Live') = Cardinality(Live) - 1
    BY <2>2, RunningFinite, FS_RemoveElement
  <2>5. QED
    BY <2>1, <2>3, <2>4 DEF CountsMatchHandlers
<1>4. QED
  BY <1>2, <1>3

LEMMA NextCounts == Core /\ CountsMatchHandlers /\ [Next]_vars => CountsMatchHandlers'
<1> SUFFICES ASSUME Core, CountsMatchHandlers, [Next]_vars PROVE CountsMatchHandlers'
  OBVIOUS
<1>1. h \in [Conns -> {"none", "held", "start", "gate", "read", "dial", "first",
                       "relay", "emit", "unwind", "done", "uncount", "finished"}]
  BY DEF Core, Typing
<1>2. CASE UNCHANGED vars
  BY <1>2, SameCounts DEF vars, countVars
<1>3. ASSUME NEW l \in Listeners, NEW c \in Conns, Accept(l, c)
      PROVE  CountsMatchHandlers'
  BY <1>1, <1>3, SameCounts DEF Accept, countVars
<1>4. ASSUME NEW l \in Listeners, ServeExit(l) PROVE CountsMatchHandlers'
  BY <1>4, SameCounts DEF ServeExit, countVars
<1>5. ASSUME NEW c \in Conns, Handle(c) PROVE CountsMatchHandlers'
  <2>1. CASE WgDone(c) \/ Uncount(c)
    BY <2>1, CountOut
  <2>2. CASE ~(WgDone(c) \/ Uncount(c))
    <3>1. UNCHANGED <<connWg, active>>
      BY <1>5, <2>2 DEF Handle, Register, CheckReputation, FirstRead, FirstReadFails,
         Dial, WriteInitial, WriteInitialFails, RelaysJoined, emitClose, Unwind, countVars
    <3>2. h[c] \in {"start", "gate", "read", "dial", "first", "relay", "emit", "unwind"}
      BY <1>5, <2>2 DEF Handle, Register, CheckReputation, FirstRead, FirstReadFails,
         Dial, WriteInitial, WriteInitialFails, RelaysJoined, emitClose, Unwind
    <3>3. \E pc \in {"gate", "read", "dial", "first", "relay", "emit", "unwind", "done"} :
             h' = [h EXCEPT ![c] = pc]
      BY <1>5, <2>2 DEF Handle, Register, CheckReputation, FirstRead, FirstReadFails,
         Dial, WriteInitial, WriteInitialFails, RelaysJoined, emitClose, Unwind,
         Goto, GiveUp
    <3>4. QED
      BY <1>1, <3>1, <3>2, <3>3, SameCounts
  <2>3. QED
    BY <2>1, <2>2
<1>6. ASSUME NEW c \in Conns,
             \/ \E d \in Dirs : Relay(c, d)
             \/ KillLoad(c) \/ KillCancel(c) \/ KillClose(c) \/ ClientLeaves(c)
      PROVE  CountsMatchHandlers'
  <2>1. UNCHANGED <<connWg, active, h>>
    BY <1>6 DEF Relay, RelayCheck, RelayData, RelayTimeout, RelayReadEnds, RelayWrite,
       RelayWriteFails, KillLoad, KillCancel, KillClose, ClientLeaves, countVars
  <2>2. QED
    BY <2>1, SameCounts
<1>7. ASSUME Stop PROVE CountsMatchHandlers'
  <2>1. UNCHANGED <<connWg, active, h>>
    BY <1>7 DEF Stop, StopCancel, StopCloseListener, StopWaitConns, StopJoin, countVars
  <2>2. QED
    BY <2>1, SameCounts
<1>8. QED
  BY <1>2, <1>3, <1>4, <1>5, <1>6, <1>7, CountIn DEF Next

LEMMA InitCounts == Init => CountsMatchHandlers
<1> SUFFICES ASSUME Init PROVE CountsMatchHandlers
  OBVIOUS
<1>1. \A c \in Conns : h[c] = "none"
  BY DEF Init
<1>2. Live = {} /\ \A l \in Listeners : Running(l) = {}
  BY <1>1 DEF Live, Running
<1>3. active = 0 /\ \A l \in Listeners : connWg[l] = 0
  BY DEF Init
<1>4. QED
  BY <1>2, <1>3, FS_EmptySet DEF CountsMatchHandlers

LEMMA Invariance == Spec => [](Core /\ CountsMatchHandlers)
<1>1. Init => Core /\ CountsMatchHandlers
  BY InitCore, InitCounts
<1>2. Core /\ CountsMatchHandlers /\ [Next]_vars => (Core /\ CountsMatchHandlers)'
  BY NextCore, NextCounts
<1>3. QED
  BY <1>1, <1>2, PTL DEF Spec

-----------------------------------------------------------------------------
(* The theorems.                                                           *)

\* Every variable keeps its type; in particular no counter goes below zero.
THEOREM TypeCorrect == Spec => []TypeOK
<1>1. Core /\ CountsMatchHandlers => TypeOK
  <2> SUFFICES ASSUME Core, CountsMatchHandlers PROVE TypeOK
    OBVIOUS
  <2>1. \A l \in Listeners : Cardinality(Running(l)) \in Nat
    BY RunningFinite, FS_CardinalityType
  <2>2. Cardinality(Live) \in Nat
    BY RunningFinite, FS_CardinalityType
  <2>3. connWg \in [Listeners -> Nat] /\ active \in Nat
    BY <2>1, <2>2 DEF CountsMatchHandlers, Core, Typing
  <2>4. QED
    BY <2>3 DEF Core, Typing, TypeOK
<1>2. QED
  BY Invariance, <1>1, PTL

\* Every connection that ends leaves exactly one record, with the final counts.
THEOREM RecordsFinal == Spec => []RecordIsFinal
<1>1. Core => RecordIsFinal
  BY DEF Core
<1>2. QED
  BY Invariance, <1>1, PTL

\* A "normal" record means EOF in both directions.
THEOREM NormalEnded == Spec => []NormalMeansBothEnded
<1>1. Core => NormalMeansBothEnded
  <2> SUFFICES ASSUME Core, NEW c \in Conns, NEW r \in record[c], r.reason = "normal",
                      NEW d \in Dirs
               PROVE  relay[c][d] = "eof"
    BY DEF NormalMeansBothEnded
  <2>1. h[c] \in {"unwind", "done", "uncount", "finished"}
    BY DEF Core, RecordIsFinal
  <2>2. r.reason = reason[c]
    BY <2>1 DEF Core, RecordIsFinal
  <2>3. QED
    BY <2>1, <2>2 DEF Core, ReasonTold, Late
<1>2. QED
  BY Invariance, <1>1, PTL

\* Up to the inspection limit nothing is forwarded that was not analyzed.
THEOREM InspectedFirst == Spec => []InspectedBeforeForwarded
<1>1. Core => InspectedBeforeForwarded
  BY DEF Core
<1>2. QED
  BY Invariance, <1>1, PTL

\* While Redis answers and the engine runs, a blocked client reaches nothing.
THEOREM GateHolds == Spec => []GateBeforeBackend
<1>1. Core => GateBeforeBackend
  BY DEF Core, PassedGate, GateBeforeBackend
<1>2. QED
  BY Invariance, <1>1, PTL

\* Stop's WaitGroup and the statistics count the handlers exactly.
THEOREM CountsExact == Spec => []CountsMatchHandlers
BY Invariance, PTL

-----------------------------------------------------------------------------
(***************************************************************************)
(* UdpRelay.                                                               *)
(***************************************************************************)

\* Every variable of the UDP listener keeps its type.
THEOREM UdpTyped == UdpSpec => []UdpTypeOK
<1>1. UdpInit => UdpTypeOK
  BY DEF UdpInit, UdpTypeOK
<1>2. UdpTypeOK /\ [UdpNext]_udpVars => UdpTypeOK'
  <2> SUFFICES ASSUME UdpTypeOK, [UdpNext]_udpVars PROVE UdpTypeOK'
    OBVIOUS
  <2> USE DEF UdpTypeOK, readerVars, cleanerVars, closerVars
  <2>1. ASSUME Serve PROVE UdpTypeOK'
    BY <2>1 DEF Serve, ServeCheck, ServeNoDatagram, FindSession, DialSession,
         DialFails, StoreSession, TouchSession, WriteDatagram
  <2>2. ASSUME NEW s \in Sessions, RelayResponses(s) PROVE UdpTypeOK'
    BY <2>2 DEF RelayResponses, ResponsesCheck, RelayResponse, ResponsesTimeout, RelayError,
         RelayDelete, RelayClose
  <2>3. ASSUME NEW s \in Sessions, GoIdle(s) PROVE UdpTypeOK'
    BY <2>3 DEF GoIdle
  <2>4. ASSUME Cleanup PROVE UdpTypeOK'
    BY <2>4 DEF Cleanup, CleanTick, CleanExit, CleanVisit, CleanRangeEnd,
         CleanDelete, CleanClose
  <2>5. ASSUME StopListener PROVE UdpTypeOK'
    BY <2>5 DEF StopListener, Cancel, CloseListener, CloseVisit, CloseDelete, CloseEnd
  <2>6. CASE UNCHANGED udpVars
    BY <2>6 DEF udpVars
  <2>7. QED
    BY <2>1, <2>2, <2>3, <2>4, <2>5, <2>6 DEF UdpNext
<1>3. QED
  BY <1>1, <1>2, PTL DEF UdpSpec

-----------------------------------------------------------------------------
(* The inductive invariant.  Neither safety property is inductive: each    *)
(* needs to know where a session stands before its entry exists and after  *)
(* its entry is gone.                                                      *)

\* A table entry is a dialled session under its own client's key.
EntriesOwnTheirKey ==
    \A k \in Clients : table[k] # Nil => keyOf[table[k]] = k

\* A relay goroutine exists exactly for the sessions that were stored; the one
\* session Serve has dialled and not stored is open and only Serve knows it.
UnstoredIsPrivate ==
    /\ \A s \in Sessions : relayer[s] # "none" => Created(s)
    /\ \A s \in Sessions : s \in open => Created(s)
    /\ \A s \in Sessions : Created(s) /\ relayer[s] = "none" => server = "store" /\ cur = s
    /\ \A k \in Clients : table[k] # Nil => relayer[table[k]] # "none"
    /\ server = "store" => /\ cur \in Sessions
                          /\ Created(cur)
                          /\ cur \in open
                          /\ relayer[cur] = "none"

\* A goroutine about to close a socket has taken the entry out of the table,
\* and no Store puts it back.
DeletedBeforeClosed ==
    /\ \A s \in Sessions : relayer[s] = "close" => \A k \in Clients : table[k] # s
    /\ cleaner \in {"delete", "close"} =>
          victim \in Sessions /\ Created(victim) /\ relayer[victim] # "none"
    /\ cleaner = "close" => \A k \in Clients : table[k] # victim
    /\ closer = "delete" =>
          closing \in Sessions /\ Created(closing) /\ relayer[closing] # "none"
    /\ closer # "delete" => closing = Nil

\* A relay goroutine that returns while the engine runs has closed its socket.
ExitedIsClosed ==
    \A s \in Sessions : relayer[s] = "exited" /\ s \in open => ctxDone

UdpInv ==
    /\ UdpTypeOK
    /\ EntriesOwnTheirKey
    /\ UnstoredIsPrivate
    /\ DeletedBeforeClosed
    /\ ExitedIsClosed
    /\ TableLeadsToOpenSockets

LEMMA UdpStart == UdpInit => UdpInv
BY NilIsFresh DEF UdpInit, UdpInv, UdpTypeOK, EntriesOwnTheirKey, UnstoredIsPrivate,
   DeletedBeforeClosed, ExitedIsClosed, TableLeadsToOpenSockets, Created

LEMMA ServeKeeps == ASSUME UdpInv, Serve PROVE UdpInv'
<1> USE NilIsFresh DEF UdpInv, UdpTypeOK, EntriesOwnTheirKey, UnstoredIsPrivate,
      DeletedBeforeClosed, ExitedIsClosed, TableLeadsToOpenSockets, Created,
      cleanerVars, closerVars
<1>1. CASE ServeCheck
  BY <1>1 DEF ServeCheck
<1>2. CASE ServeNoDatagram
  BY <1>2 DEF ServeNoDatagram
<1>3. ASSUME NEW k \in Clients, FindSession(k) PROVE UdpInv'
  BY <1>3 DEF FindSession
<1>4. ASSUME NEW k \in Clients, DialFails(k) PROVE UdpInv'
  BY <1>4 DEF DialFails
<1>5. ASSUME NEW k \in Clients, NEW s \in Sessions, DialSession(k, s) PROVE UdpInv'
  BY <1>5 DEF DialSession
<1>6. CASE StoreSession
  BY <1>6 DEF StoreSession
<1>7. CASE TouchSession
  BY <1>7 DEF TouchSession
<1>8. CASE WriteDatagram
  BY <1>8 DEF WriteDatagram
<1>9. QED
  BY <1>1, <1>2, <1>3, <1>4, <1>5, <1>6, <1>7, <1>8 DEF Serve

LEMMA RelayKeeps == ASSUME UdpInv, NEW s \in Sessions, RelayResponses(s) PROVE UdpInv'
<1> USE NilIsFresh DEF UdpInv, UdpTypeOK, EntriesOwnTheirKey, UnstoredIsPrivate,
      DeletedBeforeClosed, ExitedIsClosed, TableLeadsToOpenSockets, Created,
      readerVars, cleanerVars, closerVars
<1>1. CASE ResponsesCheck(s)
  BY <1>1 DEF ResponsesCheck
<1>2. CASE RelayResponse(s)
  BY <1>2 DEF RelayResponse
<1>3. CASE ResponsesTimeout(s)
  BY <1>3 DEF ResponsesTimeout
<1>4. CASE RelayError(s)
  BY <1>4 DEF RelayError
<1>5. CASE RelayDelete(s)
  BY <1>5 DEF RelayDelete
<1>6. CASE RelayClose(s)
  BY <1>6 DEF RelayClose
<1>7. QED
  BY <1>1, <1>2, <1>3, <1>4, <1>5, <1>6 DEF RelayResponses

LEMMA CleanupKeeps == ASSUME UdpInv, Cleanup PROVE UdpInv'
<1> USE NilIsFresh DEF UdpInv, UdpTypeOK, EntriesOwnTheirKey, UnstoredIsPrivate,
      DeletedBeforeClosed, ExitedIsClosed, TableLeadsToOpenSockets, Created,
      readerVars, closerVars
<1>1. CASE CleanTick
  BY <1>1 DEF CleanTick
<1>2. CASE CleanExit
  BY <1>2 DEF CleanExit
<1>3. ASSUME NEW k \in Clients, CleanVisit(k) PROVE UdpInv'
  BY <1>3 DEF CleanVisit
<1>4. CASE CleanRangeEnd
  BY <1>4 DEF CleanRangeEnd
<1>5. CASE CleanDelete
  BY <1>5 DEF CleanDelete
<1>6. CASE CleanClose
  BY <1>6 DEF CleanClose
<1>7. QED
  BY <1>1, <1>2, <1>3, <1>4, <1>5, <1>6 DEF Cleanup

LEMMA StopKeeps == ASSUME UdpInv, StopListener PROVE UdpInv'
<1> USE NilIsFresh DEF UdpInv, UdpTypeOK, EntriesOwnTheirKey, UnstoredIsPrivate,
      DeletedBeforeClosed, ExitedIsClosed, TableLeadsToOpenSockets, Created,
      readerVars, cleanerVars
<1>1. CASE Cancel
  BY <1>1 DEF Cancel
<1>2. CASE CloseListener
  BY <1>2 DEF CloseListener
<1>3. ASSUME NEW k \in Clients, CloseVisit(k) PROVE UdpInv'
  BY <1>3 DEF CloseVisit
<1>4. CASE CloseDelete
  BY <1>4 DEF CloseDelete
<1>5. CASE CloseEnd
  BY <1>5 DEF CloseEnd
<1>6. QED
  BY <1>1, <1>2, <1>3, <1>4, <1>5 DEF StopListener

LEMMA UdpInvariance == UdpSpec => []UdpInv
<1>1. UdpInv /\ [UdpNext]_udpVars => UdpInv'
  <2> SUFFICES ASSUME UdpInv, [UdpNext]_udpVars PROVE UdpInv'
    OBVIOUS
  <2>1. ASSUME NEW s \in Sessions, GoIdle(s) PROVE UdpInv'
    BY <2>1 DEF GoIdle, UdpInv, UdpTypeOK, EntriesOwnTheirKey, UnstoredIsPrivate,
       DeletedBeforeClosed, ExitedIsClosed, TableLeadsToOpenSockets, Created,
       readerVars, cleanerVars, closerVars
  <2>2. CASE UNCHANGED udpVars
    BY <2>2 DEF udpVars, UdpInv, UdpTypeOK, EntriesOwnTheirKey, UnstoredIsPrivate,
       DeletedBeforeClosed, ExitedIsClosed, TableLeadsToOpenSockets, Created,
       readerVars, cleanerVars, closerVars
  <2>3. QED
    BY <2>1, <2>2, ServeKeeps, RelayKeeps, CleanupKeeps, StopKeeps DEF UdpNext
<1>2. QED
  BY UdpStart, <1>1, PTL DEF UdpSpec

\* The table never leads a datagram to a closed socket, whatever the number of
\* clients, of sessions and the interleaving of their goroutines.
THEOREM TableSafe == UdpSpec => []TableLeadsToOpenSockets
<1>1. UdpInv => TableLeadsToOpenSockets
  BY DEF UdpInv
<1>2. QED
  BY UdpInvariance, <1>1, PTL

\* Until the engine stops, an open backend socket always has a goroutine that
\* can still close it.
THEOREM SocketsOwned == UdpSpec => []OpenSocketHasOwner
<1>1. UdpInv => OpenSocketHasOwner
  BY DEF UdpInv, UdpTypeOK, UnstoredIsPrivate, ExitedIsClosed, OpenSocketHasOwner, Created
<1>2. QED
  BY UdpInvariance, <1>1, PTL

=============================================================================
