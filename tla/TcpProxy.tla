------------------------------ MODULE TcpProxy ------------------------------
(***************************************************************************)
(* The TCP side of the proxy engine (Security/proxy/listener.go,           *)
(* forwarder.go, proxy.go): one Serve goroutine per listener accepts       *)
(* connections; each runs handleConnection, which checks the client's      *)
(* reputation, inspects its first bytes, dials the backend and starts two  *)
(* relays; the operator may kill a live connection and the engine may be   *)
(* stopped, both at any point.                                             *)
(*                                                                         *)
(* Bytes are counted in chunks.  Of a client only its choices matter:      *)
(* whether it is blocked, whether it waits for the server's greeting.      *)
(***************************************************************************)
EXTENDS Naturals, FiniteSets

CONSTANTS
    Conns,        \* the client connections of a behaviour
    NumListeners, \* TCP listeners, in the order Stop closes them
    On,           \* On[c]: the listener that c connects to
    Blocked,      \* connections from an address over the reputation threshold
    Flagged,      \* connections whose first bytes an analyzer reports
    ServerFirst,  \* connections whose client waits for the server's greeting
    RedisAnswers, \* Redis answers within the 5 ms of the reputation check
    MaxInspect,   \* chunks per direction that the relays hand to the analyzers
    MaxChunks,    \* bound: chunks read per direction
    None

Listeners == 1..NumListeners
Dirs == {"up", "down"}              \* client to backend, backend to client

ASSUME ConstantsOK ==
    /\ IsFiniteSet(Conns)
    /\ NumListeners \in Nat
    /\ On \in [Conns -> Listeners]
    /\ Blocked \subseteq Conns
    /\ Flagged \subseteq Conns
    /\ ServerFirst \subseteq Conns
    /\ RedisAnswers \in BOOLEAN
    /\ MaxInspect \in Nat
    /\ MaxChunks \in Nat
    /\ None \notin Conns

VARIABLES
    cancelled,   \* the engine's context is cancelled
    stop,        \* where Stop is
    stopAt,      \* the listener Stop is at
    listening,   \* the listeners whose socket is open
    serve,       \* serve[l]: where the Serve goroutine of l is
    held,        \* held[l]: the connection it accepted and has not counted yet
    connWg,      \* connWg[l]: the listener's WaitGroup
    active,      \* the stats collector's number of active connections
    h,           \* h[c]: where handleConnection is
    registry,    \* activeConns: the connections the operator can see and kill
    connCancelled, \* the per-connection contexts that are cancelled
    clientOpen,  \* the client sockets the proxy has not closed
    clientGone,  \* the clients that closed or reset their end
    relay,       \* relay[c][d]: where the relay of direction d is
    bytes,       \* bytes[c][d]: BytesFromClient, BytesToClient
    seen,        \* seen[c][d]: chunks handed to the analyzers
    sent,        \* sent[c][d]: chunks written to the other end
    bumped,      \* the connections whose client's score was bumped
    reason,      \* reason[c]: CloseReason
    record,      \* record[c]: the connection records emitted for c
    kill         \* kill[c]: where KillConnection(c) is

engineVars == <<cancelled, stop, stopAt, listening>>
serveVars  == <<serve, held>>
countVars  == <<connWg, active>>
sockVars   == <<connCancelled, clientOpen>>
flowVars   == <<relay, bytes, seen, sent>>
vars == <<engineVars, serveVars, countVars, h, registry, sockVars, clientGone,
          flowVars, bumped, reason, record, kill>>

\* The relays write CloseReason without a lock.  Which of their strings is left
\* (or a mix of two) is not decided here: "relay" stands for any of them.
Reasons == {"normal", "reputation-block", "read_error", "backend_unreachable",
            "backend_write_error", "relay"}

TypeOK ==
    /\ cancelled \in BOOLEAN
    /\ stop \in {"no", "close", "wait", "stopped"}
    /\ stopAt \in 1..(NumListeners + 1)
    /\ listening \subseteq Listeners
    /\ serve \in [Listeners -> {"accept", "accepted", "exited"}]
    /\ held \in [Listeners -> Conns \cup {None}]
    /\ connWg \in [Listeners -> Nat]
    /\ active \in Nat
    /\ h \in [Conns -> {"none", "held", "start", "gate", "read", "dial", "first",
                        "relay", "emit", "unwind", "done", "uncount", "finished"}]
    /\ registry \subseteq Conns
    /\ connCancelled \subseteq Conns
    /\ clientOpen \subseteq Conns
    /\ clientGone \subseteq Conns
    /\ relay \in [Conns -> [Dirs -> {"off", "check", "read", "write", "eof", "cut"}]]
    /\ bytes \in [Conns -> [Dirs -> Nat]]
    /\ seen \in [Conns -> [Dirs -> Nat]]
    /\ sent \in [Conns -> [Dirs -> Nat]]
    /\ bumped \subseteq Conns
    /\ reason \in [Conns -> Reasons]
    /\ record \in [Conns -> SUBSET [reason : Reasons, up : Nat, down : Nat]]
    /\ kill \in [Conns -> {"none", "cancel", "close", "done"}]

Zero == [d \in Dirs |-> 0]

Init ==
    /\ cancelled = FALSE
    /\ stop = "no"
    /\ stopAt = 1
    /\ listening = Listeners
    /\ serve = [l \in Listeners |-> "accept"]
    /\ held = [l \in Listeners |-> None]
    /\ connWg = [l \in Listeners |-> 0]
    /\ active = 0
    /\ h = [c \in Conns |-> "none"]
    /\ registry = {}
    /\ connCancelled = {}
    /\ clientOpen = Conns
    /\ clientGone = {}
    /\ relay = [c \in Conns |-> [d \in Dirs |-> "off"]]
    /\ bytes = [c \in Conns |-> Zero]
    /\ seen = [c \in Conns |-> Zero]
    /\ sent = [c \in Conns |-> Zero]
    /\ bumped = {}
    /\ reason = [c \in Conns |-> "normal"]
    /\ record = [c \in Conns |-> {}]
    /\ kill = [c \in Conns |-> "none"]

\* Mutant: Forward is handed the engine's context, not the connection's.
DoneEngineOnly(c) == cancelled

\* The connection's own context, which derives from the engine's.
Done(c) == cancelled \/ c \in connCancelled

-----------------------------------------------------------------------------
(* Serve.                                                                  *)

Accept(l, c) ==
    /\ serve[l] = "accept"
    /\ l \in listening
    /\ On[c] = l
    /\ h[c] = "none"
    /\ h' = [h EXCEPT ![c] = "held"]
    /\ held' = [held EXCEPT ![l] = c]
    /\ serve' = [serve EXCEPT ![l] = "accepted"]
    /\ UNCHANGED <<engineVars, countVars, registry, sockVars, clientGone,
                   flowVars, bumped, reason, record, kill>>

\* active.Add, IncrementActive, connWg.Add and the start of the goroutine.
CountAndSpawn(l) ==
    /\ serve[l] = "accepted"
    /\ connWg' = [connWg EXCEPT ![l] = @ + 1]
    /\ active' = active + 1
    /\ h' = [h EXCEPT ![held[l]] = "start"]
    /\ held' = [held EXCEPT ![l] = None]
    /\ serve' = [serve EXCEPT ![l] = "accept"]
    /\ UNCHANGED <<engineVars, registry, sockVars, clientGone, flowVars,
                   bumped, reason, record, kill>>

\* Accept fails on the closed socket, and the context is cancelled by then.
ServeExit(l) ==
    /\ serve[l] = "accept"
    /\ l \notin listening
    /\ cancelled
    /\ serve' = [serve EXCEPT ![l] = "exited"]
    /\ UNCHANGED <<engineVars, held, countVars, h, registry, sockVars, clientGone,
                   flowVars, bumped, reason, record, kill>>

-----------------------------------------------------------------------------
(* handleConnection.                                                       *)

\* handleConnection moves on, or sets a close reason and goes to its emitClose.
Goto(c, pc) == h' = [h EXCEPT ![c] = pc] /\ UNCHANGED reason
GiveUp(c, why) == h' = [h EXCEPT ![c] = "emit"] /\ reason' = [reason EXCEPT ![c] = why]

Register(c) ==
    /\ h[c] = "start"
    /\ registry' = registry \cup {c}
    /\ Goto(c, "gate")
    /\ UNCHANGED <<engineVars, serveVars, countVars, sockVars, clientGone,
                   flowVars, bumped, record, kill>>

\* ShouldShortCircuit asks Redis under a context derived from the engine's: an
\* error of any kind, a cancelled context included, lets the client through.
ShouldShortCircuit(c) == RedisAnswers /\ ~cancelled /\ c \in Blocked

CheckReputation(c) ==
    /\ h[c] = "gate"
    /\ \/ ShouldShortCircuit(c) /\ GiveUp(c, "reputation-block")
       \/ ~ShouldShortCircuit(c) /\ Goto(c, "read")
    /\ UNCHANGED <<engineVars, serveVars, countVars, registry, sockVars,
                   clientGone, flowVars, bumped, record, kill>>

\* len(ConnContext.detections).  What an analyzer reports goes to the bus: the
\* one method that appends to the list, AddDetection, has no caller.
DetectionCount(c) == 0

\* The first bytes arrive within 5 seconds and are analyzed.
FirstRead(c) ==
    /\ h[c] = "read"
    /\ c \in clientOpen
    /\ c \notin clientGone \cup ServerFirst
    /\ seen' = [seen EXCEPT ![c]["up"] = @ + 1]
    /\ bumped' = IF DetectionCount(c) > 0 THEN bumped \cup {c} ELSE bumped
    /\ Goto(c, "dial")
    /\ UNCHANGED <<engineVars, serveVars, countVars, registry, sockVars,
                   clientGone, relay, bytes, sent, record, kill>>

\* EOF, reset, a socket closed by KillConnection, or 5 seconds of silence.
FirstReadFails(c) ==
    /\ h[c] = "read"
    /\ GiveUp(c, "read_error")
    /\ UNCHANGED <<engineVars, serveVars, countVars, registry, sockVars,
                   clientGone, flowVars, bumped, record, kill>>

Dial(c) ==
    /\ h[c] = "dial"
    /\ Goto(c, "first") \/ GiveUp(c, "backend_unreachable")
    /\ UNCHANGED <<engineVars, serveVars, countVars, registry, sockVars,
                   clientGone, flowVars, bumped, record, kill>>

\* The bytes already read go to the backend first; Forward starts both relays.
WriteInitial(c) ==
    /\ h[c] = "first"
    /\ sent' = [sent EXCEPT ![c]["up"] = @ + 1]
    /\ bytes' = [bytes EXCEPT ![c]["up"] = 1]
    /\ relay' = [relay EXCEPT ![c] = [d \in Dirs |-> "check"]]
    /\ Goto(c, "relay")
    /\ UNCHANGED <<engineVars, serveVars, countVars, registry, sockVars,
                   clientGone, seen, bumped, record, kill>>

WriteInitialFails(c) ==
    /\ h[c] = "first"
    /\ GiveUp(c, "backend_write_error")
    /\ UNCHANGED <<engineVars, serveVars, countVars, registry, sockVars,
                   clientGone, flowVars, bumped, record, kill>>

\* Mutant: wg.Add(1) in Forward: the first direction to end ends the wait.
RelaysJoinedFirst(c) ==
    /\ h[c] = "relay"
    /\ \E d \in Dirs : relay[c][d] \in {"eof", "cut"}
    /\ Goto(c, "emit")
    /\ UNCHANGED <<engineVars, serveVars, countVars, registry, sockVars,
                   clientGone, flowVars, bumped, record, kill>>

\* Forward's wg.Wait, and AnalyzeClose.
RelaysJoined(c) ==
    /\ h[c] = "relay"
    /\ \A d \in Dirs : relay[c][d] \in {"eof", "cut"}
    /\ Goto(c, "emit")
    /\ UNCHANGED <<engineVars, serveVars, countVars, registry, sockVars,
                   clientGone, flowVars, bumped, record, kill>>

emitClose(c) ==
    /\ h[c] = "emit"
    /\ record' = [record EXCEPT ![c] = @ \cup
            {[reason |-> reason[c], up |-> bytes[c]["up"], down |-> bytes[c]["down"]]}]
    /\ Goto(c, "unwind")
    /\ UNCHANGED <<engineVars, serveVars, countVars, registry, sockVars,
                   clientGone, flowVars, bumped, kill>>

\* The deferred calls: UnregisterConn, connCancel, clientConn.Close.
Unwind(c) ==
    /\ h[c] = "unwind"
    /\ registry' = registry \ {c}
    /\ connCancelled' = connCancelled \cup {c}
    /\ clientOpen' = clientOpen \ {c}
    /\ Goto(c, "done")
    /\ UNCHANGED <<engineVars, serveVars, countVars, clientGone, flowVars,
                   bumped, record, kill>>

\* The goroutine's own defer: connWg.Done first, the counters after it.
WgDone(c) ==
    /\ h[c] = "done"
    /\ connWg' = [connWg EXCEPT ![On[c]] = @ - 1]
    /\ Goto(c, "uncount")
    /\ UNCHANGED <<engineVars, serveVars, active, registry, sockVars, clientGone,
                   flowVars, bumped, record, kill>>

Uncount(c) ==
    /\ h[c] = "uncount"
    /\ active' = active - 1
    /\ Goto(c, "finished")
    /\ UNCHANGED <<engineVars, serveVars, connWg, registry, sockVars, clientGone,
                   flowVars, bumped, record, kill>>

Handle(c) ==
    \/ Register(c)
    \/ CheckReputation(c)
    \/ FirstRead(c)
    \/ FirstReadFails(c)
    \/ Dial(c)
    \/ WriteInitial(c)
    \/ WriteInitialFails(c)
    \/ RelaysJoined(c)
    \/ emitClose(c)
    \/ Unwind(c)
    \/ WgDone(c)
    \/ Uncount(c)

-----------------------------------------------------------------------------
(* Forwarder.relay.  "eof" is its only return that leaves CloseReason.     *)

RelayGoto(c, d, pc) == relay' = [relay EXCEPT ![c][d] = pc] /\ UNCHANGED reason
RelayCut(c, d) ==
    /\ relay' = [relay EXCEPT ![c][d] = "cut"]
    /\ reason' = [reason EXCEPT ![c] = "relay"]

\* The socket a relay reads, and the one it writes, as far as the proxy closes
\* them while the relays run: only the client's, by KillConnection.
SourceClosed(c, d) == d = "up" /\ c \notin clientOpen
TargetClosed(c, d) == d = "down" /\ c \notin clientOpen

RelayCheck(c, d) ==
    /\ relay[c][d] = "check"
    /\ \/ Done(c) /\ RelayCut(c, d)
       \/ ~Done(c) /\ RelayGoto(c, d, "read")
    /\ UNCHANGED <<engineVars, serveVars, countVars, h, registry, sockVars,
                   clientGone, bytes, seen, sent, bumped, record, kill>>

\* What the relay of direction d has handed to the analyzers; FirstRead's chunk
\* does not count.
Inspected(c, d) == IF d = "up" THEN seen[c][d] - 1 ELSE seen[c][d]

RelayData(c, d) ==
    /\ relay[c][d] = "read"
    /\ ~SourceClosed(c, d)
    /\ d = "up" => c \notin clientGone
    /\ bytes[c][d] < MaxChunks
    /\ bytes' = [bytes EXCEPT ![c][d] = @ + 1]
    /\ seen' = IF Inspected(c, d) < MaxInspect
               THEN [seen EXCEPT ![c][d] = @ + 1] ELSE seen
    /\ RelayGoto(c, d, "write")
    /\ UNCHANGED <<engineVars, serveVars, countVars, h, registry, sockVars,
                   clientGone, sent, bumped, record, kill>>

\* The 60-second read deadline: on to the next read unless cancelled.
RelayTimeout(c, d) ==
    /\ relay[c][d] = "read"
    /\ ~SourceClosed(c, d)
    /\ \/ Done(c) /\ RelayCut(c, d)
       \/ ~Done(c) /\ RelayGoto(c, d, "check")
    /\ UNCHANGED <<engineVars, serveVars, countVars, h, registry, sockVars,
                   clientGone, bytes, seen, sent, bumped, record, kill>>

\* The peer ended its direction, or failed; a closed source always fails.
RelayReadEnds(c, d) ==
    /\ relay[c][d] = "read"
    /\ d = "up" => c \in clientGone \/ c \notin clientOpen
    /\ \/ ~SourceClosed(c, d) /\ RelayGoto(c, d, "eof")
       \/ RelayCut(c, d)
    /\ UNCHANGED <<engineVars, serveVars, countVars, h, registry, sockVars,
                   clientGone, bytes, seen, sent, bumped, record, kill>>

\* dst.Write has no deadline: it returns when the peer takes the chunk ...
RelayWrite(c, d) ==
    /\ relay[c][d] = "write"
    /\ ~TargetClosed(c, d)
    /\ sent' = [sent EXCEPT ![c][d] = @ + 1]
    /\ RelayGoto(c, d, "check")
    /\ UNCHANGED <<engineVars, serveVars, countVars, h, registry, sockVars,
                   clientGone, bytes, seen, bumped, record, kill>>

\* ... or when its socket fails.
RelayWriteFails(c, d) ==
    /\ relay[c][d] = "write"
    /\ RelayCut(c, d)
    /\ UNCHANGED <<engineVars, serveVars, countVars, h, registry, sockVars,
                   clientGone, bytes, seen, sent, bumped, record, kill>>

Relay(c, d) ==
    \/ RelayCheck(c, d)
    \/ RelayData(c, d)
    \/ RelayTimeout(c, d)
    \/ RelayReadEnds(c, d)
    \/ RelayWrite(c, d)
    \/ RelayWriteFails(c, d)

-----------------------------------------------------------------------------
(* The operator's KillConnection and the engine's Stop.                    *)

\* The connection is in the registry and CloseOnce runs; a second call finds
\* the Once used and returns false.
KillLoad(c) ==
    /\ c \in registry
    /\ kill[c] = "none"
    /\ kill' = [kill EXCEPT ![c] = "cancel"]
    /\ UNCHANGED <<engineVars, serveVars, countVars, h, registry, sockVars,
                   clientGone, flowVars, bumped, reason, record>>

KillCancel(c) ==
    /\ kill[c] = "cancel"
    /\ connCancelled' = connCancelled \cup {c}
    /\ kill' = [kill EXCEPT ![c] = "close"]
    /\ UNCHANGED <<engineVars, serveVars, countVars, h, registry, clientOpen,
                   clientGone, flowVars, bumped, reason, record>>

KillClose(c) ==
    /\ kill[c] = "close"
    /\ clientOpen' = clientOpen \ {c}
    /\ kill' = [kill EXCEPT ![c] = "done"]
    /\ UNCHANGED <<engineVars, serveVars, countVars, h, registry, connCancelled,
                   clientGone, flowVars, bumped, reason, record>>

StopCancel ==
    /\ stop = "no"
    /\ cancelled' = TRUE
    /\ stop' = "close"
    /\ UNCHANGED <<stopAt, listening, serveVars, countVars, h, registry, sockVars,
                   clientGone, flowVars, bumped, reason, record, kill>>

\* TCPListener.Close of the listeners in turn: close the socket ...
StopCloseListener ==
    /\ stop = "close"
    /\ stopAt \in Listeners
    /\ listening' = listening \ {stopAt}
    /\ stop' = "wait"
    /\ UNCHANGED <<cancelled, stopAt, serveVars, countVars, h, registry, sockVars,
                   clientGone, flowVars, bumped, reason, record, kill>>

\* ... and wait for its connections.
StopWaitConns ==
    /\ stop = "wait"
    /\ connWg[stopAt] = 0
    /\ stopAt' = stopAt + 1
    /\ stop' = "close"
    /\ UNCHANGED <<cancelled, listening, serveVars, countVars, h, registry,
                   sockVars, clientGone, flowVars, bumped, reason, record, kill>>

\* p.wg.Wait: every Serve has returned.
StopJoin ==
    /\ stop = "close"
    /\ stopAt \notin Listeners
    /\ \A l \in Listeners : serve[l] = "exited"
    /\ stop' = "stopped"
    /\ UNCHANGED <<cancelled, stopAt, listening, serveVars, countVars, h, registry,
                   sockVars, clientGone, flowVars, bumped, reason, record, kill>>

Stop == StopCancel \/ StopCloseListener \/ StopWaitConns \/ StopJoin

-----------------------------------------------------------------------------
\* The client closes or resets its end (which shows only in a read of it).
ClientLeaves(c) ==
    /\ h[c] \in {"read", "relay"}
    /\ clientGone' = clientGone \cup {c}
    /\ UNCHANGED <<engineVars, serveVars, countVars, h, registry, sockVars,
                   flowVars, bumped, reason, record, kill>>

\* Stop has returned and nothing is left running.
Quiescent ==
    /\ stop = "stopped"
    /\ \A c \in Conns : h[c] \in {"none", "finished"} /\ kill[c] \in {"none", "done"}

Next ==
    \/ \E l \in Listeners :
          \/ \E c \in Conns : Accept(l, c)
          \/ CountAndSpawn(l)
          \/ ServeExit(l)
    \/ \E c \in Conns :
          \/ Handle(c)
          \/ \E d \in Dirs : Relay(c, d)
          \/ KillLoad(c)
          \/ KillCancel(c)
          \/ KillClose(c)
          \/ ClientLeaves(c)
    \/ Stop
    \/ Quiescent /\ UNCHANGED vars

\* The program's own steps: reads have deadlines, a dial and a reputation check
\* too, and the first write fits the socket buffer of a fresh connection.  A
\* relay's write owes nothing unless its socket is closed.
Fairness ==
    /\ \A l \in Listeners : WF_vars(CountAndSpawn(l)) /\ WF_vars(ServeExit(l))
    /\ \A c \in Conns :
          /\ WF_vars(Handle(c))
          /\ WF_vars(KillCancel(c) \/ KillClose(c))
          /\ \A d \in Dirs :
                /\ WF_vars(relay[c][d] # "write" /\ Relay(c, d))
                /\ WF_vars(TargetClosed(c, d) /\ RelayWriteFails(c, d))
    /\ WF_vars(stop # "no" /\ Stop)

\* The peers take what is written to them, or fail.
PeersDrain ==
    \A c \in Conns : \A d \in Dirs : WF_vars(RelayWrite(c, d) \/ RelayWriteFails(c, d))

Spec == Init /\ [][Next]_vars
FairSpec == Spec /\ Fairness
DrainSpec == FairSpec /\ PeersDrain

-----------------------------------------------------------------------------
(* Properties.                                                             *)

\* The connections of l whose goroutine has not called connWg.Done, and all
\* those whose goroutine has not returned.
Running(l) == {c \in Conns : On[c] = l /\ h[c] \notin {"none", "held", "uncount", "finished"}}
Live == {c \in Conns : h[c] \notin {"none", "held", "finished"}}

\* Every path of handleConnection emits exactly one connection record, and
\* emits it only when nothing can move a byte of the connection any more: the
\* counts in the record are the final ones.
RecordIsFinal ==
    \A c \in Conns :
        IF h[c] \in {"unwind", "done", "uncount", "finished"}
        THEN record[c] = {[reason |-> reason[c], up |-> bytes[c]["up"],
                           down |-> bytes[c]["down"]]}
        ELSE record[c] = {}

\* A record that says "normal" is one of a connection whose two directions both
\* ended in EOF: no kill, shutdown, reset or failed write hides behind it.
NormalMeansBothEnded ==
    \A c \in Conns : \A r \in record[c] :
        r.reason = "normal" => \A d \in Dirs : relay[c][d] = "eof"

\* No chunk reaches the other end before the analyzers had it, up to the
\* inspection limit of its direction.
InspectedBeforeForwarded ==
    \A c \in Conns : \A d \in Dirs :
        sent[c][d] > seen[c][d] => Inspected(c, d) >= MaxInspect

\* While Redis answers, bytes of a client over the reputation threshold reach
\* the backend only when its check ran after the engine began to stop.
GateBeforeBackend ==
    \A c \in Blocked : RedisAnswers /\ sent[c]["up"] > 0 => cancelled

\* The WaitGroup that Stop waits on counts exactly the running handlers, and
\* the statistics at least those: neither loses a connection on any path.
CountsMatchHandlers ==
    /\ \A l \in Listeners : connWg[l] = Cardinality(Running(l))
    /\ active = Cardinality(Live)

\* What the operator sees is alive: a registered connection still has its
\* handler, and once a kill has gone through its client socket stays closed
\* and no byte of the client is read.
KillIsFinal ==
    [][\A c \in Conns : kill[c] = "done" =>
          /\ c \notin clientOpen'
          /\ bytes'[c]["up"] = bytes[c]["up"] \/ h[c] = "first"]_vars

\* A connection the operator killed comes to its end, whatever its peers do, but
\* for one case: for ever, its first relay waits in a write to a backend that
\* does not read.  Nothing else of it hangs, the write to the client included.
KilledConnectionEnds ==
    \A c \in Conns :
        <>[](kill[c] = "done" => h[c] = "finished" \/ relay[c]["up"] = "write")

\* Not so without the exception: the kill closes no socket of the backend.
KilledAlwaysEnds == \A c \in Conns : kill[c] = "done" ~> h[c] = "finished"

\* Stop returns, if the peers take what is written to them.
StopReturns == cancelled ~> stop = "stopped"

\* "waits for connections to drain": when Stop has returned, no connection is
\* being handled.
StoppedIsDrained ==
    stop = "stopped" => \A c \in Conns : h[c] \in {"none", "uncount", "finished"}

\* The proxy serves protocols whose server speaks first: it does not give up
\* with a read error on a client that is there and waits for its greeting.
PatientClientIsServed ==
    \A c \in ServerFirst : \A r \in record[c] :
        r.reason = "read_error" => c \in clientGone \/ kill[c] # "none"

\* "Bump IP reputation score based on Tier-1 detection severity": a client
\* whose first bytes an analyzer reported has its score bumped before its
\* backend is dialled.
FlaggedClientIsBumped ==
    \A c \in Flagged : seen[c]["up"] > 0 => c \in bumped

=============================================================================
