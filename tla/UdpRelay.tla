------------------------------ MODULE UdpRelay ------------------------------
(***************************************************************************)
(* The UDP listener of the proxy (Security/proxy/listener.go): the table   *)
(* of client sessions that three kinds of goroutine share without a common *)
(* lock.  Serve reads datagrams and creates sessions; the relayResponses   *)
(* goroutine of a session deletes the table entry BY KEY when its socket   *)
(* fails; cleanupSessions deletes idle entries every 30 seconds.           *)
(*                                                                         *)
(* The table is a sync.Map: a Load, a Store, a Delete and each visit of a  *)
(* Range is atomic, and nothing spans two of them.                         *)
(***************************************************************************)
EXTENDS Naturals

CONSTANTS
    Clients,     \* client addresses: the keys of the session table
    Sessions,    \* the udpSession objects a behaviour may create (a bound)
    Nil          \* no session, no client

ASSUME NilIsFresh == Nil \notin Sessions /\ Nil \notin Clients

VARIABLES
    table,       \* table[k]: the session stored under key k, or Nil
    keyOf,       \* keyOf[s]: the client of session s, Nil before it is dialled
    open,        \* the sessions whose backendConn is open
    idle,        \* the sessions whose lastActive is over two minutes old
    relayer,     \* relayer[s]: where the relayResponses goroutine of s is
    server,      \* where the Serve goroutine is
    cur,         \* the session the current datagram goes to
    cleaner,     \* where the cleanupSessions goroutine is
    visit,       \* the keys the cleaner's Range has left
    victim,      \* the session the cleaner has found idle
    ctxDone,     \* the engine's context is cancelled
    closer,      \* where the goroutine that runs Stop is inside Close
    toClose,     \* the keys the Range of Close has left
    closing      \* the session whose socket that Range has just closed

readerVars  == <<server, cur>>
cleanerVars == <<cleaner, visit, victim>>
closerVars  == <<ctxDone, closer, toClose, closing>>
udpVars == <<table, keyOf, open, idle, relayer, readerVars, cleanerVars, closerVars>>

UdpTypeOK ==
    /\ table \in [Clients -> Sessions \cup {Nil}]
    /\ keyOf \in [Sessions -> Clients \cup {Nil}]
    /\ open \subseteq Sessions
    /\ idle \subseteq Sessions
    /\ relayer \in [Sessions -> {"none", "check", "read", "delete", "close", "exited"}]
    /\ server \in {"check", "read", "store", "touch", "write", "exited"}
    /\ cur \in Sessions \cup {Nil}
    /\ cleaner \in {"wait", "range", "delete", "close", "exited"}
    /\ visit \subseteq Clients
    /\ victim \in Sessions \cup {Nil}
    /\ ctxDone \in BOOLEAN
    /\ closer \in {"idle", "cancelled", "range", "delete", "closed"}
    /\ toClose \subseteq Clients
    /\ closing \in Sessions \cup {Nil}

Created(s) == keyOf[s] # Nil

\* The listener's own socket, closed by the first statement of Close.
ListenerOpen == closer \in {"idle", "cancelled"}

UdpInit ==
    /\ table = [k \in Clients |-> Nil]
    /\ keyOf = [s \in Sessions |-> Nil]
    /\ open = {}
    /\ idle = {}
    /\ relayer = [s \in Sessions |-> "none"]
    /\ server = "check"
    /\ cur = Nil
    /\ cleaner = "wait"
    /\ visit = {}
    /\ victim = Nil
    /\ ctxDone = FALSE
    /\ closer = "idle"
    /\ toClose = {}
    /\ closing = Nil

-----------------------------------------------------------------------------
(* Serve and forwardDatagram.                                              *)

ServeCheck ==
    /\ server = "check"
    /\ server' = IF ctxDone THEN "exited" ELSE "read"
    /\ UNCHANGED <<table, keyOf, open, idle, relayer, cur, cleanerVars, closerVars>>

\* The one-second read deadline, or the error of a closed listener socket:
\* Serve goes back to its check of the context (an error without a cancelled
\* context is logged and does the same).
ServeNoDatagram ==
    /\ server = "read"
    /\ server' = IF ~ListenerOpen /\ ctxDone THEN "exited" ELSE "check"
    /\ UNCHANGED <<table, keyOf, open, idle, relayer, cur, cleanerVars, closerVars>>

\* A datagram of k whose session is in the table.
FindSession(k) ==
    /\ server = "read"
    /\ ListenerOpen
    /\ table[k] # Nil
    /\ cur' = table[k]
    /\ server' = "touch"
    /\ UNCHANGED <<table, keyOf, open, idle, relayer, cleanerVars, closerVars>>

\* A datagram of k without a session: DialUDP opens a socket for a new one,
\* which the table does not hold yet.
DialSession(k, s) ==
    /\ server = "read"
    /\ ListenerOpen
    /\ table[k] = Nil
    /\ ~Created(s)
    /\ keyOf' = [keyOf EXCEPT ![s] = k]
    /\ open' = open \cup {s}
    /\ cur' = s
    /\ server' = "store"
    /\ UNCHANGED <<table, idle, relayer, cleanerVars, closerVars>>

\* The backend address does not resolve or DialUDP fails: the datagram is
\* dropped.
DialFails(k) ==
    /\ server = "read"
    /\ ListenerOpen
    /\ table[k] = Nil
    /\ server' = "check"
    /\ UNCHANGED <<table, keyOf, open, idle, relayer, cur, cleanerVars, closerVars>>

\* sessions.Store, and the start of the session's relay goroutine.
StoreSession ==
    /\ server = "store"
    /\ table' = [table EXCEPT ![keyOf[cur]] = cur]
    /\ relayer' = [relayer EXCEPT ![cur] = "check"]
    /\ server' = "touch"
    /\ UNCHANGED <<keyOf, open, idle, cur, cleanerVars, closerVars>>

TouchSession ==
    /\ server = "touch"
    /\ idle' = idle \ {cur}
    /\ server' = "write"
    /\ UNCHANGED <<table, keyOf, open, relayer, cur, cleanerVars, closerVars>>

\* The write to the backend; an error is logged and the datagram is lost.
WriteDatagram ==
    /\ server = "write"
    /\ server' = "check"
    /\ cur' = Nil
    /\ UNCHANGED <<table, keyOf, open, idle, relayer, cleanerVars, closerVars>>

Serve ==
    \/ ServeCheck
    \/ ServeNoDatagram
    \/ \E k \in Clients :
          \/ FindSession(k)
          \/ DialFails(k)
          \/ \E s \in Sessions : DialSession(k, s)
    \/ StoreSession
    \/ TouchSession
    \/ WriteDatagram

-----------------------------------------------------------------------------
(* relayResponses.                                                         *)

\* Mutant: the relay loop has no check of the context.
ResponsesIgnoreContext(s) ==
    /\ relayer[s] = "check"
    /\ relayer' = [relayer EXCEPT ![s] = "read"]
    /\ UNCHANGED <<table, keyOf, open, idle, readerVars, cleanerVars, closerVars>>

\* A cancelled context ends the goroutine: it neither deletes the entry nor
\* closes the socket.
ResponsesCheck(s) ==
    /\ relayer[s] = "check"
    /\ relayer' = [relayer EXCEPT ![s] = IF ctxDone THEN "exited" ELSE "read"]
    /\ UNCHANGED <<table, keyOf, open, idle, readerVars, cleanerVars, closerVars>>

\* A response is written to the client (an error of that write is logged);
\* lastActive is not refreshed.
RelayResponse(s) ==
    /\ relayer[s] = "read"
    /\ s \in open
    /\ relayer' = [relayer EXCEPT ![s] = "check"]
    /\ UNCHANGED <<table, keyOf, open, idle, readerVars, cleanerVars, closerVars>>

\* The 30-second read deadline passes: an idle session is torn down.
ResponsesTimeout(s) ==
    /\ relayer[s] = "read"
    /\ s \in open
    /\ relayer' = [relayer EXCEPT ![s] = IF s \in idle THEN "delete" ELSE "check"]
    /\ UNCHANGED <<table, keyOf, open, idle, readerVars, cleanerVars, closerVars>>

\* The read fails: another goroutine closed the socket, or the backend
\* refused the datagram.
RelayError(s) ==
    /\ relayer[s] = "read"
    /\ relayer' = [relayer EXCEPT ![s] = "delete"]
    /\ UNCHANGED <<table, keyOf, open, idle, readerVars, cleanerVars, closerVars>>

\* Mutant: the error path returns without closing the session's socket.
RelayDeleteReturns(s) ==
    /\ relayer[s] = "delete"
    /\ table' = [table EXCEPT ![keyOf[s]] = Nil]
    /\ relayer' = [relayer EXCEPT ![s] = "exited"]
    /\ UNCHANGED <<keyOf, open, idle, readerVars, cleanerVars, closerVars>>

\* sessions.Delete(key): whatever session the key leads to by now.
RelayDelete(s) ==
    /\ relayer[s] = "delete"
    /\ table' = [table EXCEPT ![keyOf[s]] = Nil]
    /\ relayer' = [relayer EXCEPT ![s] = "close"]
    /\ UNCHANGED <<keyOf, open, idle, readerVars, cleanerVars, closerVars>>

RelayClose(s) ==
    /\ relayer[s] = "close"
    /\ open' = open \ {s}
    /\ relayer' = [relayer EXCEPT ![s] = "exited"]
    /\ UNCHANGED <<table, keyOf, idle, readerVars, cleanerVars, closerVars>>

RelayResponses(s) ==
    \/ ResponsesCheck(s)
    \/ RelayResponse(s)
    \/ ResponsesTimeout(s)
    \/ RelayError(s)
    \/ RelayDelete(s)
    \/ RelayClose(s)

-----------------------------------------------------------------------------
(* cleanupSessions.                                                        *)

CleanTick ==
    /\ cleaner = "wait"
    /\ cleaner' = "range"
    /\ visit' = Clients
    /\ UNCHANGED <<table, keyOf, open, idle, relayer, readerVars, victim, closerVars>>

CleanExit ==
    /\ cleaner = "wait"
    /\ ctxDone
    /\ cleaner' = "exited"
    /\ UNCHANGED <<table, keyOf, open, idle, relayer, readerVars, visit, victim, closerVars>>

\* Range visits k; the idle time is read under the session's lock, which is
\* released before the entry is deleted.
CleanVisit(k) ==
    /\ cleaner = "range"
    /\ k \in visit
    /\ visit' = visit \ {k}
    /\ \/ /\ table[k] # Nil
          /\ table[k] \in idle
          /\ victim' = table[k]
          /\ cleaner' = "delete"
       \/ /\ table[k] # Nil => table[k] \notin idle
          /\ UNCHANGED <<cleaner, victim>>
    /\ UNCHANGED <<table, keyOf, open, idle, relayer, readerVars, closerVars>>

CleanRangeEnd ==
    /\ cleaner = "range"
    /\ visit = {}
    /\ cleaner' = "wait"
    /\ UNCHANGED <<table, keyOf, open, idle, relayer, readerVars, visit, victim, closerVars>>

CleanDelete ==
    /\ cleaner = "delete"
    /\ table' = [table EXCEPT ![keyOf[victim]] = Nil]
    /\ cleaner' = "close"
    /\ UNCHANGED <<keyOf, open, idle, relayer, readerVars, visit, victim, closerVars>>

CleanClose ==
    /\ cleaner = "close"
    /\ open' = open \ {victim}
    /\ victim' = Nil
    /\ cleaner' = "range"
    /\ UNCHANGED <<table, keyOf, idle, relayer, readerVars, visit, closerVars>>

Cleanup ==
    \/ CleanTick
    \/ CleanExit
    \/ \E k \in Clients : CleanVisit(k)
    \/ CleanRangeEnd
    \/ CleanDelete
    \/ CleanClose

-----------------------------------------------------------------------------
(* ProxyEngine.Stop: the context is cancelled first, then Close runs.      *)

Cancel ==
    /\ closer = "idle"
    /\ closer' = "cancelled"
    /\ ctxDone' = TRUE
    /\ UNCHANGED <<table, keyOf, open, idle, relayer, readerVars, cleanerVars, toClose, closing>>

CloseListener ==
    /\ closer = "cancelled"
    /\ closer' = "range"
    /\ toClose' = Clients
    /\ UNCHANGED <<table, keyOf, open, idle, relayer, readerVars, cleanerVars, ctxDone, closing>>

CloseVisit(k) ==
    /\ closer = "range"
    /\ k \in toClose
    /\ toClose' = toClose \ {k}
    /\ \/ /\ table[k] # Nil
          /\ open' = open \ {table[k]}
          /\ closing' = table[k]
          /\ closer' = "delete"
       \/ /\ table[k] = Nil
          /\ UNCHANGED <<open, closing, closer>>
    /\ UNCHANGED <<table, keyOf, idle, relayer, readerVars, cleanerVars, ctxDone>>

CloseDelete ==
    /\ closer = "delete"
    /\ table' = [table EXCEPT ![keyOf[closing]] = Nil]
    /\ closing' = Nil
    /\ closer' = "range"
    /\ UNCHANGED <<keyOf, open, idle, relayer, readerVars, cleanerVars, ctxDone, toClose>>

CloseEnd ==
    /\ closer = "range"
    /\ toClose = {}
    /\ closer' = "closed"
    /\ UNCHANGED <<table, keyOf, open, idle, relayer, readerVars, cleanerVars, ctxDone, toClose, closing>>

StopListener ==
    \/ Cancel
    \/ CloseListener
    \/ \E k \in Clients : CloseVisit(k)
    \/ CloseDelete
    \/ CloseEnd

-----------------------------------------------------------------------------
(* Two minutes pass without a datagram of the session's client.  Handling  *)
(* one datagram takes far less, so the current session stays fresh.        *)
GoIdle(s) ==
    /\ Created(s)
    /\ s # cur
    /\ idle' = idle \cup {s}
    /\ UNCHANGED <<table, keyOf, open, relayer, readerVars, cleanerVars, closerVars>>

\* Every goroutine has returned.
AllReturned ==
    /\ server = "exited"
    /\ cleaner = "exited"
    /\ closer = "closed"
    /\ \A s \in Sessions : relayer[s] \in {"none", "exited"}

UdpNext ==
    \/ Serve
    \/ \E s \in Sessions : RelayResponses(s) \/ GoIdle(s)
    \/ Cleanup
    \/ StopListener
    \/ AllReturned /\ UNCHANGED udpVars

\* Every goroutine is scheduled and every read has a deadline; select takes
\* the cancelled context at last, for ticks are 30 seconds apart.  Clients,
\* backends and the operator who stops the engine owe nothing.
UdpFairness ==
    /\ WF_udpVars(Serve)
    /\ WF_udpVars(Cleanup)
    /\ SF_udpVars(CleanExit)
    /\ \A s \in Sessions : WF_udpVars(RelayResponses(s))
    /\ WF_udpVars(closer # "idle" /\ StopListener)

UdpSpec == UdpInit /\ [][UdpNext]_udpVars
UdpFairSpec == UdpSpec /\ UdpFairness

-----------------------------------------------------------------------------
(* Properties.                                                             *)

\* The table never leads a datagram to a socket that is already closed: both
\* goroutines that end a session delete its entry before they close its
\* socket, in every interleaving with the Store of a newer session.  Only
\* Close, which runs after the context is cancelled, does it the other way.
TableLeadsToOpenSockets ==
    \A k \in Clients :
        table[k] # Nil => table[k] \in open \/ table[k] = closing

\* An open socket is never out of reach before shutdown: the table leads to
\* it, Serve is about to store it, or its relay goroutine still runs and will
\* close it when it fails.
OpenSocketHasOwner ==
    \A s \in open :
        \/ ctxDone
        \/ \E k \in Clients : table[k] = s
        \/ server = "store" /\ cur = s
        \/ relayer[s] \notin {"none", "exited"}

\* A session of the table that stays idle is closed by the cleaner within a
\* Range, unless another goroutine takes its entry away first or the engine
\* stops: one visit per tick suffices whatever the relays and Serve do.
IdleSessionsAreClosed ==
    \A k \in Clients : \A s \in Sessions :
        (table[k] = s /\ s \in idle /\ s \in open)
            ~> (table[k] # s \/ s \notin idle \/ ctxDone)

\* After a shutdown that was asked for, Serve, the cleaner and every relay
\* return: no goroutine waits for a peer that is gone.
StopEndsEveryGoroutine ==
    ctxDone ~> AllReturned

\* A session at work: its relay reads, and nobody has begun to close it.
AtWork(s) == s \in open /\ relayer[s] = "read" /\ s # victim /\ s # closing

\* "udpSession tracks a single client's UDP session": a client never has two
\* sessions at work.
OneSessionPerClient ==
    \A s, t \in Sessions : (AtWork(s) /\ AtWork(t) /\ keyOf[s] = keyOf[t]) => s = t

\* "Close all backend connections": none is open when Close has returned and
\* every goroutine has ended.
CloseClosesEverySocket ==
    AllReturned => open = {}

\* "cleanupSessions removes idle UDP sessions": a session it closes is idle
\* when it is closed.
CleanerClosesOnlyIdle ==
    [][\A s \in Sessions :
          cleaner = "close" /\ victim = s /\ s \in open /\ s \notin open' => s \in idle]_udpVars

=============================================================================
