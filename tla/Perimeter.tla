------------------------------- MODULE Perimeter -------------------------------
(***************************************************************************)
(* The sensors of the dashboard: enrolment with a token that serves once,  *)
(* the credentials it gives, what the sensors report with them, their      *)
(* revocation, and the pages that show what was reported                   *)
(* (node.controller.js, agent.middleware.js, agent.controller.js,          *)
(* dashboard.controller.js, websocket/socket.js; NodesPage.jsx,            *)
(* AdminManageNodes.jsx, Dashboard.jsx).                                   *)
(*                                                                         *)
(* A handler is one step per await on a collection.  A node is the number  *)
(* of its creation; its nodeId and secret are what a machine holds of it.  *)
(***************************************************************************)
EXTENDS Naturals, FiniteSets, Sequences

CONSTANTS
    Tokens,      \* enrolment tokens
    Machines,    \* hosts a sensor is set up on
    MaxNodes,    \* bound: nodes
    Lists,       \* pages that list the nodes: NodesPage.jsx, AdminManageNodes.jsx
    Dashboards,  \* open dashboards
    Latest,      \* detections a dashboard lists (10)
    MaxEvents,   \* bound: reports
    MaxReboots   \* bound: restarts of the backend

ASSUME BoundsAreNumbers == {Latest, MaxNodes, MaxEvents, MaxReboots} \subseteq Nat

Kinds  == {"detection", "connection", "flow"}
Pages  == {"NodesPage", "AdminManageNodes"}

Nodes == 1..MaxNodes

VARIABLES
    tokens,    \* status of each enrolment token, "none" before and after it exists
    known,     \* tokens an administrator could copy
    nodes,     \* status of each node
    machine,   \* the node whose credentials each machine has saved, or 0
    call,      \* the request of each machine
    desk,      \* the request of each page of nodes
    stored,    \* the reports in the collections
    page,      \* the dashboards
    events,    \* reports so far
    reboots,   \* restarts so far
    served,    \* ghost: tokens an enrolment has been answered for
    silent     \* ghost: nodes a revocation has been answered for

registry == <<tokens, known, nodes, machine>>
limits   == <<events, reboots>>
witnesses   == <<served, silent>>
perimeter     == <<registry, call, desk, stored, page, limits, witnesses>>

\* late: the request was sent after the token had served, or the node had been
\* revoked
Request(op, step, token, node, kind, event, late) ==
    [op |-> op, step |-> step, token |-> token, node |-> node, kind |-> kind, event |-> event,
     late |-> late]
NoCall == Request("none", "none", "none", 0, "none", 0, FALSE)
AtRest == [page |-> "none", node |-> 0]
\* room: whether the socket is in the room of its user, has yet to join it, or
\* has lost it; fetch: a fetch that fails leaves an error for a page.
Closed == [open |-> FALSE, stats |-> FALSE, room |-> "out", fetch |-> "none",
           count |-> 0, read |-> 0, recent |-> <<>>, list |-> <<>>]

PerimeterInit ==
    /\ tokens = [t \in Tokens |-> "none"]
    /\ known = {}
    /\ nodes = [n \in Nodes |-> "none"]
    /\ machine = [m \in Machines |-> 0]
    /\ call = [m \in Machines |-> NoCall]
    /\ desk = [d \in Lists |-> AtRest]
    /\ stored = {}
    /\ page = [d \in Dashboards |-> Closed]
    /\ events = 0
    /\ reboots = 0
    /\ served = {}
    /\ silent = {}

(***************************************************************************)
(* Enrolment.                                                              *)
(***************************************************************************)
\* The token is shown once, if its answer arrives.
GenerateEnrollmentToken(t) ==
    /\ tokens[t] = "none"
    /\ t \notin known \cup served
    /\ tokens' = [tokens EXCEPT ![t] = "active"]
    /\ known' \in {known, known \cup {t}}
    /\ UNCHANGED <<nodes, machine, call, desk, stored, page, limits, witnesses>>

\* The TTL index removes a token, used or not.
EnrollmentExpires(t) ==
    /\ tokens[t] # "none"
    /\ tokens' = [tokens EXCEPT ![t] = "none"]
    /\ UNCHANGED <<known, nodes, machine, call, desk, stored, page, limits, witnesses>>

Reached(m, step)  == call[m].step = step
Proceed(m, step)  == call' = [call EXCEPT ![m].step = step]
Return(m)     == call' = [call EXCEPT ![m] = NoCall]

\* A token may be typed on any machine, and again on one that has a node.
Enroll(m) == \E t \in known :
    /\ call[m] = NoCall
    /\ call' = [call EXCEPT ![m] = Request("enroll", "find", t, 0, "none", 0, t \in served)]
    /\ UNCHANGED <<registry, desk, stored, page, limits, witnesses>>

Fresh == Cardinality({n \in Nodes : nodes[n] # "none"}) + 1

\* Node.create; a report of the machine that lacks a field fails it.
CreateNode(m, next) ==
    \/ /\ Fresh \in Nodes
       /\ nodes' = [nodes EXCEPT ![Fresh] = "active"]
       /\ call' = [call EXCEPT ![m].step = next, ![m].node = Fresh]
    \/ /\ Return(m)
       /\ UNCHANGED nodes

\* Mutant: a token that has served is found again.
FindTokenOfAny(m) ==
    /\ Reached(m, "find")
    /\ IF tokens[call[m].token] # "none" THEN Proceed(m, "mark") ELSE Return(m)
    /\ UNCHANGED <<tokens, nodes>>

FindToken(m) ==
    /\ Reached(m, "find")
    /\ IF tokens[call[m].token] = "active" THEN Proceed(m, "mark") ELSE Return(m)
    /\ UNCHANGED <<tokens, nodes>>

\* save() of a token that is gone throws; of one that is used it does not.
MarkToken(m, next) ==
    LET t == call[m].token IN
    /\ IF tokens[t] = "none" THEN Return(m) /\ UNCHANGED tokens
       ELSE Proceed(m, next) /\ tokens' = [tokens EXCEPT ![t] = "used"]
    /\ UNCHANGED nodes

EnrollNode(m) ==
    /\ call[m].op = "enroll"
    /\ \/ FindToken(m)
       \/ Reached(m, "mark") /\ MarkToken(m, "create")
       \/ Reached(m, "create") /\ CreateNode(m, "answer") /\ UNCHANGED tokens
    /\ UNCHANGED <<known, machine, desk, stored, page, limits, witnesses>>

\* The answer: the machine saves it over what it had, or it is lost.
Enrolled(m) ==
    /\ call[m].op = "enroll" /\ Reached(m, "answer")
    /\ \/ machine' = [machine EXCEPT ![m] = call[m].node]
       \/ UNCHANGED machine
    /\ served' = served \cup {call[m].token}
    /\ Return(m)
    /\ UNCHANGED <<tokens, known, nodes, desk, stored, page, limits, silent>>

(***************************************************************************)
(* Revocation.  NodesPage.jsx sends the nodeId of a node it shows active;  *)
(* AdminManageNodes.jsx sends the _id, which is the nodeId of no node.     *)
(***************************************************************************)
PressRevoke(d) == \E n \in Nodes, p \in Pages :
    /\ desk[d] = AtRest
    /\ nodes[n] # "none"
    /\ p = "NodesPage" => nodes[n] = "active"
    /\ desk' = [desk EXCEPT ![d] = [page |-> p, node |-> n]]
    /\ UNCHANGED <<registry, call, stored, page, limits, witnesses>>

RevokeNode(d) ==
    /\ desk[d] # AtRest
    /\ IF desk[d].page = "NodesPage"
       THEN /\ nodes' = [nodes EXCEPT ![desk[d].node] = "revoked"]
            /\ silent' = silent \cup {desk[d].node}
       ELSE UNCHANGED <<nodes, silent>>
    /\ desk' = [desk EXCEPT ![d] = AtRest]
    /\ UNCHANGED <<tokens, known, machine, call, stored, page, limits, served>>

(***************************************************************************)
(* Reports.                                                                *)
(***************************************************************************)
Report(m) == \E k \in Kinds :
    /\ call[m] = NoCall
    /\ machine[m] # 0
    /\ events < MaxEvents
    /\ events' = events + 1
    /\ call' = [call EXCEPT ![m] = Request("report", "auth", "none", machine[m], k, events + 1,
                                            machine[m] \in silent)]
    /\ UNCHANGED <<registry, desk, stored, page, reboots, witnesses>>

\* Mutant: the status of the node is not asked for.
AgentAuthOfAny(m) ==
    /\ call[m].op = "report" /\ Reached(m, "auth")
    /\ Proceed(m, "insert")
    /\ UNCHANGED <<registry, desk, stored, page, limits, witnesses>>

\* The secret is right: it is the one the node was created with.
AgentAuth(m) ==
    /\ call[m].op = "report" /\ Reached(m, "auth")
    /\ IF nodes[call[m].node] = "active" THEN Proceed(m, "insert") ELSE Return(m)
    /\ UNCHANGED <<registry, desk, stored, page, limits, witnesses>>

Event(m) == [kind |-> call[m].kind, event |-> call[m].event, late |-> call[m].late]

AtMost(n, m) == IF n < m THEN n ELSE m

\* What came before what was listed, as often as it came; the oldest go.
Prepended(e, times, list) ==
    [i \in 1..AtMost(Latest, times + Len(list)) |-> IF i <= times THEN e ELSE list[i - times]]

\* A dashboard gets what is sent to everybody, and once more what is sent to
\* the room of its user.  Before its first fetch has answered it counts nothing.
Shown(m, d) ==
    LET p == page[d]
        times == IF p.room = "in" THEN 2 ELSE 1
    IN
    IF ~p.open \/ ~p.stats THEN p
    ELSE IF call[m].kind = "connection" THEN [p EXCEPT !.count = @ + times]
    ELSE [p EXCEPT !.recent = Prepended(Event(m), times, @)]

Emit(m) == page' = [d \in Dashboards |-> Shown(m, d)]

\* Mutant: the dashboards are told first.
IngestTellsFirst(m) ==
    /\ call[m].op = "report"
    /\ \/ /\ Reached(m, "insert") /\ call[m].kind # "flow"
          /\ Emit(m) /\ Proceed(m, "emit") /\ UNCHANGED stored
       \/ /\ Reached(m, "insert") /\ call[m].kind = "flow"
          /\ stored' \in {stored, stored \cup {Event(m)}}
          /\ Return(m) /\ UNCHANGED page
       \/ /\ Reached(m, "emit")
          /\ stored' \in {stored, stored \cup {Event(m)}}
          /\ Return(m) /\ UNCHANGED page
    /\ UNCHANGED <<registry, desk, limits, witnesses>>

\* insertMany is unordered: a report its schema refuses is left out.  What was
\* saved is sent to the dashboards; of flows nothing is.
Ingest(m) ==
    /\ call[m].op = "report"
    /\ \/ /\ Reached(m, "insert")
          /\ stored' = stored \cup {Event(m)}
          /\ IF call[m].kind = "flow" THEN Return(m) ELSE Proceed(m, "emit")
          /\ UNCHANGED page
       \/ Reached(m, "insert") /\ Return(m) /\ UNCHANGED <<stored, page>>
       \/ Reached(m, "emit") /\ Emit(m) /\ Return(m) /\ UNCHANGED stored
    /\ UNCHANGED <<registry, desk, limits, witnesses>>

(***************************************************************************)
(* Dashboards.                                                             *)
(***************************************************************************)
\* Mounting fetches and opens a socket, which joins the room of its user once.
OpenDashboard(d) ==
    /\ ~page[d].open
    /\ page' = [page EXCEPT ![d] = [Closed EXCEPT !.open = TRUE, !.room = "due", !.fetch = "sent"]]
    /\ UNCHANGED <<registry, call, desk, stored, limits, witnesses>>

JoinRoom(d) ==
    /\ page[d].room = "due"
    /\ page' = [page EXCEPT ![d].room = "in"]
    /\ UNCHANGED <<registry, call, desk, stored, limits, witnesses>>

Refresh(d) ==
    /\ page[d].open /\ page[d].stats /\ page[d].fetch = "none"
    /\ page' = [page EXCEPT ![d].fetch = "sent"]
    /\ UNCHANGED <<registry, call, desk, stored, limits, witnesses>>

Of(kind) == {e \in stored : e.kind = kind}

\* The latest of some detections, the latest first: what counts is the time in
\* the report, which can be any.
Listings(found) ==
    {q \in [1..AtMost(Latest, Cardinality(found)) -> found] :
        \A i, j \in DOMAIN q : q[i] = q[j] => i = j}

\* getDashboardStats: the count, then the latest events, then the answer.
FetchAll(d) ==
    LET p == page[d] IN
    /\ \/ /\ p.fetch = "sent"
          /\ page' = [page EXCEPT ![d].fetch = "counted", ![d].read = Cardinality(Of("connection"))]
       \/ /\ p.fetch = "counted"
          /\ \E list \in Listings(Of("detection")) :
                page' = [page EXCEPT ![d].fetch = "read", ![d].list = list]
       \/ /\ p.fetch = "read"
          /\ page' = [page EXCEPT ![d] = [p EXCEPT !.fetch = "none", !.stats = TRUE,
                         !.count = p.read, !.recent = p.list, !.read = 0, !.list = <<>>]]
    /\ UNCHANGED <<registry, call, desk, stored, limits, witnesses>>

CloseDashboard(d) ==
    /\ page[d].open
    /\ page' = [page EXCEPT ![d] = Closed]
    /\ UNCHANGED <<registry, call, desk, stored, limits, witnesses>>

\* The backend restarts: its requests are gone, the dashboards' fetches fail
\* and leave an error for a page; their sockets come back without the room,
\* but a socket that was not connected yet still has its request to join.
After(p) == [p EXCEPT !.room = IF @ = "in" THEN "out" ELSE @,
                      !.fetch = IF @ = "none" THEN "none" ELSE "failed", !.read = 0, !.list = <<>>]

Reboot ==
    /\ reboots < MaxReboots
    /\ reboots' = reboots + 1
    /\ call' = [m \in Machines |-> NoCall]
    /\ desk' = [d \in Lists |-> AtRest]
    /\ page' = [d \in Dashboards |-> After(page[d])]
    /\ UNCHANGED <<registry, stored, events, witnesses>>

PerimeterNext ==
    \/ \E t \in Tokens : GenerateEnrollmentToken(t) \/ EnrollmentExpires(t)
    \/ \E m \in Machines :
        \/ Enroll(m) \/ EnrollNode(m) \/ Enrolled(m)
        \/ Report(m) \/ AgentAuth(m) \/ Ingest(m)
    \/ \E d \in Lists : PressRevoke(d) \/ RevokeNode(d)
    \/ \E d \in Dashboards :
        \/ OpenDashboard(d) \/ JoinRoom(d) \/ Refresh(d) \/ FetchAll(d) \/ CloseDashboard(d)
    \/ Reboot

PerimeterSpec == PerimeterInit /\ [][PerimeterNext]_perimeter

(***************************************************************************)
(* Properties.                                                             *)
(***************************************************************************)
Events == [kind : Kinds, event : 1..MaxEvents, late : BOOLEAN]

Calls == [op : {"none", "enroll", "report"},
          step : {"none", "find", "mark", "create", "answer", "auth", "insert", "emit"},
          token : Tokens \cup {"none"}, node : Nodes \cup {0},
          kind : Kinds \cup {"none"}, event : 0..MaxEvents, late : BOOLEAN]
Views == [open : BOOLEAN, stats : BOOLEAN, room : {"due", "in", "out"},
          fetch : {"none", "sent", "counted", "read", "failed"},
          count : Nat, read : Nat, recent : Seq(Events), list : Seq(Events)]

PerimeterTypeOK ==
    /\ tokens \in [Tokens -> {"none", "active", "used"}]
    /\ known \subseteq Tokens /\ served \subseteq Tokens
    /\ nodes \in [Nodes -> {"none", "active", "revoked"}] /\ silent \subseteq Nodes
    /\ machine \in [Machines -> Nodes \cup {0}]
    /\ call \in [Machines -> Calls]
    /\ desk \in [Lists -> [page : Pages \cup {"none"}, node : Nodes \cup {0}]]
    /\ stored \subseteq Events
    /\ page \in [Dashboards -> Views]
    /\ events \in 0..MaxEvents /\ reboots \in 0..MaxReboots

\* A token that has given somebody a node gives nobody another one later, with
\* a restart between any two steps: enrolments that overlap are another matter.
TokenServesOnce == \A m \in Machines :
    call[m].op = "enroll" /\ Reached(m, "answer") => ~call[m].late

\* Nothing a sensor reports after the answer to its revocation is stored.
RevokedIsSilent == \A e \in stored : ~e.late

\* A detection on a dashboard is in the collection, whatever the insertion
\* refused, whenever the page was opened and however often it heard of it.
ShownIsStored ==
    \A d \in Dashboards : \A i \in DOMAIN page[d].recent : page[d].recent[i] \in stored
=============================================================================
