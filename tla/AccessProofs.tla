----------------------------- MODULE AccessProofs -----------------------------
(***************************************************************************)
(* Theorems about the two modules of run Access, for every set of browsers,*)
(* addresses, documents, tokens, machines and dashboards and every bound.  *)
(*                                                                         *)
(* Accounts: a request carries what an earlier step read to a later one    *)
(* while the other requests go on, so most of the inductive invariant says *)
(* what a request may still know.  Lemma NextMoves says once what a step   *)
(* may do to a request; what the invariant says of the requests follows    *)
(* from it without the actions.                                            *)
(*                                                                         *)
(* Perimeter: a call of a sensor carries what it was sent with from one    *)
(* step of its handler to the next, so each property needs to be known of  *)
(* the calls on their way as well.                                         *)
(***************************************************************************)
EXTENDS Accounts, Perimeter, FiniteSetTheorems, SequenceTheorems, TLAPS

Forms == {"register", "login", "forgot", "verify", "reset", "github", "link"}
Ops   == Forms \cup {"connect", "unlink", "role", "status", None}
Steps == {"users", "admins", "handles", "ahandles", "found", "linked", "missing", "find", "save",
          "proof", "create", "mail", "clean", None}

Sights == [id : Ids, from : Homes, email : Emails, password : Passwords, hashes : {1, 2}, role : Roles,
           status : {"active", "banned"}, github : BOOLEAN]

Requests == [op : Ops, step : Steps, email : Emails \cup {None}, password : Passwords,
             code : Codes \cup {0}, id : Ids \cup {NoId}, goal : Roles \cup {"active", "banned", None},
             seen : Sights \cup {Nobody}, began : Nat]

(***************************************************************************)
(* A request knows what its next step reads: the address a form was filled *)
(* in with, the document a lookup found, the code that is to be mailed.    *)
(***************************************************************************)
Fits(r) ==
    /\ r \in Requests
    /\ r.op \in Forms => r.email \in Emails
    /\ r.step \in {"found", "linked", "create", "clean"} => r.seen \in Sights
    /\ r.op = "role" => r.goal \in Roles
    /\ r.op = "register" => r.goal \in Roles \cup {None}
    /\ r.op = "status" => r.goal \in {"active", "banned"}
    /\ r.step = "mail" => r.code \in Codes

RequestsFit ==
    /\ request = [t \in Tabs |-> request[t]]
    /\ \A t \in Tabs : Fits(request[t])

(***************************************************************************)
(* The documents, and the numbers given to them so far.                    *)
(***************************************************************************)
StoresTyped ==
    /\ users \in [DOMAIN users -> Documents] /\ DOMAIN users \subseteq born
    /\ admins \in [DOMAIN admins -> Documents] /\ DOMAIN admins \subseteq born
    /\ born \subseteq Ids
    /\ \E n \in Nat : born = 1..n
    /\ secret \in [Homes -> [Ids -> Passwords \cup {None}]]
    /\ changes \in Nat

\* A request has seen a document whose number was given.
SeenAreBorn == \A t \in Tabs : request[t].seen.id \in born \cup {NoId}

CountsTyped == resets \in [Emails -> Nat] /\ proved \in [Emails -> Nat]

RestTyped ==
    /\ otps \subseteq [email : Emails, code : Codes, verified : BOOLEAN, expired : BOOLEAN]
    /\ codes \in Nat
    /\ mailed \in [Emails -> SUBSET Codes]
    /\ session \in [Clients -> Ids \cup {NoId}]
    /\ token \in [Clients -> Emails \cup {None}]
    /\ link \in [Clients -> {None, "link", "signup"}]
    /\ count \in 0..MaxRequests /\ crashes \in 0..MaxCrashes

(***************************************************************************)
(* A document that matches a password holds the one last saved in it.      *)
(***************************************************************************)
HeldIsSaved ==
    \A from \in Homes : \A i \in DOMAIN Collection(from) :
        Collection(from)[i].hashes = 1 => secret[from][i] = Collection(from)[i].password

(***************************************************************************)
(* A login has seen the password last saved, unless one was saved since.   *)
(***************************************************************************)
Informed(r) == r.op = "login" =>
    /\ r.began <= changes
    /\ r.step = "found" /\ r.began = changes /\ r.seen.hashes = 1
        => secret[r.seen.from][r.seen.id] = r.seen.password
LoginsInformed == \A t \in Tabs : Informed(request[t])

(***************************************************************************)
(* A code that is verified was verified since the last reset of its        *)
(* address ended; a reset past its proof has met such a code.              *)
(***************************************************************************)
CodesAreRecent == \A e \in Emails : Verified(e) => proved[e] = resets[e]

Proven(r) == r.op = "reset" =>
    /\ r.began <= resets[r.email]
    /\ r.step # "proof" => r.began <= proved[r.email]
ResetsProven == \A t \in Tabs : Proven(request[t])

IInv ==
    /\ RequestsFit /\ StoresTyped /\ SeenAreBorn /\ CountsTyped /\ RestTyped
    /\ HeldIsSaved /\ LoginsInformed
    /\ CodesAreRecent /\ ResetsProven
(***************************************************************************)
(* What one step may do to a request: nothing, end it, begin it, send it   *)
(* on, hand it the document a lookup found, hand it a code.                *)
(***************************************************************************)
Sent(r) ==
    /\ Fits(r) /\ r.seen = Nobody /\ r.step \notin {"found", "create"}
    /\ r.op = "login" => r.step = "users" /\ r.began = changes
    /\ r.op = "reset" => r.step = "proof" /\ r.began = resets[r.email]

Removed(s) ==
    /\ users' = IF s.from = "users" THEN Without(users, s.id) ELSE users
    /\ admins' = IF s.from = "admins" THEN Without(admins, s.id) ELSE admins

Onwards(r, q) == \E step \in Steps \ {"found", "linked", "proof", "mail"} :
    /\ q = [r EXCEPT !.step = step]
    /\ step \in {"create", "clean"} => r.step = "found"
    /\ r.op = "reset" /\ r.step = "proof" => Verified(r.email)
    /\ r.op = "role" /\ step = "create" => Removed(r.seen)

Sees(r, q) == \E step \in {"found", "linked"}, from \in Homes : \E i \in DOMAIN Collection(from) :
    /\ q = [r EXCEPT !.step = step, !.seen = Seen(from, i)]
    /\ r.step \in {"users", "admins", "handles", "ahandles"}
    /\ UNCHANGED <<stores, ghosts>>

Coded(r, q) == \E k \in Codes :
    /\ q = [r EXCEPT !.step = "mail", !.code = k]
    /\ r.op = "forgot"

Moves(t) ==
    \/ request'[t] = request[t]
    \/ request'[t] = Idle
    \/ Sent(request'[t])
    \/ Onwards(request[t], request'[t])
    \/ Sees(request[t], request'[t])
    \/ Coded(request[t], request'[t])

AllMove ==
    /\ request' = [t \in Tabs |-> request'[t]]
    /\ \A t \in Tabs : Moves(t)

LEMMA IdleFits == Fits(Idle)
<1>1. Nobody \notin Sights /\ 0 \in Nat
  BY DEF Nobody, Sights, Homes, None
<1> QED
  BY <1>1 DEF Fits, Idle, Requests, Ops, Steps, Forms, Passwords, Typable, Long, Roles, None, NoId

LEMMA AskFits ==
    ASSUME NEW op \in Ops, NEW step \in {"users", "find", "proof", "handles"},
           NEW e \in Emails \cup {None}, NEW p \in Passwords, NEW r, changes \in Nat,
           NEW code \in Codes \cup {0}, NEW id \in Ids \cup {NoId},
           NEW goal \in Roles \cup {"active", "banned", None}, NEW began \in Nat,
           r = [op |-> op, step |-> step, email |-> e, password |-> p, code |-> code, id |-> id,
                goal |-> goal, seen |-> Nobody, began |-> began],
           op \in Forms => e \in Emails,
           op = "role" => goal \in Roles,
           op = "register" => goal \in Roles \cup {None},
           op = "status" => goal \in {"active", "banned"}
    PROVE  r.step \notin {"found", "create"} /\ Fits(r) /\ r.op = op /\ r.step = step /\ r.email = e /\ r.began = began /\ r.seen = Nobody /\ r.step \notin {"found", "create"}
  BY DEF Fits, Requests, Steps

LEMMA OneMoves ==
    ASSUME RequestsFit, NEW t \in Tabs, NEW r, request' = [request EXCEPT ![t] = r],
           r = Idle \/ Sent(r) \/ Onwards(request[t], r) \/ Sees(request[t], r) \/ Coded(request[t], r)
    PROVE  AllMove
<1>1. /\ request' = [u \in Tabs |-> request'[u]]
      /\ request'[t] = r /\ \A u \in Tabs : u # t => request'[u] = request[u]
  BY DEF RequestsFit
<1> QED
  BY <1>1 DEF Moves, AllMove

LEMMA ReplyMoves == ASSUME RequestsFit, NEW t \in Tabs, Reply(t) PROVE AllMove
  BY OneMoves DEF Reply

LEMMA GoMoves ==
    ASSUME RequestsFit, NEW t \in Tabs, NEW step \in Steps \ {"found", "linked", "proof", "mail"},
           Go(t, step), step \in {"create", "clean"} => request[t].step = "found",
           request[t].op = "reset" /\ request[t].step = "proof" => Verified(request[t].email),
           request[t].op = "role" /\ step = "create" => Removed(request[t].seen)
    PROVE  AllMove
<1>1. request' = [request EXCEPT ![t] = [request[t] EXCEPT !.step = step]]
  BY DEF Go
<1>2. Onwards(request[t], [request[t] EXCEPT !.step = step])
  BY DEF Onwards
<1> QED
  BY <1>1, <1>2, OneMoves

LEMMA SendMoves ==
    ASSUME RequestsFit, NEW t \in Tabs, NEW r, Send(t, r), Sent(r)
    PROVE  AllMove
  BY OneMoves DEF Send

LEMMA FormMoves ==
    ASSUME RequestsFit, StoresTyped, CountsTyped, RestTyped, NEW c \in Clients, SendForm(c)
    PROVE  AllMove
<1>c. c \in Tabs
  BY DEF Tabs
<1>n. changes \in Nat /\ "random" \in Passwords /\ Long \subseteq Passwords /\ Typable \subseteq Passwords
  BY DEF StoresTyped, Passwords, Typable
<1>f. Forms \subseteq Ops /\ \A op \in Forms : op # "role" /\ op # "status"
  BY DEF Ops, Forms
<1>1. PICK e \in Emails :
        \/ /\ session[c] = NoId
           /\ \E p \in Long, role \in Asked \cup {None} :
                 Send(c, [Ask("register", "users", e, p) EXCEPT !.goal = role])
        \/ session[c] = NoId /\ \E p \in Long : Send(c, Ask("login", "users", e, p))
        \/ Send(c, Ask("forgot", "users", e, "random"))
        \/ \E n \in mailed[e] : Send(c, [Ask("verify", "find", e, "random") EXCEPT !.code = n])
        \/ /\ token[c] = e
           /\ \E p \in Typable : Send(c, [Ask("reset", "proof", e, p) EXCEPT !.began = resets[e]])
        \/ /\ session[c] = NoId \/ callback = "auth"
           /\ Send(c, Ask("github", "handles", e, "random"))
        \/ link[c] = "link" /\ \E p \in Typable : Send(c, Ask("link", "users", e, p))
  BY DEF SendForm
<1>2. ASSUME NEW op \in {"login", "forgot", "github", "link"},
             NEW step \in {"users", "handles"}, NEW p \in Passwords, op = "login" => step = "users",
             Send(c, Ask(op, step, e, p))
      PROVE  AllMove
  <2>1. Ask(op, step, e, p) =
          [op |-> op, step |-> step, email |-> e, password |-> p, code |-> 0,
           id |-> NoId, goal |-> None, seen |-> Nobody, began |-> changes]
    BY DEF Ask
  <2>2. op \in Ops /\ op \in Forms
    BY DEF Ops, Forms
  <2>3. /\ Fits(Ask(op, step, e, p)) /\ Ask(op, step, e, p).op = op
        /\ Ask(op, step, e, p).step = step /\ Ask(op, step, e, p).began = changes
        /\ Ask(op, step, e, p).seen = Nobody /\ Ask(op, step, e, p).step \notin {"found", "create"}
    BY <1>n, <1>f, <2>1, <2>2, AskFits
  <2>4. Sent(Ask(op, step, e, p))
    BY <1>2, <2>3 DEF Sent
  <2> QED
    BY <1>2, <1>c, <2>4, SendMoves
<1>3. ASSUME NEW n \in mailed[e], Send(c, [Ask("verify", "find", e, "random") EXCEPT !.code = n])
      PROVE  AllMove
  <2> DEFINE r == [Ask("verify", "find", e, "random") EXCEPT !.code = n]
  <2>1. r = [op |-> "verify", step |-> "find", email |-> e, password |-> "random", code |-> n,
              id |-> NoId, goal |-> None, seen |-> Nobody, began |-> changes]
    BY DEF Ask
  <2>2. "verify" \in Ops /\ n \in Codes
    BY DEF Ops, Forms, RestTyped
  <2> HIDE DEF r
  <2>3. Fits(r) /\ r.op = "verify" /\ r.seen = Nobody /\ r.step \notin {"found", "create"}
    BY <1>n, <1>f, <2>1, <2>2, AskFits
  <2>4. Sent(r)
    BY <2>3 DEF Sent
  <2> QED
    BY <1>3, <1>c, <2>4, SendMoves DEF r
<1>4. ASSUME NEW p \in Typable, Send(c, [Ask("reset", "proof", e, p) EXCEPT !.began = resets[e]])
      PROVE  AllMove
  <2> DEFINE r == [Ask("reset", "proof", e, p) EXCEPT !.began = resets[e]]
  <2>1. r = [op |-> "reset", step |-> "proof", email |-> e, password |-> p, code |-> 0,
              id |-> NoId, goal |-> None, seen |-> Nobody, began |-> resets[e]]
    BY DEF Ask
  <2>2. "reset" \in Ops /\ resets[e] \in Nat
    BY DEF Ops, Forms, CountsTyped
  <2> HIDE DEF r
  <2>3. Fits(r) /\ r.op = "reset" /\ r.step = "proof" /\ r.email = e /\ r.began = resets[e] /\ r.seen = Nobody /\ r.step \notin {"found", "create"}
    BY <1>n, <1>f, <2>1, <2>2, AskFits
  <2>4. Sent(r)
    BY <2>3 DEF Sent
  <2> QED
    BY <1>4, <1>c, <2>4, SendMoves DEF r
<1>5. ASSUME NEW p \in Long, NEW role \in Asked \cup {None},
             Send(c, [Ask("register", "users", e, p) EXCEPT !.goal = role])
      PROVE  AllMove
  <2> DEFINE r == [Ask("register", "users", e, p) EXCEPT !.goal = role]
  <2>1. r = [op |-> "register", step |-> "users", email |-> e, password |-> p, code |-> 0,
              id |-> NoId, goal |-> role, seen |-> Nobody, began |-> changes]
    BY DEF Ask
  <2>2. "register" \in Ops /\ role \in Roles \cup {None}
    BY AskedAreRoles DEF Ops, Forms
  <2> HIDE DEF r
  <2>3. Fits(r) /\ r.op = "register" /\ r.seen = Nobody /\ r.step \notin {"found", "create"}
    BY <1>n, <1>f, <2>1, <2>2, AskFits
  <2>4. Sent(r)
    BY <2>3 DEF Sent
  <2> QED
    BY <1>5, <1>c, <2>4, SendMoves DEF r
<1> QED
  BY <1>1, <1>2, <1>3, <1>4, <1>5, <1>n

LEMMA ButtonMoves ==
    ASSUME RequestsFit, StoresTyped, RestTyped, NEW c \in Clients, SendSignedIn(c)
    PROVE  AllMove
<1>1. PICK op \in {"connect", "unlink"} :
        Send(c, Order(op, session[c], None))
  BY DEF SendSignedIn
<1> DEFINE r == Order(op, session[c], None)
<1>2. r = [op |-> op, step |-> "users", email |-> None, password |-> "random", code |-> 0,
            id |-> session[c], goal |-> None, seen |-> Nobody, began |-> changes]
  BY DEF Order
<1>3. /\ op \in Ops /\ op \notin Forms /\ op \notin {"role", "status"}
      /\ session[c] \in Ids \cup {NoId} /\ changes \in Nat /\ "random" \in Passwords
  BY DEF Ops, Forms, RestTyped, StoresTyped, Passwords
<1> HIDE DEF r
<1>4. Fits(r) /\ r.op = op /\ r.seen = Nobody /\ r.step \notin {"found", "create"}
  BY <1>2, <1>3, AskFits
<1>5. Sent(r)
  BY <1>4 DEF Sent
<1> QED
  BY <1>1, <1>5, SendMoves DEF Tabs, r

LEMMA DeskMoves ==
    ASSUME RequestsFit, StoresTyped, NEW d \in Desks, SendDesk(d)
    PROVE  AllMove
<1>n. changes \in Nat /\ "random" \in Passwords /\ born \subseteq Ids
  BY DEF StoresTyped, Passwords
<1>1. PICK i \in born :
        \/ \E r \in Roles : Send(d, Order("role", i, r))
        \/ \E s \in {"active", "banned"} : Send(d, Order("status", i, s))
  BY DEF SendDesk
<1>2. ASSUME NEW op \in {"role", "status"}, NEW goal \in Roles \cup {"active", "banned"},
             op = "role" => goal \in Roles, op = "status" => goal \in {"active", "banned"},
             Send(d, Order(op, i, goal))
      PROVE  AllMove
  <2> DEFINE r == Order(op, i, goal)
  <2>1. r = [op |-> op, step |-> "users", email |-> None, password |-> "random", code |-> 0,
              id |-> i, goal |-> goal, seen |-> Nobody, began |-> changes]
    BY DEF Order
  <2>2. op \in Ops /\ op \notin Forms
    BY DEF Ops, Forms
  <2> HIDE DEF r
  <2>3. Fits(r) /\ r.op = op /\ r.seen = Nobody /\ r.step \notin {"found", "create"}
    BY <1>n, <1>2, <2>1, <2>2, AskFits
  <2>4. Sent(r)
    BY <2>3 DEF Sent
  <2> QED
    BY <1>2, <2>4, SendMoves DEF Tabs, r
<1> QED
  BY <1>1, <1>2

LEMMA LookupMoves ==
    ASSUME RequestsFit, NEW t \in Tabs, Lookup(t)
    PROVE  AllMove
<1>1. ASSUME NEW from \in Homes, NEW hit \in {"found", "linked"},
             NEW miss \in {"admins", "missing", "ahandles", "users"},
             request[t].step \in {"users", "admins", "handles", "ahandles"}, Look(t, from, hit, miss)
      PROVE  AllMove
  <2>1. CASE Go(t, miss)
    <3>1. miss \in Steps \ {"found", "linked", "proof", "mail"} /\ miss \notin {"create", "clean"}
      BY DEF Steps
    <3>2. request[t].step # "proof"
      BY <1>1
    <3> QED
      BY <2>1, <3>1, <3>2, GoMoves
  <2>2. CASE \E i \in DOMAIN Collection(from) :
               request' = [request EXCEPT ![t].step = hit, ![t].seen = Seen(from, i)]
    <3>1. PICK i \in DOMAIN Collection(from) :
               request' = [request EXCEPT ![t].step = hit, ![t].seen = Seen(from, i)]
      BY <2>2
    <3> DEFINE q == [request[t] EXCEPT !.step = hit, !.seen = Seen(from, i)]
    <3>2. request' = [request EXCEPT ![t] = q]
      BY <3>1
    <3>3. UNCHANGED <<stores, ghosts>>
      BY <1>1 DEF Look
    <3>4. Sees(request[t], q)
      BY <1>1, <3>3 DEF Sees
    <3> HIDE DEF q
    <3> QED
      BY <3>2, <3>4, OneMoves
  <2> QED
    BY <1>1, <2>1, <2>2 DEF Look
<1> QED
  BY <1>1 DEF Lookup, Homes

LEMMA CodeMoves ==
    ASSUME RequestsFit, NEW t \in Tabs, NEW k \in Codes, request[t].op = "forgot",
           request' = [request EXCEPT ![t].step = "mail", ![t].code = k]
    PROVE  AllMove
<1> DEFINE q == [request[t] EXCEPT !.step = "mail", !.code = k]
<1>1. request' = [request EXCEPT ![t] = q]
  OBVIOUS
<1>2. Coded(request[t], q)
  BY DEF Coded
<1> HIDE DEF q
<1> QED
  BY <1>1, <1>2, OneMoves

LEMMA HandlerMoves ==
    ASSUME RequestsFit, NEW c \in Clients,
           Registered(c) \/ LoggedIn(c) \/ Forgot(c) \/ Verify(c) \/ Reset(c) \/ Github(c) \/ Link(c) \/ Profile(c)
    PROVE  AllMove
<1>c. c \in Tabs
  BY DEF Tabs
<1>s. {"create", "save", "users", "clean"} \subseteq Steps \ {"found", "linked", "proof", "mail"}
  BY DEF Steps
<1>1. CASE Reply(c)
  BY <1>1, <1>c, ReplyMoves
<1>2. CASE Forgot(c) /\ ~Reply(c)
  <2>1. CASE At(c, "forgot", "found") /\ Go(c, "create")
    BY <1>c, <1>s, <2>1, GoMoves DEF At
  <2>2. CASE /\ At(c, "forgot", "create")
             /\ \E k \in Codes : request' = [request EXCEPT ![c].step = "mail", ![c].code = k]
    BY <1>c, <2>2, CodeMoves DEF At
  <2> QED
    BY <1>2, <2>1, <2>2 DEF Forgot
<1>3. CASE Verify(c) /\ ~Reply(c)
  <2>1. At(c, "verify", "find") /\ Go(c, "save")
    BY <1>3 DEF Verify
  <2> QED
    BY <1>c, <1>s, <2>1, GoMoves DEF At
<1>4. CASE Reset(c) /\ ~Reply(c)
  <2>1. CASE At(c, "reset", "proof") /\ Verified(request[c].email) /\ Go(c, "users")
    BY <1>c, <1>s, <2>1, GoMoves DEF At
  <2>2. CASE At(c, "reset", "found") /\ Go(c, "clean")
    BY <1>c, <1>s, <2>2, GoMoves DEF At
  <2> QED
    BY <1>4, <2>1, <2>2 DEF Reset
<1> QED
  BY <1>1, <1>2, <1>3, <1>4 DEF Registered, LoggedIn, Github, Link, Profile

LEMMA NextMoves ==
    ASSUME RequestsFit, StoresTyped, CountsTyped, RestTyped, [Next]_vars
    PROVE  AllMove
<1>1. ASSUME UNCHANGED request PROVE AllMove
  BY <1>1 DEF Moves, AllMove, RequestsFit
<1>2. ASSUME NEW c \in Clients, SignOut(c) \/ TokenExpires(c) PROVE AllMove
  BY <1>1, <1>2 DEF SignOut, TokenExpires
<1>3. ASSUME NEW d \in Desks, ChangeRole(d) \/ ChangeStatus(d) PROVE AllMove
  <2>1. CASE Reply(d)
    BY <2>1, ReplyMoves DEF Tabs
  <2>2. CASE At(d, "role", "found") /\ Go(d, "create") /\ Removed(request[d].seen)
    <3>1. "create" \in Steps \ {"found", "linked", "proof", "mail"} /\ d \in Tabs
      BY DEF Steps, Tabs
    <3> QED
      BY <2>2, <3>1, GoMoves DEF At
  <2> QED
    BY <1>3, <2>1, <2>2 DEF ChangeRole, ChangeStatus, Removed
<1>4. ASSUME Restart PROVE AllMove
  BY <1>4 DEF Restart, Moves, AllMove
<1>5. ASSUME CodeExpires PROVE AllMove
  BY <1>1, <1>5 DEF CodeExpires
<1>6. ASSUME UNCHANGED vars PROVE AllMove
  BY <1>1, <1>6 DEF vars
<1> QED
  BY <1>2, <1>3, <1>4, <1>5, <1>6, LookupMoves, FormMoves, ButtonMoves, DeskMoves, HandlerMoves DEF Next

LEMMA SeenIsSight ==
    ASSUME StoresTyped, NEW from \in Homes, NEW i \in DOMAIN Collection(from)
    PROVE  /\ Seen(from, i) \in Sights
           /\ Seen(from, i).id = i /\ Seen(from, i).from = from
           /\ Seen(from, i).hashes = Collection(from)[i].hashes
           /\ Seen(from, i).password = Collection(from)[i].password
<1>1. Collection(from)[i] \in Documents /\ i \in Ids
  BY DEF StoresTyped, Collection, Homes
<1> HIDE DEF Collection
<1> QED
  BY <1>1 DEF Seen, Sights, Documents

LEMMA NextFits ==
    ASSUME RequestsFit, StoresTyped, CountsTyped, RestTyped, [Next]_vars
    PROVE  RequestsFit'
<1>1. AllMove
  BY NextMoves
<1>2. ASSUME NEW t \in Tabs PROVE Fits(request'[t])
  <2>r. Fits(request[t])
    BY DEF RequestsFit
  <2>1. CASE request'[t] = Idle
    BY <2>1, IdleFits
  <2>2. CASE Sent(request'[t])
    BY <2>2 DEF Sent
  <2>3. CASE Onwards(request[t], request'[t])
    BY <2>r, <2>3 DEF Onwards, Fits, Requests
  <2>4. CASE Sees(request[t], request'[t])
    <3>1. PICK step \in {"found", "linked"}, from \in Homes : \E i \in DOMAIN Collection(from) :
             request'[t] = [request[t] EXCEPT !.step = step, !.seen = Seen(from, i)]
      BY <2>4 DEF Sees
    <3>2. PICK s \in Sights : request'[t] = [request[t] EXCEPT !.step = step, !.seen = s]
      BY <3>1, SeenIsSight
    <3> QED
      BY <2>r, <3>2 DEF Fits, Requests, Steps
  <2>5. CASE Coded(request[t], request'[t])
    BY <2>r, <2>5 DEF Coded, Fits, Requests, Steps
  <2> QED
    BY <1>1, <2>r, <2>1, <2>2, <2>3, <2>4, <2>5 DEF AllMove, Moves
<1> QED
  BY <1>1, <1>2 DEF RequestsFit, AllMove

(***************************************************************************)
(* The counts of resets only grow, and a proof is as old as the last of    *)
(* them.  A reset in flight keeps what proves it.                          *)
(***************************************************************************)
CountsGrow == \A e \in Emails :
    /\ resets'[e] \in Nat /\ resets'[e] >= resets[e]
    /\ proved'[e] \in {proved[e], resets[e]}

LEMMA NextCounts ==
    ASSUME RequestsFit, CountsTyped, CodesAreRecent, [Next]_vars, RestTyped
    PROVE  CountsTyped' /\ CountsGrow /\ CodesAreRecent'
<1>0. ASSUME UNCHANGED <<resets, proved>> PROVE CountsTyped' /\ CountsGrow
  BY <1>0 DEF CountsTyped, CountsGrow
<1>u. ASSUME UNCHANGED <<resets, proved>>, \A e \in Emails : Verified(e)' => Verified(e)
      PROVE  CountsTyped' /\ CountsGrow /\ CodesAreRecent'
  BY <1>0, <1>u DEF CodesAreRecent
<1>o. ASSUME UNCHANGED <<otps, resets, proved>> PROVE CountsTyped' /\ CountsGrow /\ CodesAreRecent'
  BY <1>o, <1>u DEF Verified
<1>1. ASSUME NEW c \in Clients, Forgot(c) PROVE CountsTyped' /\ CountsGrow /\ CodesAreRecent'
  <2>1. \A o \in otps' : o.verified => o \in otps
    BY <1>1 DEF Forgot, Others
  <2> QED
    BY <1>1, <1>u, <2>1 DEF Forgot, Verified, ghosts
<1>2. ASSUME NEW c \in Clients, Verify(c) PROVE CountsTyped' /\ CountsGrow /\ CodesAreRecent'
  <2>1. CASE UNCHANGED proved /\ otps' \subseteq otps
    BY <1>2, <1>u, <2>1 DEF Verify, Verified
  <2>2. CASE ~(UNCHANGED proved /\ otps' \subseteq otps)
    <3> DEFINE r == request[c]
    <3>1. PICK o \in otps : /\ At(c, "verify", "save") /\ o.email = r.email
                            /\ otps' = (otps \ {o}) \cup {[o EXCEPT !.verified = TRUE]}
                            /\ proved' = [proved EXCEPT ![r.email] = resets[r.email]]
                            /\ resets' = resets
      BY <1>2, <2>2 DEF Verify
    <3>2. r.email \in Emails /\ \A p \in otps' : p.email # r.email => p \in otps
      BY <3>1 DEF RestTyped
    <3>3. CountsTyped' /\ CountsGrow
      BY <3>1, <3>2 DEF CountsTyped, CountsGrow
    <3>4. \A e \in Emails : e # r.email /\ Verified(e)' => Verified(e)
      BY <3>2 DEF Verified
    <3>5. \A e \in Emails : proved'[e] = IF e = r.email THEN resets[e] ELSE proved[e]
      BY <3>1 DEF CountsTyped
    <3> QED
      BY <3>1, <3>3, <3>4, <3>5 DEF CodesAreRecent
  <2> QED
    BY <2>1, <2>2
<1>3. ASSUME NEW c \in Clients, Reset(c) PROVE CountsTyped' /\ CountsGrow /\ CodesAreRecent'
  <2>1. CASE UNCHANGED <<otps, resets, proved>>
    BY <1>o, <2>1
  <2>2. CASE ~UNCHANGED <<otps, resets, proved>>
    <3> DEFINE r == request[c]
    <3>1. /\ At(c, "reset", "clean") /\ otps' = Others(r.email)
          /\ resets' = [resets EXCEPT ![r.email] = @ + 1] /\ proved' = proved
      BY <1>3, <2>2 DEF Reset, ghosts, Remembered
    <3>2. c \in Tabs /\ r.email \in Emails
      BY <3>1 DEF Tabs, RequestsFit, Fits, At, Forms
    <3>3. CountsTyped' /\ CountsGrow
      BY <3>1, <3>2 DEF CountsTyped, CountsGrow
    <3>4. \A e \in Emails : Verified(e)' => e # r.email /\ Verified(e)
      BY <3>1 DEF Verified, Others
    <3>5. \A e \in Emails : e # r.email => resets'[e] = resets[e]
      BY <3>1, <3>2 DEF CountsTyped
    <3> QED
      BY <3>1, <3>3, <3>4, <3>5 DEF CodesAreRecent
  <2> QED
    BY <2>1, <2>2
<1>4. ASSUME CodeExpires PROVE CountsTyped' /\ CountsGrow /\ CodesAreRecent'
  <2>1. PICK o \in otps : otps' = (otps \ {o}) \cup {[o EXCEPT !.expired = TRUE]}
    BY <1>4 DEF CodeExpires
  <2>2. \A p \in otps' : \E q \in otps : p.email = q.email /\ p.verified = q.verified
    BY <2>1 DEF RestTyped
  <2> QED
    BY <1>4, <1>u, <2>2 DEF CodeExpires, ghosts, Verified
<1>5. ASSUME NEW c \in Clients, SendForm(c) \/ SendSignedIn(c) \/ Registered(c) \/ LoggedIn(c)
             \/ Github(c) \/ Link(c) \/ Profile(c) \/ SignOut(c) \/ TokenExpires(c)
      PROVE  CountsTyped' /\ CountsGrow /\ CodesAreRecent'
  <2>1. UNCHANGED <<otps, resets, proved>>
    BY <1>5 DEF SendForm, SendSignedIn, Send, Registered, LoggedIn, Github, Link, Profile, SignOut,
        TokenExpires, ghosts, Create, Remembered
  <2> QED
    BY <1>o, <2>1
<1>6. ASSUME NEW d \in Desks, SendDesk(d) \/ ChangeRole(d) \/ ChangeStatus(d)
      PROVE  CountsTyped' /\ CountsGrow /\ CodesAreRecent'
  <2>1. UNCHANGED <<otps, resets, proved>>
    BY <1>6 DEF SendDesk, Send, ChangeRole, ChangeStatus, ghosts, Remembered
  <2> QED
    BY <1>o, <2>1
<1>7. ASSUME NEW t \in Tabs, Lookup(t) PROVE CountsTyped' /\ CountsGrow /\ CodesAreRecent'
  BY <1>7, <1>o DEF Lookup, Look, ghosts
<1>8. ASSUME Restart \/ UNCHANGED vars PROVE CountsTyped' /\ CountsGrow /\ CodesAreRecent'
  BY <1>8, <1>o DEF Restart, vars, ghosts
<1> QED
  BY <1>1, <1>2, <1>3, <1>4, <1>5, <1>6, <1>7, <1>8 DEF Next

LEMMA NextProven ==
    ASSUME RequestsFit, CountsTyped, CodesAreRecent, ResetsProven, AllMove, CountsGrow
    PROVE  ResetsProven'
<1> SUFFICES ASSUME NEW t \in Tabs, request'[t].op = "reset"
             PROVE  /\ request'[t].began <= resets'[request'[t].email]
                    /\ request'[t].step # "proof" => request'[t].began <= proved'[request'[t].email]
  BY DEF ResetsProven, Proven
<1>r. Fits(request[t]) /\ Proven(request[t]) /\ Moves(t)
  BY DEF RequestsFit, ResetsProven, AllMove
<1>g. \A e \in Emails : /\ resets[e] \in Nat /\ resets'[e] \in Nat /\ resets'[e] >= resets[e]
                        /\ proved[e] \in Nat /\ proved'[e] \in {proved[e], resets[e]}
  BY DEF CountsTyped, CountsGrow
<1>1. CASE request'[t] = Idle
  BY <1>1 DEF Idle, None
<1>2. CASE Sent(request'[t])
  <2>1. request'[t].email \in Emails /\ request'[t].began = resets[request'[t].email]
        /\ request'[t].step = "proof"
    BY <1>2 DEF Sent, Fits, Forms
  <2> QED
    BY <1>g, <2>1
<1>3. ASSUME request[t].op = "reset", request[t].email = request'[t].email,
             request[t].began = request'[t].began,
             request'[t].step # "proof" /\ request[t].step = "proof" => Verified(request[t].email)
      PROVE  /\ request'[t].began <= resets'[request'[t].email]
             /\ request'[t].step # "proof" => request'[t].began <= proved'[request'[t].email]
  <2>1. request[t].email \in Emails /\ request[t].began \in Nat
    BY <1>r, <1>3 DEF Fits, Forms, Requests
  <2>2. /\ request[t].began <= resets[request[t].email]
        /\ request[t].step # "proof" => request[t].began <= proved[request[t].email]
    BY <1>r, <1>3 DEF Proven
  <2>3. Verified(request[t].email) => proved[request[t].email] = resets[request[t].email]
    BY <2>1 DEF CodesAreRecent
  <2> DEFINE e == request[t].email
             b == request[t].began
  <2>4. /\ resets[e] \in Nat /\ resets'[e] >= resets[e] /\ resets'[e] \in Nat
        /\ proved[e] \in Nat /\ proved'[e] \in {proved[e], resets[e]}
    BY <1>g, <2>1
  <2>5. CASE request'[t].step = "proof"
    <3>1. b <= resets[e]
      BY <2>2
    <3>2. b <= resets'[e]
      BY <2>1, <2>4, <3>1
    <3> QED
      BY <1>3, <2>5, <3>2
  <2>6. CASE request'[t].step # "proof"
    <3>1. b <= resets[e] /\ b <= proved[e]
      BY <1>3, <2>2, <2>3, <2>6
    <3>2. b <= resets'[e] /\ b <= proved'[e]
      BY <2>1, <2>4, <3>1
    <3> QED
      BY <1>3, <2>6, <3>2
  <2> QED
    BY <2>5, <2>6
<1>4. CASE request'[t] = request[t]
  BY <1>3, <1>4
<1>5. CASE Onwards(request[t], request'[t])
  BY <1>r, <1>3, <1>5 DEF Onwards, Fits, Requests
<1>6. CASE Sees(request[t], request'[t])
  BY <1>r, <1>3, <1>6 DEF Sees, Fits, Requests
<1>7. CASE Coded(request[t], request'[t])
  BY <1>r, <1>7 DEF Coded, Fits, Requests
<1> QED
  BY <1>r, <1>1, <1>2, <1>4, <1>5, <1>6, <1>7 DEF Moves

(***************************************************************************)
(* What the operations on a document leave in the collections.             *)
(***************************************************************************)
Saves == \/ UNCHANGED <<secret, changes>>
         \/ changes' = changes + 1

Kept == StoresTyped' /\ HeldIsSaved' /\ Saves /\ born \subseteq born'

LEMMA UpdateHolds ==
    ASSUME StoresTyped, NEW s \in Sights, Stored(s), NEW doc \in Documents, Update(s, doc)
    PROVE  /\ users' \in [DOMAIN users -> Documents] /\ admins' \in [DOMAIN admins -> Documents]
           /\ DOMAIN users' = DOMAIN users /\ DOMAIN admins' = DOMAIN admins /\ born' = born
           /\ \A from \in Homes : \A i \in DOMAIN Collection(from) :
                 Collection(from)'[i] = IF from = s.from /\ i = s.id THEN doc ELSE Collection(from)[i]
<1>1. s.from \in Homes
  BY DEF Sights
<1>2. CASE s.from = "users"
  BY <1>2 DEF StoresTyped, Stored, Update, Collection, Homes
<1>3. CASE s.from = "admins"
  BY <1>3 DEF StoresTyped, Stored, Update, Collection, Homes
<1> QED
  BY <1>1, <1>2, <1>3 DEF Homes

LEMMA UpdateKeeps ==
    ASSUME StoresTyped, HeldIsSaved, NEW s \in Sights, Stored(s), NEW doc \in Documents, Update(s, doc),
           doc.hashes = Current(s).hashes, doc.password = Current(s).password,
           UNCHANGED <<secret, changes>>
    PROVE  Kept
<1>1. /\ users' \in [DOMAIN users -> Documents] /\ admins' \in [DOMAIN admins -> Documents]
      /\ DOMAIN users' = DOMAIN users /\ DOMAIN admins' = DOMAIN admins /\ born' = born
      /\ \A from \in Homes : \A i \in DOMAIN Collection(from) :
            Collection(from)'[i] = IF from = s.from /\ i = s.id THEN doc ELSE Collection(from)[i]
  BY UpdateHolds
<1>2. StoresTyped'
  BY <1>1 DEF StoresTyped
<1>3. \A from \in Homes : DOMAIN Collection(from)' = DOMAIN Collection(from)
  BY <1>1 DEF Collection
<1>4. HeldIsSaved'
  <2> SUFFICES ASSUME NEW from \in Homes, NEW i \in DOMAIN Collection(from), Collection(from)'[i].hashes = 1
               PROVE  secret[from][i] = Collection(from)'[i].password
    BY <1>3 DEF HeldIsSaved
  <2>1. Collection(from)'[i].hashes = Collection(from)[i].hashes
        /\ Collection(from)'[i].password = Collection(from)[i].password
    BY <1>1 DEF Current
  <2> QED
    BY <2>1 DEF HeldIsSaved
<1> QED
  BY <1>1, <1>2, <1>4 DEF Kept, Saves

LEMMA CurrentIsDocument ==
    ASSUME StoresTyped, NEW s \in Sights, Stored(s)
    PROVE  Current(s) \in Documents
  BY DEF StoresTyped, Stored, Current, Collection, Sights, Homes

LEMMA SaveKeeps ==
    ASSUME StoresTyped, HeldIsSaved, NEW s \in Sights, Stored(s), NEW p \in Passwords,
           Update(s, [Current(s) EXCEPT !.password = p, !.hashes = 1]),
           Remembered(s.from, s.id, p)
    PROVE  Kept
<1> DEFINE doc == [Current(s) EXCEPT !.password = p, !.hashes = 1]
<1>d. doc \in Documents /\ doc.password = p
  <2>1. PICK d \in Documents : d = Current(s)
    BY CurrentIsDocument
  <2>2. [d EXCEPT !.password = p, !.hashes = 1] \in Documents
        /\ [d EXCEPT !.password = p, !.hashes = 1].password = p
    BY DEF Documents
  <2> QED
    BY <2>1, <2>2
<1>u. Update(s, doc)
  OBVIOUS
<1> HIDE DEF doc
<1>s. s.id \in Ids /\ s.from \in Homes
  BY DEF Sights
<1>1. /\ users' \in [DOMAIN users -> Documents] /\ admins' \in [DOMAIN admins -> Documents]
      /\ DOMAIN users' = DOMAIN users /\ DOMAIN admins' = DOMAIN admins /\ born' = born
      /\ \A from \in Homes : \A i \in DOMAIN Collection(from) :
            Collection(from)'[i] = IF from = s.from /\ i = s.id THEN doc ELSE Collection(from)[i]
  BY <1>d, <1>u, UpdateHolds
<1>2. /\ secret' \in [Homes -> [Ids -> Passwords \cup {None}]] /\ changes' = changes + 1 /\ changes' \in Nat
      /\ \A from \in Homes, i \in Ids :
            secret'[from][i] = IF from = s.from /\ i = s.id THEN p ELSE secret[from][i]
  BY <1>s DEF Remembered, StoresTyped
<1>3. StoresTyped'
  BY <1>1, <1>2 DEF StoresTyped
<1>4. \A from \in Homes : DOMAIN Collection(from)' = DOMAIN Collection(from) /\ DOMAIN Collection(from) \subseteq Ids
  BY <1>1 DEF Collection, StoresTyped
<1>5. HeldIsSaved'
  <2> SUFFICES ASSUME NEW from \in Homes, NEW i \in DOMAIN Collection(from), Collection(from)'[i].hashes = 1
               PROVE  secret'[from][i] = Collection(from)'[i].password
    BY <1>4 DEF HeldIsSaved
  <2>1. secret'[from][i] = IF from = s.from /\ i = s.id THEN p ELSE secret[from][i]
    BY <1>2, <1>4
  <2> QED
    BY <1>1, <1>d, <2>1 DEF HeldIsSaved
<1> QED
  BY <1>1, <1>2, <1>3, <1>5 DEF Kept, Saves

(***************************************************************************)
(* A document that is new in a collection, with its password remembered;   *)
(* its number was given to it now or before.                               *)
(***************************************************************************)
LEMMA AddKeeps ==
    ASSUME StoresTyped, HeldIsSaved, NEW to \in Homes, NEW i \in Ids, NEW doc \in Documents, NEW p,
           p \in Passwords \cup {None}, doc.hashes = 1 => doc.password = p,
           i \notin DOMAIN Collection(to), i \in born', born' \subseteq Ids, born \subseteq born',
           \E n \in Nat : born' = 1..n,
           users' = IF to = "users" THEN With(users, i, doc) ELSE users,
           admins' = IF to = "admins" THEN With(admins, i, doc) ELSE admins,
           Remembered(to, i, p)
    PROVE  Kept
<1>1. /\ secret' \in [Homes -> [Ids -> Passwords \cup {None}]] /\ changes' = changes + 1 /\ changes' \in Nat
      /\ \A from \in Homes, j \in Ids :
            secret'[from][j] = IF from = to /\ j = i THEN p ELSE secret[from][j]
  BY DEF Remembered, StoresTyped
<1>2. users' \in [DOMAIN users' -> Documents] /\ DOMAIN users' \subseteq born'
  <2>1. CASE to = "users"
    BY <2>1 DEF With, StoresTyped
  <2>2. CASE to = "admins"
    BY <2>2 DEF StoresTyped
  <2> QED
    BY <2>1, <2>2 DEF Homes
<1>3. admins' \in [DOMAIN admins' -> Documents] /\ DOMAIN admins' \subseteq born'
  <2>1. CASE to = "users"
    BY <2>1 DEF StoresTyped
  <2>2. CASE to = "admins"
    BY <2>2 DEF With, StoresTyped
  <2> QED
    BY <2>1, <2>2 DEF Homes
<1>4. StoresTyped'
  BY <1>1, <1>2, <1>3 DEF StoresTyped
<1>5. HeldIsSaved'
  <2> SUFFICES ASSUME NEW from \in Homes, NEW j \in DOMAIN Collection(from)', Collection(from)'[j].hashes = 1
               PROVE  secret'[from][j] = Collection(from)'[j].password
    BY DEF HeldIsSaved
  <2>1. j \in Ids
    BY <1>4 DEF StoresTyped, Collection
  <2>2. CASE from = to /\ j = i
    <3>1. Collection(from)'[j] = doc
      BY <2>2 DEF Collection, With, Homes
    <3> QED
      BY <1>1, <2>1, <2>2, <3>1
  <2>3. CASE ~(from = to /\ j = i)
    <3>1. j \in DOMAIN Collection(from) /\ Collection(from)'[j] = Collection(from)[j]
      BY <2>3 DEF Collection, With, Homes
    <3> QED
      BY <1>1, <2>1, <2>3, <3>1 DEF HeldIsSaved
  <2> QED
    BY <2>2, <2>3
<1> QED
  BY <1>1, <1>4, <1>5 DEF Kept, Saves

LEMMA RestKeeps ==
    ASSUME StoresTyped, HeldIsSaved, UNCHANGED <<stores, secret, changes>>
    PROVE  Kept
  BY DEF StoresTyped, HeldIsSaved, Collection, Kept, Saves, stores

LEMMA RemoveKeeps ==
    ASSUME StoresTyped, HeldIsSaved, NEW s \in Sights,
           users' = IF s.from = "users" THEN Without(users, s.id) ELSE users,
           admins' = IF s.from = "admins" THEN Without(admins, s.id) ELSE admins,
           UNCHANGED <<born, secret, changes>>
    PROVE  Kept
<1>1. /\ users' \in [DOMAIN users' -> Documents] /\ DOMAIN users' \subseteq DOMAIN users
      /\ \A i \in DOMAIN users' : users'[i] = users[i]
  BY DEF Without, StoresTyped
<1>2. /\ admins' \in [DOMAIN admins' -> Documents] /\ DOMAIN admins' \subseteq DOMAIN admins
      /\ \A i \in DOMAIN admins' : admins'[i] = admins[i]
  BY DEF Without, StoresTyped
<1>3. StoresTyped'
  BY <1>1, <1>2 DEF StoresTyped
<1>4. HeldIsSaved'
  BY <1>1, <1>2 DEF HeldIsSaved, Collection
<1> QED
  BY <1>3, <1>4 DEF Kept, Saves

(***************************************************************************)
(* The number a new document gets was given to no other.                   *)
(***************************************************************************)
LEMMA NextNumber ==
    ASSUME StoresTyped, NEW i \in Ids, i = Cardinality(born) + 1
    PROVE  /\ i \notin born
           /\ \E n \in Nat : born \cup {i} = 1..n
<1>1. PICK n \in Nat : born = 1..n
  BY DEF StoresTyped
<1>2. Cardinality(born) = n
  BY <1>1, FS_Interval
<1>3. 1..n \cup {n + 1} = 1..(n + 1)
  OBVIOUS
<1> QED
  BY <1>1, <1>2, <1>3

LEMMA CreateKeeps ==
    ASSUME StoresTyped, HeldIsSaved, NEW c \in Clients, NEW e \in Emails, NEW p \in Passwords,
           NEW g \in BOOLEAN, NEW role \in Roles, Create(c, e, p, g, role)
    PROVE  Kept
<1> DEFINE to  == Home(role)
           doc == [Doc(e, p, g) EXCEPT !.role = role]
<1>1. PICK i \in Ids : /\ i = Cardinality(born) + 1
                       /\ users' = IF to = "users" THEN With(users, i, doc) ELSE users
                       /\ admins' = IF to = "admins" THEN With(admins, i, doc) ELSE admins
                       /\ born' = born \cup {i}
                       /\ Remembered(to, i, p)
  BY DEF Create
<1>2. i \notin born /\ \E n \in Nat : born \cup {i} = 1..n
  BY <1>1, NextNumber
<1>3. doc = [email |-> e, password |-> p, hashes |-> 1, role |-> role, status |-> "active", github |-> g]
  BY DEF Doc
<1>4. doc \in Documents /\ doc.password = p
  BY <1>3 DEF Documents
<1>5. to \in Homes
  BY DEF Home, Homes
<1>6. i \notin DOMAIN Collection(to) /\ born \subseteq Ids
  BY <1>2, <1>5 DEF StoresTyped, Collection
<1> HIDE DEF doc, to, With
<1> QED
  BY <1>1, <1>2, <1>4, <1>5, <1>6, AddKeeps

LEMMA ResetKeeps ==
    ASSUME RequestsFit, StoresTyped, HeldIsSaved, NEW c \in Clients, Reset(c)
    PROVE  Kept
<1>1. CASE At(c, "reset", "found") /\ Stored(request[c].seen)
  <2> DEFINE s == request[c].seen
             p == request[c].password
  <2>1. s \in Sights /\ p \in Passwords
    BY <1>1 DEF RequestsFit, Fits, Requests, At, Tabs
  <2>2. Update(s, [Current(s) EXCEPT !.password = p, !.hashes = 1]) /\ Remembered(s.from, s.id, p)
    BY <1>1 DEF Reset, At
  <2> HIDE DEF s, p
  <2> QED
    BY <1>1, <2>1, <2>2, SaveKeeps DEF s
<1>2. CASE ~(At(c, "reset", "found") /\ Stored(request[c].seen))
  <2>1. UNCHANGED <<stores, secret, changes>>
    BY <1>2 DEF Reset, ghosts
  <2> QED
    BY <2>1, RestKeeps
<1> QED
  BY <1>1, <1>2

LEMMA ChangedDocument ==
    ASSUME StoresTyped, HeldIsSaved, NEW s \in Sights, Stored(s), UNCHANGED <<secret, changes>>,
           NEW g \in BOOLEAN, NEW role \in Roles, NEW status \in {"active", "banned"},
           \/ Update(s, [Current(s) EXCEPT !.github = g])
           \/ Update(s, [Current(s) EXCEPT !.role = role])
           \/ Update(s, [Current(s) EXCEPT !.status = status])
    PROVE  Kept
<1>1. Current(s) \in Documents
  BY CurrentIsDocument
<1>2. PICK d \in Documents : d = Current(s)
  BY <1>1
<1>3. /\ [d EXCEPT !.github = g] \in Documents
      /\ [d EXCEPT !.role = role] \in Documents
      /\ [d EXCEPT !.status = status] \in Documents
  BY DEF Documents
<1>4. PICK doc \in Documents : doc.hashes = d.hashes /\ doc.password = d.password /\ Update(s, doc)
  <2>1. CASE Update(s, [d EXCEPT !.github = g])
    BY <1>3, <2>1 DEF Documents
  <2>2. CASE Update(s, [d EXCEPT !.role = role])
    BY <1>3, <2>2 DEF Documents
  <2>3. CASE Update(s, [d EXCEPT !.status = status])
    BY <1>3, <2>3 DEF Documents
  <2> QED
    BY <1>2, <2>1, <2>2, <2>3
<1> QED
  BY <1>2, <1>4, UpdateKeeps

LEMMA NoIdIsNoNumber == NoId \notin Ids /\ 1 \in Ids /\ 1 \in Codes
<1>1. Cardinality(Ids) \in Nat /\ Cardinality(Codes) \in Nat
  BY NumbersAreFromOne, FS_CardinalityType
<1> QED
  BY <1>1, NumbersAreFromOne DEF NoId

LEMMA RoleKeeps ==
    ASSUME RequestsFit, StoresTyped, SeenAreBorn, HeldIsSaved, NEW d \in Desks, ChangeRole(d)
    PROVE  Kept
<1> DEFINE s  == request[d].seen
           to == Home(request[d].goal)
<1>0. CASE UNCHANGED <<stores, secret, changes>>
  BY <1>0, RestKeeps
<1>f. ASSUME At(d, "role", "found") \/ At(d, "role", "create")
      PROVE  s \in Sights /\ request[d].goal \in Roles /\ to \in Homes
  BY <1>f DEF RequestsFit, Fits, At, Tabs, Home, Homes
<1>1. CASE At(d, "role", "found") /\ Stored(s) /\ Update(s, [Current(s) EXCEPT !.role = request[d].goal])
           /\ UNCHANGED ghosts
  <2>1. UNCHANGED <<secret, changes>> /\ TRUE \in BOOLEAN /\ "active" \in {"active", "banned"}
    BY <1>1 DEF ghosts
  <2> HIDE DEF s, to
  <2> QED
    BY <1>1, <1>f, <2>1, ChangedDocument
<1>2. CASE /\ At(d, "role", "found")
           /\ users' = IF s.from = "users" THEN Without(users, s.id) ELSE users
           /\ admins' = IF s.from = "admins" THEN Without(admins, s.id) ELSE admins
           /\ UNCHANGED <<born, ghosts>>
  <2>1. UNCHANGED <<born, secret, changes>>
    BY <1>2 DEF ghosts
  <2> HIDE DEF s, to
  <2> QED
    BY <1>2, <1>f, <2>1, RemoveKeeps
<1>3. CASE /\ At(d, "role", "create") /\ s.id \notin DOMAIN Collection(to)
           /\ users' = IF to = "users" THEN With(users, s.id, Moved(s, request[d].goal)) ELSE users
           /\ admins' = IF to = "admins" THEN With(admins, s.id, Moved(s, request[d].goal)) ELSE admins
           /\ Remembered(to, s.id, secret[s.from][s.id])
           /\ UNCHANGED born
  <2>s. s \in Sights /\ request[d].goal \in Roles /\ to \in Homes
    BY <1>3, <1>f
  <2> DEFINE doc == Moved(s, request[d].goal)
  <2>1. doc \in Documents /\ doc.hashes # 1
    BY <2>s DEF Moved, Documents, Sights
  <2>2. s.id \in Ids /\ secret[s.from][s.id] \in Passwords \cup {None}
    BY <2>s DEF Sights, StoresTyped
  <2>3. s.id \in born'
    BY <1>3, <2>2, NoIdIsNoNumber DEF SeenAreBorn, Tabs
  <2> HIDE DEF s, to, doc
  <2> QED
    BY <1>3, <2>s, <2>1, <2>2, <2>3, AddKeeps DEF doc, StoresTyped
<1> QED
  BY <1>0, <1>1, <1>2, <1>3 DEF ChangeRole, ghosts, stores

LEMMA PeopleKeep ==
    ASSUME RequestsFit, StoresTyped, HeldIsSaved, NEW c \in Clients,
           Registered(c) \/ Github(c) \/ Link(c) \/ Profile(c)
    PROVE  Kept
<1> DEFINE r == request[c]
<1>0. CASE UNCHANGED <<stores, secret, changes>>
  BY <1>0, RestKeeps
<1>r. c \in Tabs /\ Fits(r)
  BY DEF RequestsFit, Tabs
<1>1. CASE /\ At(c, "register", "missing")
           /\ Create(c, r.email, r.password, link[c] = "signup", RoleOf(r))
  <2>1. r.email \in Emails /\ r.password \in Passwords /\ (link[c] = "signup") \in BOOLEAN
    BY <1>r, <1>1 DEF Fits, Requests, Forms, At
  <2>2. RoleOf(r) \in Roles
    BY <1>r, <1>1 DEF Fits, At, RoleOf, Roles
  <2> HIDE DEF r
  <2> QED
    BY <1>1, <2>1, <2>2, CreateKeeps
<1>2. CASE /\ At(c, "github", "missing")
           /\ Create(c, r.email, "random", TRUE, "user")
  <2>1. r.email \in Emails /\ "random" \in Passwords /\ "user" \in Roles
    BY <1>r, <1>2 DEF Fits, Requests, Forms, At, Passwords, Roles
  <2> QED
    BY <1>2, <2>1, CreateKeeps
<1>3. CASE /\ r.step = "found" /\ Stored(r.seen) /\ UNCHANGED <<secret, changes>>
           /\ \E g \in BOOLEAN : Update(r.seen, [Current(r.seen) EXCEPT !.github = g])
  <2>1. r.seen \in Sights /\ "user" \in Roles
    BY <1>r, <1>3 DEF Fits, Roles
  <2> HIDE DEF r
  <2> QED
    BY <1>3, <2>1, ChangedDocument
<1>4. CASE Registered(c)
  BY <1>0, <1>1, <1>4 DEF Registered, stores, ghosts
<1>5. CASE Github(c)
  BY <1>0, <1>2, <1>5 DEF Github, stores, ghosts
<1>6. CASE Link(c)
  BY <1>0, <1>3, <1>6 DEF Link, Linked, stores, ghosts
<1>7. CASE Profile(c)
  BY <1>0, <1>3, <1>7 DEF Profile, stores, ghosts
<1> QED
  BY <1>4, <1>5, <1>6, <1>7

LEMMA StatusKeeps ==
    ASSUME RequestsFit, StoresTyped, HeldIsSaved, NEW d \in Desks, ChangeStatus(d)
    PROVE  Kept
<1> DEFINE r == request[d]
<1>1. CASE UNCHANGED <<stores, secret, changes>>
  BY <1>1, RestKeeps
<1>2. CASE /\ r.step = "found" /\ Stored(r.seen)
           /\ Update(r.seen, [Current(r.seen) EXCEPT !.status = r.goal])
  <2>1. r.seen \in Sights /\ r.goal \in {"active", "banned"} /\ "user" \in Roles /\ TRUE \in BOOLEAN
    BY <1>2 DEF RequestsFit, Tabs, Fits, Roles, ChangeStatus, At
  <2>2. UNCHANGED <<secret, changes>>
    BY DEF ChangeStatus, ghosts
  <2> HIDE DEF r
  <2> QED
    BY <1>2, <2>1, <2>2, ChangedDocument
<1> QED
  BY <1>1, <1>2 DEF ChangeStatus, stores, ghosts

LEMMA NextKept ==
    ASSUME RequestsFit, StoresTyped, SeenAreBorn, HeldIsSaved, [Next]_vars
    PROVE  Kept
<1>1. CASE UNCHANGED <<stores, secret, changes>>
  BY <1>1, RestKeeps
<1>2. ASSUME NEW c \in Clients, Registered(c) \/ Reset(c) \/ Github(c) \/ Link(c) \/ Profile(c) PROVE Kept
  BY <1>2, PeopleKeep, ResetKeeps
<1>3. ASSUME NEW d \in Desks, ChangeRole(d) \/ ChangeStatus(d) PROVE Kept
  BY <1>3, RoleKeeps, StatusKeeps
<1>4. ASSUME NEW c \in Clients, SendForm(c) \/ SendSignedIn(c) \/ LoggedIn(c) \/ Forgot(c) \/ Verify(c)
             \/ SignOut(c) \/ TokenExpires(c)
      PROVE  UNCHANGED <<stores, secret, changes>>
  BY <1>4 DEF SendForm, SendSignedIn, Send, LoggedIn, Forgot, Verify, SignOut, TokenExpires, ghosts, stores
<1>5. ASSUME NEW d \in Desks, SendDesk(d) PROVE UNCHANGED <<stores, secret, changes>>
  BY <1>5 DEF SendDesk, Send, ghosts, stores
<1>6. ASSUME NEW t \in Tabs, Lookup(t) PROVE UNCHANGED <<stores, secret, changes>>
  BY <1>6 DEF Lookup, Look, ghosts, stores
<1>7. ASSUME CodeExpires \/ Restart \/ UNCHANGED vars PROVE UNCHANGED <<stores, secret, changes>>
  BY <1>7 DEF CodeExpires, Restart, vars, ghosts, stores
<1> QED
  BY <1>1, <1>2, <1>3, <1>4, <1>5, <1>6, <1>7 DEF Next

LEMMA NextBorn ==
    ASSUME RequestsFit, StoresTyped, SeenAreBorn, AllMove, Kept
    PROVE  SeenAreBorn'
<1> SUFFICES ASSUME NEW t \in Tabs PROVE request'[t].seen.id \in born' \cup {NoId}
  BY DEF SeenAreBorn
<1>r. Fits(request[t]) /\ request[t].seen.id \in born \cup {NoId} /\ Moves(t) /\ born \subseteq born'
  BY DEF RequestsFit, SeenAreBorn, AllMove, Kept
<1>1. CASE request'[t] = Idle
  BY <1>1 DEF Idle, Nobody
<1>2. CASE Sent(request'[t])
  <2>1. request'[t].seen = Nobody
    BY <1>2 DEF Sent
  <2> QED
    BY <2>1 DEF Nobody
<1>3. CASE Onwards(request[t], request'[t])
  BY <1>r, <1>3 DEF Onwards, Fits, Requests
<1>4. CASE Sees(request[t], request'[t])
  <2>1. PICK step \in {"found", "linked"}, from \in Homes : \E i \in DOMAIN Collection(from) :
           request'[t] = [request[t] EXCEPT !.step = step, !.seen = Seen(from, i)]
    BY <1>4 DEF Sees
  <2>2. PICK i \in DOMAIN Collection(from) :
           request'[t] = [request[t] EXCEPT !.step = step, !.seen = Seen(from, i)]
    BY <2>1
  <2>3. i \in born
    BY DEF StoresTyped, Collection
  <2>4. request'[t].seen = Seen(from, i)
    BY <1>r, <2>2 DEF Fits, Requests
  <2> QED
    BY <1>r, <2>3, <2>4 DEF Seen
<1>5. CASE Coded(request[t], request'[t])
  BY <1>r, <1>5 DEF Coded, Fits, Requests
<1> QED
  BY <1>r, <1>1, <1>2, <1>3, <1>4, <1>5 DEF Moves

LEMMA NextInformed ==
    ASSUME RequestsFit, StoresTyped, HeldIsSaved, LoginsInformed, AllMove, Kept
    PROVE  LoginsInformed'
<1> SUFFICES ASSUME NEW t \in Tabs, request'[t].op = "login"
             PROVE  /\ request'[t].began <= changes'
                    /\ request'[t].step = "found" /\ request'[t].began = changes' /\ request'[t].seen.hashes = 1
                        => secret'[request'[t].seen.from][request'[t].seen.id] = request'[t].seen.password
  BY DEF LoginsInformed, Informed
<1>r. /\ Fits(request[t]) /\ Informed(request[t]) /\ Moves(t) /\ changes \in Nat
      /\ (secret' = secret /\ changes' = changes) \/ changes' = changes + 1
  BY DEF RequestsFit, LoginsInformed, AllMove, StoresTyped, Kept, Saves
<1>b. request[t].began \in Nat
  BY <1>r DEF Fits, Requests
<1>1. CASE request'[t] = Idle
  BY <1>1 DEF Idle, None
<1>2. CASE Sent(request'[t])
  <2>1. request'[t].step = "users" /\ request'[t].began = changes
    BY <1>2 DEF Sent
  <2> QED
    BY <1>r, <2>1
<1>3. ASSUME request[t].op = "login", request'[t].began = request[t].began,
             request'[t].step # "found" \/ (request'[t].seen = request[t].seen /\ request[t].step = "found")
      PROVE  /\ request'[t].began <= changes'
             /\ request'[t].step = "found" /\ request'[t].began = changes' /\ request'[t].seen.hashes = 1
                 => secret'[request'[t].seen.from][request'[t].seen.id] = request'[t].seen.password
  <2>1. request[t].began <= changes
    BY <1>r, <1>3 DEF Informed
  <2>2. CASE changes' = changes + 1
    BY <1>r, <1>b, <1>3, <2>1, <2>2
  <2>3. CASE secret' = secret /\ changes' = changes
    BY <1>r, <1>3, <2>1, <2>3 DEF Informed
  <2> QED
    BY <1>r, <2>2, <2>3
<1>4. CASE request'[t] = request[t]
  BY <1>3, <1>4
<1>5. CASE Onwards(request[t], request'[t])
  BY <1>r, <1>3, <1>5 DEF Onwards, Fits, Requests
<1>6. CASE Sees(request[t], request'[t])
  <2>1. PICK step \in {"found", "linked"}, from \in Homes : \E i \in DOMAIN Collection(from) :
           request'[t] = [request[t] EXCEPT !.step = step, !.seen = Seen(from, i)]
    BY <1>6 DEF Sees
  <2>2. PICK i \in DOMAIN Collection(from) :
           request'[t] = [request[t] EXCEPT !.step = step, !.seen = Seen(from, i)]
    BY <2>1
  <2>3. /\ request'[t].seen = Seen(from, i) /\ request[t].op = "login"
        /\ request'[t].began = request[t].began
    BY <1>r, <2>2 DEF Fits, Requests
  <2>4. UNCHANGED <<secret, changes>> /\ request[t].began <= changes
    BY <1>r, <1>6, <2>3 DEF Sees, ghosts, Informed
  <2>5. Seen(from, i).hashes = 1 => secret[from][i] = Seen(from, i).password
    BY SeenIsSight DEF HeldIsSaved
  <2> QED
    BY <2>3, <2>4, <2>5, SeenIsSight
<1>7. CASE Coded(request[t], request'[t])
  BY <1>r, <1>7 DEF Coded, Fits, Requests
<1> QED
  BY <1>r, <1>1, <1>2, <1>4, <1>5, <1>6, <1>7 DEF Moves

(***************************************************************************)
(* Codes, tokens, sessions and bounds.                                     *)
(***************************************************************************)
OtpsTyped   == otps \subseteq [email : Emails, code : Codes, verified : BOOLEAN, expired : BOOLEAN]
               /\ codes \in Nat /\ mailed \in [Emails -> SUBSET Codes]
PagesTyped  == /\ session \in [Clients -> Ids \cup {NoId}]
               /\ token \in [Clients -> Emails \cup {None}]
               /\ link \in [Clients -> {None, "link", "signup"}]
BoundsTyped == count \in 0..MaxRequests /\ crashes \in 0..MaxCrashes

LEMMA NextOtps ==
    ASSUME RequestsFit, RestTyped, [Next]_vars
    PROVE  OtpsTyped'
<1> USE DEF RestTyped, OtpsTyped
<1>0. ASSUME UNCHANGED <<otps, codes, mailed>> PROVE OtpsTyped'
  BY <1>0
<1>1. ASSUME NEW c \in Clients, Forgot(c) PROVE OtpsTyped'
  <2> DEFINE r == request[c]
  <2>1. r.op = "forgot" => r.email \in Emails
    BY DEF RequestsFit, Fits, Forms, Tabs
  <2>2. r.step = "mail" => r.code \in Codes
    BY DEF RequestsFit, Fits, Tabs
  <2>3. CASE At(c, "forgot", "missing") /\ UNCHANGED <<otps, mail>>
    BY <2>3 DEF mail
  <2>4. CASE At(c, "forgot", "found") /\ otps' = Others(r.email) /\ UNCHANGED mail
    BY <2>4 DEF mail, Others
  <2>5. CASE /\ At(c, "forgot", "create") /\ UNCHANGED mailed
             /\ \E k \in Codes : /\ k = codes + 1 /\ codes' = k
                                 /\ otps' = otps \cup {[email |-> r.email, code |-> k,
                                                        verified |-> FALSE, expired |-> FALSE]}
    <3>1. PICK k \in Codes : /\ k = codes + 1 /\ codes' = k
                             /\ otps' = otps \cup {[email |-> r.email, code |-> k,
                                                    verified |-> FALSE, expired |-> FALSE]}
      BY <2>5
    <3>2. r.email \in Emails
      BY <2>1, <2>5 DEF At
    <3>3. [email |-> r.email, code |-> k, verified |-> FALSE, expired |-> FALSE]
             \in [email : Emails, code : Codes, verified : BOOLEAN, expired : BOOLEAN]
      BY <3>2
    <3>4. codes' \in Nat /\ mailed' = mailed
      BY <2>5, <3>1
    <3> QED
      BY <3>1, <3>3, <3>4
  <2>6. CASE /\ At(c, "forgot", "mail") /\ UNCHANGED <<otps, codes>>
             /\ mailed' = [mailed EXCEPT ![r.email] = @ \cup {r.code}] \/ UNCHANGED mailed
    BY <2>1, <2>2, <2>6 DEF At
  <2> QED
    BY <1>1, <2>3, <2>4, <2>5, <2>6 DEF Forgot
<1>2. ASSUME NEW c \in Clients, Verify(c) PROVE OtpsTyped'
  <2>1. UNCHANGED <<codes, mailed>>
    BY <1>2 DEF Verify, mail
  <2>2. \/ otps' \subseteq otps
        \/ \E o \in otps : otps' = (otps \ {o}) \cup {[o EXCEPT !.verified = TRUE]}
    BY <1>2 DEF Verify
  <2> QED
    BY <2>1, <2>2
<1>3. ASSUME NEW c \in Clients, Reset(c) PROVE OtpsTyped'
  BY <1>3 DEF Reset, mail, Others
<1>4. ASSUME CodeExpires PROVE OtpsTyped'
  BY <1>4 DEF CodeExpires, mail
<1>5. ASSUME NEW c \in Clients, SendForm(c) \/ SendSignedIn(c) \/ Registered(c) \/ LoggedIn(c)
             \/ Github(c) \/ Link(c) \/ Profile(c) \/ SignOut(c) \/ TokenExpires(c)
      PROVE  OtpsTyped'
  <2>1. UNCHANGED <<otps, codes, mailed>>
    BY <1>5 DEF SendForm, SendSignedIn, Send, Registered, LoggedIn, Github, Link, Profile, SignOut,
        TokenExpires, mail
  <2> QED
    BY <1>0, <2>1
<1>6. ASSUME NEW d \in Desks, SendDesk(d) \/ ChangeRole(d) \/ ChangeStatus(d) PROVE OtpsTyped'
  <2>1. UNCHANGED <<otps, codes, mailed>>
    BY <1>6 DEF SendDesk, Send, ChangeRole, ChangeStatus, mail
  <2> QED
    BY <1>0, <2>1
<1>7. ASSUME (\E t \in Tabs : Lookup(t)) \/ Restart \/ UNCHANGED vars PROVE OtpsTyped'
  BY <1>0, <1>7 DEF Lookup, Look, Restart, vars, mail
<1> QED
  BY <1>1, <1>2, <1>3, <1>4, <1>5, <1>6, <1>7 DEF Next

LEMMA NextPages ==
    ASSUME RequestsFit, StoresTyped, RestTyped, [Next]_vars
    PROVE  PagesTyped'
<1> USE DEF RestTyped, PagesTyped
<1>0. ASSUME UNCHANGED pages PROVE PagesTyped'
  BY <1>0 DEF pages
<1>r. ASSUME NEW c \in Clients, request[c].step \in {"found", "linked"}
      PROVE  request[c].seen.id \in Ids
  BY <1>r DEF RequestsFit, Fits, Tabs, Sights
<1>1. ASSUME NEW c \in Clients, Registered(c) PROVE PagesTyped'
  BY <1>0, <1>1 DEF Registered, Create
<1>2. ASSUME NEW c \in Clients, LoggedIn(c) PROVE PagesTyped'
  BY <1>0, <1>2, <1>r DEF LoggedIn, SignedIn
<1>3. ASSUME NEW c \in Clients, Verify(c) PROVE PagesTyped'
  <2>1. request[c].op = "verify" => request[c].email \in Emails
    BY DEF RequestsFit, Fits, Forms, Tabs
  <2>2. UNCHANGED <<session, link>>
        /\ (UNCHANGED token \/ (At(c, "verify", "save") /\ token' = [token EXCEPT ![c] = request[c].email]))
    BY <1>3 DEF Verify
  <2> QED
    BY <2>1, <2>2 DEF At
<1>4. ASSUME NEW c \in Clients, Github(c) PROVE PagesTyped'
  <2>1. CASE UNCHANGED pages
    BY <1>0, <2>1
  <2>2. CASE At(c, "github", "linked") /\ SignedIn(c, request[c].seen.id)
    BY <1>r, <2>2 DEF SignedIn, At
  <2>3. CASE UNCHANGED <<session, token>> /\ \E l \in {"link", "signup"} : link' = [link EXCEPT ![c] = l]
    BY <2>3
  <2>4. CASE Create(c, request[c].email, "random", TRUE, "user")
    BY <2>4 DEF Create
  <2> QED
    BY <1>4, <2>1, <2>2, <2>3, <2>4 DEF Github
<1>5. ASSUME NEW c \in Clients, Link(c) PROVE PagesTyped'
  BY <1>0, <1>5, <1>r DEF Link
<1>6. ASSUME NEW c \in Clients, SignOut(c) \/ TokenExpires(c) PROVE PagesTyped'
  BY <1>6 DEF SignOut, TokenExpires
<1>7. ASSUME NEW c \in Clients, SendForm(c) \/ SendSignedIn(c) \/ Forgot(c) \/ Reset(c) \/ Profile(c)
      PROVE  PagesTyped'
  <2>1. UNCHANGED pages
    BY <1>7 DEF SendForm, SendSignedIn, Send, Forgot, Reset, Profile
  <2> QED
    BY <1>0, <2>1
<1>8. ASSUME NEW d \in Desks, SendDesk(d) \/ ChangeRole(d) \/ ChangeStatus(d) PROVE PagesTyped'
  <2>1. UNCHANGED pages
    BY <1>8 DEF SendDesk, Send, ChangeRole, ChangeStatus
  <2> QED
    BY <1>0, <2>1
<1>9. ASSUME (\E t \in Tabs : Lookup(t)) \/ CodeExpires \/ Restart \/ UNCHANGED vars PROVE PagesTyped'
  BY <1>0, <1>9 DEF Lookup, Look, CodeExpires, Restart, vars
<1> QED
  BY <1>1, <1>2, <1>3, <1>4, <1>5, <1>6, <1>7, <1>8, <1>9 DEF Next

LEMMA NextBounds == ASSUME RestTyped, [Next]_vars PROVE BoundsTyped'
<1> USE DEF RestTyped, BoundsTyped
<1>m. MaxRequests \in Nat /\ MaxCrashes \in Nat
  BY LimitsAreNumbers
<1>0. ASSUME UNCHANGED bounds PROVE BoundsTyped'
  BY <1>0 DEF bounds
<1>1. ASSUME NEW t, NEW r, Send(t, r) PROVE BoundsTyped'
  BY <1>m, <1>1 DEF Send
<1>2. ASSUME NEW c \in Clients, SendForm(c) \/ SendSignedIn(c) PROVE BoundsTyped'
  BY <1>1, <1>2 DEF SendForm, SendSignedIn
<1>3. ASSUME NEW d \in Desks, SendDesk(d) PROVE BoundsTyped'
  BY <1>1, <1>3 DEF SendDesk
<1>4. ASSUME Restart PROVE BoundsTyped'
  BY <1>m, <1>4 DEF Restart
<1>5. ASSUME NEW c \in Clients, Registered(c) \/ LoggedIn(c) \/ Forgot(c) \/ Verify(c) \/ Reset(c)
             \/ Github(c) \/ Link(c) \/ Profile(c) \/ SignOut(c) \/ TokenExpires(c)
      PROVE  BoundsTyped'
  <2>1. UNCHANGED bounds
    BY <1>5 DEF Registered, LoggedIn, Forgot, Verify, Reset, Github, Link, Profile, SignOut, TokenExpires
  <2> QED
    BY <1>0, <2>1
<1>6. ASSUME NEW d \in Desks, ChangeRole(d) \/ ChangeStatus(d) PROVE BoundsTyped'
  BY <1>0, <1>6 DEF ChangeRole, ChangeStatus
<1>7. ASSUME (\E t \in Tabs : Lookup(t)) \/ CodeExpires \/ UNCHANGED vars PROVE BoundsTyped'
  BY <1>0, <1>7 DEF Lookup, Look, CodeExpires, vars
<1> QED
  BY <1>2, <1>3, <1>4, <1>5, <1>6, <1>7 DEF Next

(***************************************************************************)
(* The step that changes the session of a client whose login has found a   *)
(* document is the login's own: every other handler needs another request. *)
(***************************************************************************)
LEMMA OnlyLoginsSignIn ==
    ASSUME RestTyped, [Next]_vars, NEW c \in Clients, At(c, "login", "found"), session'[c] # session[c]
    PROVE  Opens(request[c].seen, request[c].password)
<1>f. session \in [Clients -> Ids \cup {NoId}] /\ request[c].op = "login"
  BY DEF RestTyped, At
<1>0. ~UNCHANGED session
  OBVIOUS
<1>1. ASSUME NEW d \in Clients, NEW x, session' = [session EXCEPT ![d] = x] PROVE d = c
  BY <1>1, <1>f
<1>2. ASSUME NEW d \in Clients, LoggedIn(d) PROVE Opens(request[c].seen, request[c].password)
  BY <1>0, <1>1, <1>2 DEF LoggedIn, SignedIn, pages
<1>3. ASSUME NEW d \in Clients, Registered(d) \/ Github(d) \/ Link(d) \/ SignOut(d) PROVE FALSE
  <2>1. \E x : session' = [session EXCEPT ![d] = x]
    BY <1>0, <1>3 DEF Registered, Github, Link, SignOut, Create, SignedIn, pages
  <2>2. d = c
    BY <1>1, <2>1
  <2>3. (Registered(d) => request[d].op = "register") /\ (Github(d) => request[d].op = "github")
    BY DEF Registered, Github, At
  <2>4. (Link(d) => request[d].op = "link") /\ (SignOut(d) => request[d].op = "none")
    BY DEF Link, SignOut, At, Idle, None
  <2> QED
    BY <1>3, <1>f, <2>2, <2>3, <2>4
<1>4. ASSUME NEW d \in Clients, SendForm(d) \/ SendSignedIn(d) \/ Forgot(d) \/ Verify(d) \/ Reset(d)
             \/ Profile(d) \/ TokenExpires(d)
      PROVE  UNCHANGED session
  BY <1>4 DEF SendForm, SendSignedIn, Send, Forgot, Verify, Reset, Profile, TokenExpires, pages
<1>5. ASSUME NEW d \in Desks, SendDesk(d) \/ ChangeRole(d) \/ ChangeStatus(d) PROVE UNCHANGED session
  BY <1>5 DEF SendDesk, Send, ChangeRole, ChangeStatus, pages
<1>6. ASSUME (\E t \in Tabs : Lookup(t)) \/ CodeExpires \/ Restart \/ UNCHANGED vars
      PROVE  UNCHANGED session
  BY <1>6 DEF Lookup, Look, CodeExpires, Restart, vars, pages
<1> QED
  BY <1>0, <1>2, <1>3, <1>4, <1>5, <1>6 DEF Next

LEMMA InitStores ==
    ASSUME Init
    PROVE  StoresTyped /\ HeldIsSaved /\ born \in {{}, {1}}
<1>n. 1 \in Ids
  BY NoIdIsNoNumber
<1>a. admins \in [DOMAIN admins -> Documents] /\ DOMAIN admins = {}
  BY DEF Init
<1>u. /\ users \in [DOMAIN users -> Documents] /\ DOMAIN users \in {{}, {1}}
      /\ \A i \in DOMAIN users : users[i].password = "first"
  <2>1. CASE users = <<>>
    BY <2>1
  <2>2. CASE \E e \in Emails : users = With(<<>>, 1, Doc(e, "first", FALSE))
    <3>1. PICK e \in Emails : users = With(<<>>, 1, Doc(e, "first", FALSE))
      BY <2>2
    <3>2. Doc(e, "first", FALSE) \in Documents /\ Doc(e, "first", FALSE).password = "first"
      BY DEF Doc, Documents, Passwords, Typable, Long, Roles
    <3>3. users = [i \in {1} |-> Doc(e, "first", FALSE)]
      BY <3>1 DEF With
    <3> HIDE DEF Doc
    <3> QED
      BY <3>2, <3>3
  <2> QED
    BY <2>1, <2>2 DEF Init
<1>s. /\ secret \in [Homes -> [Ids -> Passwords \cup {None}]]
      /\ \A i \in DOMAIN users : secret["users"][i] = "first"
  BY <1>n, <1>u DEF Init, Homes, Passwords, Typable, Long
<1>b. born = DOMAIN users /\ changes = 0
  BY DEF Init
<1>c. \E n \in Nat : born = 1..n
  <2>1. {} = 1..0 /\ {1} = 1..1 /\ 0 \in Nat /\ 1 \in Nat
    OBVIOUS
  <2> QED
    BY <1>b, <1>u, <2>1
<1>1. StoresTyped
  BY <1>n, <1>a, <1>u, <1>s, <1>b, <1>c DEF StoresTyped
<1>2. HeldIsSaved
  BY <1>a, <1>u, <1>s DEF HeldIsSaved, Collection, Homes
<1> QED
  BY <1>1, <1>2, <1>b, <1>u

LEMMA InitRest ==
    ASSUME Init
    PROVE  RestTyped
<1> DEFINE OTP == [email : Emails, code : Codes, verified : BOOLEAN, expired : BOOLEAN]
<1>n. 1 \in Codes /\ MaxRequests \in Nat /\ MaxCrashes \in Nat
  BY NoIdIsNoNumber, LimitsAreNumbers
<1>u. users \in [DOMAIN users -> Documents] /\ born = DOMAIN users
  BY InitStores DEF StoresTyped, Init
<1>o. otps = {} \/ \E x \in OTP : otps = {x}
  <2>1. otps = {} \/ \E i \in born : otps = {[email |-> users[i].email, code |-> 1, verified |-> TRUE, expired |-> FALSE]}
    BY DEF Init
  <2>2. \A i \in born : users[i].email \in Emails
    BY <1>u DEF Documents
  <2> QED
    BY <1>n, <2>1, <2>2
<1>c. codes \in Nat
  <2>1. IsFiniteSet(otps)
    BY <1>o, FS_EmptySet, FS_Singleton
  <2> QED
    BY <2>1, FS_CardinalityType DEF Init
<1>s. otps \subseteq OTP
  BY <1>o
<1>m. mailed \in [Emails -> SUBSET Codes]
  BY <1>s DEF Init
<1>p. session \in [Clients -> Ids \cup {NoId}] /\ link \in [Clients -> {None, "link", "signup"}]
  BY DEF Init
<1>t. token \in [Clients -> Emails \cup {None}]
  <2>1. CASE otps = {}
    BY <2>1 DEF Init
  <2>2. CASE otps # {}
    <3>1. PICK c \in Clients, o \in otps : token = [d \in Clients |-> IF d = c THEN o.email ELSE None]
      BY <2>2 DEF Init
    <3> QED
      BY <3>1, <1>s
  <2> QED
    BY <2>1, <2>2
<1>q. count \in 0..MaxRequests /\ crashes \in 0..MaxCrashes
  BY <1>n DEF Init
<1> QED
  BY <1>s, <1>c, <1>m, <1>p, <1>t, <1>q DEF RestTyped

LEMMA InitHolds == Init => IInv
<1> SUFFICES ASSUME Init PROVE IInv
  OBVIOUS
<1>1. StoresTyped /\ HeldIsSaved /\ RestTyped
  BY InitStores, InitRest
<1>2. request = [t \in Tabs |-> Idle]
  BY DEF Init
<1>3. RequestsFit
  BY <1>2, IdleFits DEF RequestsFit
<1>4. SeenAreBorn
  BY <1>2 DEF SeenAreBorn, Idle, Nobody
<1>5. CountsTyped /\ CodesAreRecent
  BY DEF Init, CountsTyped, CodesAreRecent
<1>6. LoginsInformed /\ ResetsProven
  BY <1>2 DEF LoginsInformed, ResetsProven, Informed, Proven, Idle, None
<1> QED
  BY <1>1, <1>3, <1>4, <1>5, <1>6 DEF IInv

LEMMA NextHolds == IInv /\ [Next]_vars => IInv'
<1> SUFFICES ASSUME IInv, [Next]_vars PROVE IInv'
  OBVIOUS
<1> USE DEF IInv
<1>1. AllMove /\ RequestsFit'
  BY NextMoves, NextFits
<1>2. Kept
  BY NextKept
<1>3. SeenAreBorn' /\ LoginsInformed'
  BY <1>1, <1>2, NextBorn, NextInformed
<1>4. CountsTyped' /\ CountsGrow /\ CodesAreRecent'
  BY NextCounts
<1>5. ResetsProven'
  BY <1>1, <1>4, NextProven
<1>6. RestTyped'
  BY NextOtps, NextPages, NextBounds DEF RestTyped, OtpsTyped, PagesTyped, BoundsTyped
<1> QED
  BY <1>1, <1>2, <1>3, <1>4, <1>5, <1>6 DEF Kept

LEMMA Invariance == Spec => []IInv
  BY InitHolds, NextHolds, PTL DEF Spec

(***************************************************************************)
(* The collections, codes, pages and bounds of the accounts keep their     *)
(* types.                                                                  *)
(***************************************************************************)
THEOREM AccountsTyped == Spec => []TypeOK
<1>1. IInv => TypeOK
  BY DEF IInv, StoresTyped, CountsTyped, RestTyped, TypeOK
<1> QED
  BY <1>1, Invariance, PTL

(***************************************************************************)
(* For any number of addresses, browsers and administrators, requests and  *)
(* restarts: a reset that was sent after another of its address had ended  *)
(* saves a password only when a code was verified in between.              *)
(***************************************************************************)
THEOREM ResetsAreProven == Spec => ProofIsFresh
<1>1. IInv /\ [Next]_vars => [ResetIsProved]_vars
  <2> SUFFICES ASSUME IInv, NEW c \in Clients, At(c, "reset", "found")
               PROVE  proved[request[c].email] >= request[c].began
    BY DEF ResetIsProved
  <2>1. Proven(request[c]) /\ Fits(request[c])
    BY DEF IInv, ResetsProven, RequestsFit, Tabs
  <2>2. request[c].began <= proved[request[c].email]
    BY <2>1 DEF Proven, At
  <2> QED
    BY <2>2
<1> QED
  BY <1>1, Invariance, PTL DEF Spec, ProofIsFresh

(***************************************************************************)
(* For the same: a sign-in by password that was sent after the last time a *)
(* password was saved or moved opens its document with the password last   *)
(* saved in it, or in the one it was moved from.                           *)
(***************************************************************************)
THEOREM OldPasswordsAreDead == Spec => OldPasswordIsDead
<1>1. IInv /\ [Next]_vars => [PasswordIsLast]_vars
  <2> SUFFICES ASSUME IInv, [Next]_vars, NEW c \in Clients, At(c, "login", "found"),
                      session'[c] # session[c], changes = request[c].began
               PROVE  secret[request[c].seen.from][request[c].seen.id] = request[c].password
    BY DEF PasswordIsLast
  <2>1. Informed(request[c])
    BY DEF IInv, LoginsInformed, Tabs
  <2>2. Opens(request[c].seen, request[c].password)
    BY OnlyLoginsSignIn DEF IInv
  <2> QED
    BY <2>1, <2>2 DEF Informed, At, Opens
<1> QED
  BY <1>1, Invariance, PTL DEF Spec, OldPasswordIsDead

-----------------------------------------------------------------------------
(***************************************************************************)
(* Perimeter.                                                              *)
(***************************************************************************)

(***************************************************************************)
(* The dashboards count reports, of which there are finitely many.         *)
(***************************************************************************)
Finite == IsFiniteSet(stored)

(***************************************************************************)
(* A token that has served is not active, and never becomes active again:  *)
(* every enrolment names a token an administrator has seen, and such a     *)
(* token is not generated a second time.  An enrolment that has marked its *)
(* token is past the question whether it was active.                       *)
(***************************************************************************)
TokensSpent ==
    /\ \A t \in served : tokens[t] # "active"
    /\ \A m \in Machines : call[m].op = "enroll" =>
        /\ call[m].token \in known
        /\ call[m].step \in {"find", "mark", "create", "answer"}
        /\ call[m].step \in {"create", "answer"} => tokens[call[m].token] # "active"
        /\ call[m].late => call[m].token \in served /\ call[m].step = "find"

(***************************************************************************)
(* The nodes that exist are the first k: the number a new node gets is one *)
(* that no node had, so a revoked node is not overwritten.                 *)
(***************************************************************************)
FirstNodes(k) == \A n \in Nodes : nodes[n] # "none" <=> n <= k
NodesInOrder == \E k \in 0..MaxNodes : FirstNodes(k)

(***************************************************************************)
(* A page revokes a node that exists.                                      *)
(***************************************************************************)
DesksNamed == \A d \in Lists : desk[d] # AtRest => desk[d].node \in Nodes /\ nodes[desk[d].node] # "none"

(***************************************************************************)
(* A node whose revocation was answered stays revoked, and a report sent   *)
(* after that does not get past the question for the node's status.        *)
(***************************************************************************)
Silenced ==
    /\ \A n \in silent : nodes[n] = "revoked"
    /\ \A m \in Machines : call[m].op = "report" =>
        /\ call[m].node \in Nodes /\ call[m].kind \in Kinds /\ call[m].event \in 1..MaxEvents
        /\ call[m].late => call[m].node \in silent /\ call[m].step = "auth"
    /\ RevokedIsSilent

(***************************************************************************)
(* What a dashboard shows, is about to show, or is about to be sent, has   *)
(* been stored.                                                            *)
(***************************************************************************)
ShowsOf(view, found) == view.recent \in Seq(found) /\ view.list \in Seq(found)

ViewsStored ==
    /\ \A d \in Dashboards : ShowsOf(page[d], stored)
    /\ \A m \in Machines : call[m].op = "report" /\ call[m].step = "emit" => Event(m) \in stored

SensorInv ==
    /\ PerimeterTypeOK /\ Finite
    /\ TokensSpent
    /\ NodesInOrder /\ DesksNamed
    /\ Silenced
    /\ ViewsStored

(***************************************************************************)
(* The number of a new node is one more than there are.                    *)
(***************************************************************************)
LEMMA FreshIsNext ==
    ASSUME NEW k \in 0..MaxNodes, FirstNodes(k), MaxNodes \in Nat
    PROVE  Fresh = k + 1
<1>1. {n \in Nodes : nodes[n] # "none"} = 1..k
  BY DEF FirstNodes, Nodes
<1>2. Cardinality(1..k) = k
  BY FS_Interval
<1> QED
  BY <1>1, <1>2 DEF Fresh

(***************************************************************************)
(* It is the number of no node.                                            *)
(***************************************************************************)
LEMMA FreshIsFree ==
    ASSUME NodesInOrder, Fresh \in Nodes, MaxNodes \in Nat
    PROVE  nodes[Fresh] = "none"
<1>1. PICK k \in 0..MaxNodes : FirstNodes(k)
  BY DEF NodesInOrder
<1>2. Fresh = k + 1
  BY <1>1, FreshIsNext
<1> QED
  BY <1>1, <1>2 DEF FirstNodes, Nodes

(***************************************************************************)
(* Creating the next node keeps the order; so does a change of status.     *)
(***************************************************************************)
LEMMA OrderStep ==
    ASSUME PerimeterTypeOK, NodesInOrder, DesksNamed, [PerimeterNext]_perimeter
    PROVE  NodesInOrder'
<1>1. PICK k \in 0..MaxNodes : FirstNodes(k)
  BY DEF NodesInOrder
<1>n. MaxNodes \in Nat
  BY BoundsAreNumbers
<1>2. ASSUME UNCHANGED nodes PROVE NodesInOrder'
  BY <1>1, <1>2 DEF NodesInOrder, FirstNodes
<1>3. ASSUME NEW m \in Machines, EnrollNode(m) PROVE NodesInOrder'
  <2>1. CASE UNCHANGED nodes
    BY <1>2, <2>1
  <2>2. CASE ~UNCHANGED nodes
    <3>1. Fresh \in Nodes /\ nodes' = [nodes EXCEPT ![Fresh] = "active"]
      BY <1>3, <2>2 DEF EnrollNode, FindToken, MarkToken, CreateNode
    <3>2. Fresh = k + 1
      BY <1>1, <1>n, FreshIsNext
    <3>3. k + 1 \in 0..MaxNodes
      BY <1>n, <3>1, <3>2 DEF Nodes
    <3>4. FirstNodes(k + 1)'
      BY <1>1, <3>1, <3>2 DEF FirstNodes, PerimeterTypeOK, Nodes
    <3> QED
      BY <3>3, <3>4 DEF NodesInOrder
  <2> QED
    BY <2>1, <2>2
<1>4. ASSUME NEW d \in Lists, RevokeNode(d) PROVE NodesInOrder'
  BY <1>1, <1>4 DEF RevokeNode, DesksNamed, NodesInOrder, FirstNodes, PerimeterTypeOK
<1> QED
  BY <1>2, <1>3, <1>4 DEF PerimeterNext, perimeter, registry, GenerateEnrollmentToken, EnrollmentExpires,
     Enroll, Enrolled, Report, AgentAuth, Ingest, PressRevoke, OpenDashboard, JoinRoom, Refresh,
     FetchAll, CloseDashboard, Reboot

(***************************************************************************)
(* A call keeps its type when it goes to another step.                     *)
(***************************************************************************)
CallSteps == {"none", "find", "mark", "create", "answer", "auth", "insert", "emit"}

LEMMA CallMoves ==
    ASSUME NEW c \in Calls, NEW step \in CallSteps
    PROVE  [c EXCEPT !.step = step] \in Calls
BY DEF Calls, CallSteps

(***************************************************************************)
(* It keeps it when it also gets the number of its node.                   *)
(***************************************************************************)
LEMMA CallNumbered ==
    ASSUME NEW c \in Calls, NEW step \in CallSteps, NEW n \in Nodes
    PROVE  [c EXCEPT !.step = step, !.node = n] \in Calls
BY DEF Calls, CallSteps

(***************************************************************************)
(* No call is a call too.                                                  *)
(***************************************************************************)
LEMMA NoCallTyped ==
    NoCall \in Calls
BY BoundsAreNumbers DEF NoCall, Request, Calls

(***************************************************************************)
(* A list of some things with one of them put before it is a list of them, *)
(* and so is what a fetch may bring.                                       *)
(***************************************************************************)
LEMMA PrependedIn ==
    ASSUME NEW S, NEW e \in S, NEW times \in 1..2, NEW list \in Seq(S)
    PROVE  Prepended(e, times, list) \in Seq(S)
<1> DEFINE n == AtMost(Latest, times + Len(list))
<1>1. Len(list) \in Nat /\ \A i \in 1..Len(list) : list[i] \in S
  OBVIOUS
<1>2. n \in Nat /\ n <= times + Len(list)
  BY <1>1, BoundsAreNumbers DEF AtMost
<1>3. ASSUME NEW i \in 1..n PROVE (IF i <= times THEN e ELSE list[i - times]) \in S
  BY <1>1, <1>2
<1> HIDE DEF n
<1>4. [i \in 1..n |-> IF i <= times THEN e ELSE list[i - times]] \in [1..n -> S]
  BY <1>3
<1>5. [i \in 1..n |-> IF i <= times THEN e ELSE list[i - times]] \in Seq(S)
  BY <1>2, <1>4, SeqDef
<1> QED
  BY <1>5 DEF Prepended, n

LEMMA ListingIn ==
    ASSUME NEW S, IsFiniteSet(S), NEW q \in Listings(S)
    PROVE  q \in Seq(S)
<1>1. AtMost(Latest, Cardinality(S)) \in Nat
  BY FS_CardinalityType, BoundsAreNumbers DEF AtMost
<1>2. q \in [1..AtMost(Latest, Cardinality(S)) -> S]
  BY DEF Listings
<1> QED
  BY <1>1, <1>2, SeqDef

CallTyped == call \in [Machines -> Calls]
LEMMA ClosedTyped == Closed \in Views
<1>1. <<>> \in Seq(Events)
  OBVIOUS
<1> QED
  BY <1>1 DEF Closed, Views

PageTyped == page \in [Dashboards -> Views]

(***************************************************************************)
(* The call of a machine moves on, returns, or is a new one.               *)
(***************************************************************************)
LEMMA CallStep ==
    ASSUME PerimeterTypeOK, [PerimeterNext]_perimeter
    PROVE  CallTyped'
<1>t. CallTyped
  BY DEF CallTyped, PerimeterTypeOK
<1>w. ASSUME NEW m \in Machines, NEW c \in Calls, call' = [call EXCEPT ![m] = c] PROVE CallTyped'
  BY <1>t, <1>w DEF CallTyped
<1>r. ASSUME NEW m \in Machines, Return(m) PROVE CallTyped'
  BY <1>r, <1>w, NoCallTyped DEF Return
<1>p. ASSUME NEW m \in Machines, NEW step \in CallSteps, Proceed(m, step) PROVE CallTyped'
  <2>1. call[m] \in Calls
    BY <1>t DEF CallTyped
  <2>2. [call[m] EXCEPT !.step = step] \in Calls
    BY <2>1, CallMoves
  <2>3. call' = [call EXCEPT ![m] = [call[m] EXCEPT !.step = step]]
    BY <1>p DEF Proceed
  <2> QED
    BY <2>2, <2>3, <1>w
<1>u. ASSUME UNCHANGED call PROVE CallTyped'
  BY <1>t, <1>u DEF CallTyped
<1>b. {"find", "mark", "create", "answer", "auth", "insert", "emit"} \subseteq CallSteps
  BY DEF CallSteps
<1>1. ASSUME NEW m \in Machines, Enroll(m) PROVE CallTyped'
  <2>1. PICK t \in known : call' = [call EXCEPT ![m] = Request("enroll", "find", t, 0, "none", 0, t \in served)]
    BY <1>1 DEF Enroll
  <2>2. Request("enroll", "find", t, 0, "none", 0, t \in served) \in Calls
    BY BoundsAreNumbers DEF PerimeterTypeOK, Calls, Request
  <2> QED
    BY <2>1, <2>2, <1>w
<1>2. ASSUME NEW m \in Machines, EnrollNode(m) PROVE CallTyped'
  <2>1. CASE FindToken(m) \/ MarkToken(m, "create")
    BY <2>1, <1>b, <1>r, <1>p DEF FindToken, MarkToken
  <2>2. CASE CreateNode(m, "answer")
    <3>1. CASE Return(m)
      BY <3>1, <1>r
    <3>2. CASE /\ Fresh \in Nodes
               /\ call' = [call EXCEPT ![m].step = "answer", ![m].node = Fresh]
      <4>1. [call[m] EXCEPT !.step = "answer", !.node = Fresh] \in Calls
        BY <1>t, <3>2, <1>b, CallNumbered DEF CallTyped
      <4>2. call' = [call EXCEPT ![m] = [call[m] EXCEPT !.step = "answer", !.node = Fresh]]
        BY <3>2
      <4> QED
        BY <4>1, <4>2, <1>w
    <3> QED
      BY <2>2, <3>1, <3>2 DEF CreateNode
  <2> QED
    BY <1>2, <2>1, <2>2 DEF EnrollNode
<1>3. ASSUME NEW m \in Machines, Report(m) PROVE CallTyped'
  <2>1. PICK k \in Kinds :
          call' = [call EXCEPT ![m] = Request("report", "auth", "none", machine[m], k, events + 1,
                                              machine[m] \in silent)]
    BY <1>3 DEF Report
  <2>2. machine[m] \in Nodes \cup {0} /\ events + 1 \in 0..MaxEvents
    BY <1>3, BoundsAreNumbers DEF PerimeterTypeOK, Report
  <2>3. Request("report", "auth", "none", machine[m], k, events + 1, machine[m] \in silent) \in Calls
    BY <2>2 DEF Calls, Request
  <2> QED
    BY <2>1, <2>3, <1>w
<1>4. ASSUME NEW m \in Machines, Enrolled(m) \/ AgentAuth(m) \/ Ingest(m) PROVE CallTyped'
  BY <1>4, <1>b, <1>r, <1>p DEF Enrolled, AgentAuth, Ingest
<1>5. ASSUME Reboot PROVE CallTyped'
  BY <1>5, NoCallTyped DEF Reboot, CallTyped
<1> QED
  BY <1>u, <1>1, <1>2, <1>3, <1>4, <1>5 DEF PerimeterNext, perimeter, GenerateEnrollmentToken,
     EnrollmentExpires, PressRevoke, RevokeNode, OpenDashboard, JoinRoom, Refresh, FetchAll, CloseDashboard

(***************************************************************************)
(* The dashboards keep their types, whatever is sent to them.              *)
(***************************************************************************)
LEMMA PageStep ==
    ASSUME PerimeterTypeOK, Finite, [PerimeterNext]_perimeter, Silenced
    PROVE  PageTyped'
<1>t. PageTyped
  BY DEF PageTyped, PerimeterTypeOK
<1>u. ASSUME UNCHANGED page PROVE PageTyped'
  BY <1>t, <1>u DEF PageTyped
<1>w. ASSUME NEW d \in Dashboards, NEW v \in Views, page' = [page EXCEPT ![d] = v] PROVE PageTyped'
  BY <1>t, <1>w DEF PageTyped
<1>c. Closed \in Views
  BY ClosedTyped
<1>1. ASSUME NEW m \in Machines, Ingest(m) PROVE PageTyped'
  <2>1. CASE UNCHANGED page
    BY <1>u, <2>1
  <2>2. CASE Emit(m)
    <3>1. Event(m) \in Events
      BY <1>1 DEF Ingest, Silenced, Event, Events, PerimeterTypeOK, Calls
    <3>2. ASSUME NEW d \in Dashboards PROVE Shown(m, d) \in Views
      <4> DEFINE times == IF page[d].room = "in" THEN 2 ELSE 1
      <4>v. PICK v \in Views : v = page[d]
        BY <1>t DEF PageTyped
      <4>1. v.recent \in Seq(Events) /\ v.count \in Nat /\ times \in 1..2
        BY <4>v DEF Views
      <4> HIDE DEF times
      <4>2. Prepended(Event(m), times, v.recent) \in Seq(Events)
        BY <3>1, <4>1, PrependedIn
      <4>3. [v EXCEPT !.recent = Prepended(Event(m), times, v.recent)] \in Views
        BY <4>2 DEF Views
      <4>4. v.count + times \in Nat
        BY <4>1
      <4>5. [v EXCEPT !.count = v.count + times] \in Views
        BY <4>4 DEF Views
      <4> QED
        BY <4>v, <4>3, <4>5 DEF Shown, times
    <3> QED
      BY <2>2, <3>2 DEF Emit, PageTyped
  <2> QED
    BY <1>1, <2>1, <2>2 DEF Ingest
<1>2. ASSUME NEW d \in Dashboards,
             OpenDashboard(d) \/ JoinRoom(d) \/ Refresh(d) \/ CloseDashboard(d)
      PROVE  PageTyped'
  <2>v. page[d] \in Views
    BY <1>t DEF PageTyped
  <2>1. [Closed EXCEPT !.open = TRUE, !.room = "due", !.fetch = "sent"] \in Views
    BY <1>c DEF Closed, Views
  <2>2. [page[d] EXCEPT !.room = "in"] \in Views /\ [page[d] EXCEPT !.fetch = "sent"] \in Views
    BY <2>v DEF Views
  <2> QED
    BY <1>2, <1>c, <1>w, <2>1, <2>2 DEF OpenDashboard, JoinRoom, Refresh, CloseDashboard
<1>3. ASSUME NEW d \in Dashboards, FetchAll(d) PROVE PageTyped'
  <2>1. Cardinality(Of("connection")) \in Nat
    <3>1. IsFiniteSet(Of("connection"))
      BY FS_Subset DEF Finite, Of
    <3> QED
      BY <3>1, FS_CardinalityType
  <2>2. ASSUME NEW q \in Listings(Of("detection")) PROVE q \in Seq(Events)
    <3>1. IsFiniteSet(Of("detection")) /\ Of("detection") \subseteq Events
      BY FS_Subset DEF Finite, Of, PerimeterTypeOK
    <3> QED
      BY <3>1, ListingIn, SeqMonotonic
  <2>v. page[d] \in Views
    BY <1>t DEF PageTyped
  <2>3. [page[d] EXCEPT !.fetch = "counted", !.read = Cardinality(Of("connection"))] \in Views
    BY <2>v, <2>1 DEF Views
  <2>4. ASSUME NEW q \in Seq(Events) PROVE [page[d] EXCEPT !.fetch = "read", !.list = q] \in Views
    BY <2>v DEF Views
  <2>e. <<>> \in Seq(Events)
    OBVIOUS
  <2>5. [page[d] EXCEPT !.fetch = "none", !.stats = TRUE, !.count = page[d].read,
                        !.recent = page[d].list, !.read = 0, !.list = <<>>] \in Views
    BY <2>v, <2>e DEF Views
  <2>6. CASE page' = [page EXCEPT ![d].fetch = "counted", ![d].read = Cardinality(Of("connection"))]
    BY <1>w, <2>3, <2>6
  <2>7. CASE \E list \in Listings(Of("detection")) :
                page' = [page EXCEPT ![d].fetch = "read", ![d].list = list]
    <3>1. PICK q \in Listings(Of("detection")) :
             page' = [page EXCEPT ![d] = [page[d] EXCEPT !.fetch = "read", !.list = q]]
      BY <2>7
    <3> QED
      BY <1>w, <2>2, <2>4, <3>1
  <2>8. CASE page' = [page EXCEPT ![d] = [page[d] EXCEPT !.fetch = "none", !.stats = TRUE,
                         !.count = page[d].read, !.recent = page[d].list, !.read = 0, !.list = <<>>]]
    BY <1>w, <2>5, <2>8
  <2> QED
    BY <1>3, <2>6, <2>7, <2>8 DEF FetchAll
<1>4. ASSUME Reboot PROVE PageTyped'
  <2>1. ASSUME NEW v \in Views PROVE After(v) \in Views
    <3>1. <<>> \in Seq(Events)
      OBVIOUS
    <3> QED
      BY <3>1 DEF After, Views
  <2> QED
    BY <1>t, <1>4, <2>1 DEF Reboot, PageTyped
<1> QED
  BY <1>u, <1>1, <1>2, <1>3, <1>4 DEF PerimeterNext, perimeter, GenerateEnrollmentToken,
     EnrollmentExpires, Enroll, EnrollNode, Enrolled, Report, AgentAuth, PressRevoke, RevokeNode

(***************************************************************************)
(* The collections and the counters keep their types.                      *)
(***************************************************************************)
LEMMA TypesStep ==
    ASSUME PerimeterTypeOK, Finite, TokensSpent, DesksNamed, Silenced, [PerimeterNext]_perimeter
    PROVE  PerimeterTypeOK' /\ Finite'
<1> USE DEF PerimeterTypeOK, Finite, registry, limits, witnesses
<1>c. call' \in [Machines -> Calls]
  BY CallStep DEF CallTyped
<1>p. page' \in [Dashboards -> Views]
  BY PageStep DEF PageTyped
<1>b. MaxNodes \in Nat /\ MaxEvents \in Nat /\ MaxReboots \in Nat
  BY BoundsAreNumbers
<1>1. ASSUME NEW t \in Tokens, GenerateEnrollmentToken(t) \/ EnrollmentExpires(t)
      PROVE  PerimeterTypeOK' /\ Finite'
  BY <1>1, <1>c, <1>p DEF GenerateEnrollmentToken, EnrollmentExpires
<1>2. ASSUME NEW m \in Machines, EnrollNode(m) PROVE PerimeterTypeOK' /\ Finite'
  <2>1. tokens' \in [Tokens -> {"none", "active", "used"}]
    BY <1>2 DEF EnrollNode, FindToken, MarkToken
  <2>2. nodes' \in [Nodes -> {"none", "active", "revoked"}]
    BY <1>2 DEF EnrollNode, FindToken, MarkToken, CreateNode
  <2> QED
    BY <1>2, <2>1, <2>2, <1>c, <1>p DEF EnrollNode
<1>3. ASSUME NEW m \in Machines, Enrolled(m) PROVE PerimeterTypeOK' /\ Finite'
  <2>1. call[m].token \in Tokens /\ call[m].node \in Nodes \cup {0}
    BY <1>3 DEF Enrolled, TokensSpent, Calls
  <2> QED
    BY <1>3, <2>1, <1>c, <1>p DEF Enrolled
<1>4. ASSUME NEW m \in Machines, Enroll(m) \/ Report(m) \/ AgentAuth(m) PROVE PerimeterTypeOK' /\ Finite'
  BY <1>4, <1>b, <1>c, <1>p DEF Enroll, Report, AgentAuth
<1>5. ASSUME NEW m \in Machines, Ingest(m) PROVE PerimeterTypeOK' /\ Finite'
  <2>1. Event(m) \in Events
    BY <1>5 DEF Ingest, Silenced, Event, Events, Calls
  <2>2. IsFiniteSet(stored \cup {Event(m)})
    BY FS_AddElement
  <2> QED
    BY <1>5, <2>1, <2>2, <1>c, <1>p DEF Ingest
<1>6. ASSUME NEW d \in Lists, PressRevoke(d) PROVE PerimeterTypeOK' /\ Finite'
  BY <1>6, <1>c, <1>p DEF PressRevoke
<1>7. ASSUME NEW d \in Lists, RevokeNode(d) PROVE PerimeterTypeOK' /\ Finite'
  BY <1>7, <1>c, <1>p DEF RevokeNode, DesksNamed, AtRest
<1>8. ASSUME NEW d \in Dashboards,
             OpenDashboard(d) \/ JoinRoom(d) \/ Refresh(d) \/ FetchAll(d) \/ CloseDashboard(d)
      PROVE  PerimeterTypeOK' /\ Finite'
  <2>1. UNCHANGED <<tokens, known, nodes, machine, desk, stored, events, reboots, served, silent>>
    <3>1. CASE OpenDashboard(d)
      BY <3>1 DEF OpenDashboard
    <3>2. CASE JoinRoom(d)
      BY <3>2 DEF JoinRoom
    <3>3. CASE Refresh(d)
      BY <3>3 DEF Refresh
    <3>4. CASE FetchAll(d)
      BY <3>4 DEF FetchAll
    <3>5. CASE CloseDashboard(d)
      BY <3>5 DEF CloseDashboard
    <3> QED
      BY <1>8, <3>1, <3>2, <3>3, <3>4, <3>5
  <2> QED
    BY <2>1, <1>c, <1>p
<1>9. ASSUME Reboot PROVE PerimeterTypeOK' /\ Finite'
  <2>1. UNCHANGED <<tokens, known, nodes, machine, stored, events, served, silent>>
    BY <1>9 DEF Reboot
  <2>2. reboots' \in 0..MaxReboots
    <3>1. reboots < MaxReboots /\ reboots' = reboots + 1
      BY <1>9 DEF Reboot
    <3> QED
      BY <3>1, <1>b
  <2>3. desk' \in [Lists -> [page : Pages \cup {"none"}, node : Nodes \cup {0}]]
    BY <1>9 DEF Reboot, AtRest
  <2> QED
    BY <2>1, <2>2, <2>3, <1>c, <1>p
<1>10. CASE UNCHANGED perimeter
  BY <1>10 DEF perimeter
<1> QED
  BY <1>1, <1>2, <1>3, <1>4, <1>5, <1>6, <1>7, <1>8, <1>9, <1>10 DEF PerimeterNext

(***************************************************************************)
(* What a move and a return leave of the calls.                            *)
(***************************************************************************)
OtherCalls(m) == \A x \in Machines \ {m} : call'[x] = call[x]
KeptCall(m) == /\ call'[m].op = call[m].op /\ call'[m].token = call[m].token
           /\ call'[m].kind = call[m].kind /\ call'[m].event = call[m].event
           /\ call'[m].late = call[m].late

(***************************************************************************)
(* A call that goes to another step.                                       *)
(***************************************************************************)
LEMMA CallMoved ==
    ASSUME CallTyped, NEW m \in Machines, NEW step, Proceed(m, step)
    PROVE  OtherCalls(m) /\ KeptCall(m) /\ call'[m].node = call[m].node /\ call'[m].step = step
BY DEF CallTyped, Calls, Proceed, OtherCalls, KeptCall

(***************************************************************************)
(* A call that is given its node.                                          *)
(***************************************************************************)
LEMMA Numbered ==
    ASSUME CallTyped, NEW m \in Machines, NEW step, NEW n,
           call' = [call EXCEPT ![m].step = step, ![m].node = n]
    PROVE  OtherCalls(m) /\ KeptCall(m) /\ call'[m].node = n /\ call'[m].step = step
BY DEF CallTyped, Calls, OtherCalls, KeptCall

(***************************************************************************)
(* A call that is over.                                                    *)
(***************************************************************************)
LEMMA Returned ==
    ASSUME CallTyped, NEW m \in Machines, Return(m)
    PROVE  OtherCalls(m) /\ call'[m].op = "none"
BY DEF CallTyped, Return, NoCall, Request, OtherCalls

(***************************************************************************)
(* Tokens that have served stay inactive, and enrolments that came after   *)
(* that do not find them.                                                  *)
(***************************************************************************)
LEMMA TokensStep ==
    ASSUME PerimeterTypeOK, TokensSpent, [PerimeterNext]_perimeter
    PROVE  TokensSpent'
<1> USE DEF TokensSpent, PerimeterTypeOK, registry, witnesses
<1>t. CallTyped
  BY DEF CallTyped
<1>1. ASSUME NEW t \in Tokens, GenerateEnrollmentToken(t) PROVE TokensSpent'
  BY <1>1 DEF GenerateEnrollmentToken
<1>2. ASSUME NEW t \in Tokens, EnrollmentExpires(t) PROVE TokensSpent'
  BY <1>2 DEF EnrollmentExpires
<1>3. ASSUME NEW m \in Machines, Enroll(m) PROVE TokensSpent'
  <2>1. PICK t \in known : call' = [call EXCEPT ![m] = Request("enroll", "find", t, 0, "none", 0, t \in served)]
    BY <1>3 DEF Enroll
  <2>2. call'[m].op = "enroll" /\ call'[m].step = "find" /\ call'[m].token = t /\ (call'[m].late => t \in served)
    BY <2>1 DEF Request
  <2> QED
    BY <1>3, <2>1, <2>2 DEF Enroll
<1>r. ASSUME NEW m \in Machines, Return(m), UNCHANGED <<known, served>>,
             \A t \in served : tokens'[t] # "active",
             \A t \in Tokens : tokens[t] # "active" => tokens'[t] # "active"
      PROVE  TokensSpent'
  BY <1>r, <1>t, Returned DEF OtherCalls
<1>4. ASSUME NEW m \in Machines, EnrollNode(m) PROVE TokensSpent'
  <2>u. UNCHANGED <<known, served>>
    BY <1>4 DEF EnrollNode
  <2>e. call[m].op = "enroll" /\ call[m].token \in Tokens
    BY <1>4 DEF EnrollNode
  <2>1. CASE FindToken(m)
    <3>1. CASE Return(m)
      BY <2>1, <3>1, <2>u, <1>r DEF FindToken
    <3>2. CASE tokens[call[m].token] = "active" /\ Proceed(m, "mark")
      BY <2>1, <3>2, <2>u, <2>e, <1>t, CallMoved DEF FindToken, OtherCalls, KeptCall
    <3> QED
      BY <2>1, <3>1, <3>2 DEF FindToken
  <2>2. CASE Reached(m, "mark") /\ MarkToken(m, "create")
    <3>1. CASE Return(m) /\ UNCHANGED tokens
      BY <3>1, <2>u, <1>r
    <3>2. CASE Proceed(m, "create") /\ tokens' = [tokens EXCEPT ![call[m].token] = "used"]
      BY <2>2, <3>2, <2>u, <2>e, <1>t, CallMoved DEF OtherCalls, KeptCall, Reached
    <3> QED
      BY <2>2, <3>1, <3>2 DEF MarkToken
  <2>3. CASE Reached(m, "create") /\ CreateNode(m, "answer") /\ UNCHANGED tokens
    <3>1. CASE Return(m)
      BY <2>3, <3>1, <2>u, <1>r
    <3>2. CASE call' = [call EXCEPT ![m].step = "answer", ![m].node = Fresh]
      <4>1. OtherCalls(m) /\ KeptCall(m) /\ call'[m].step = "answer"
        BY <3>2, <1>t, Numbered
      <4> QED
        BY <4>1, <2>3, <2>u, <2>e DEF OtherCalls, KeptCall, Reached
    <3> QED
      BY <2>3, <3>1, <3>2 DEF CreateNode
  <2> QED
    BY <1>4, <2>1, <2>2, <2>3 DEF EnrollNode
<1>5. ASSUME NEW m \in Machines, Enrolled(m) PROVE TokensSpent'
  <2>1. tokens[call[m].token] # "active"
    BY <1>5 DEF Enrolled, Reached
  <2> QED
    BY <1>5, <2>1, <1>t, Returned DEF Enrolled, OtherCalls
<1>6. ASSUME NEW m \in Machines, Report(m) PROVE TokensSpent'
  BY <1>6 DEF Report, Request
<1>7. ASSUME NEW m \in Machines, AgentAuth(m) \/ Ingest(m) PROVE TokensSpent'
  <2>1. UNCHANGED <<tokens, known, served>> /\ call[m].op = "report"
    BY <1>7 DEF AgentAuth, Ingest
  <2>2. CASE Return(m)
    BY <2>1, <2>2, <1>r
  <2>3. CASE \E step \in {"insert", "emit"} : Proceed(m, step)
    BY <2>1, <2>3, <1>t, CallMoved DEF OtherCalls, KeptCall
  <2> QED
    BY <1>7, <2>2, <2>3 DEF AgentAuth, Ingest
<1>9. ASSUME Reboot PROVE TokensSpent'
  BY <1>9 DEF Reboot, NoCall, Request
<1>10. ASSUME NEW d \in Lists, PressRevoke(d) \/ RevokeNode(d) PROVE TokensSpent'
  BY <1>10 DEF PressRevoke, RevokeNode
<1>11. ASSUME UNCHANGED <<tokens, known, call, served>> PROVE TokensSpent'
  BY <1>11
<1> QED
  BY <1>1, <1>2, <1>3, <1>4, <1>5, <1>6, <1>7, <1>9, <1>10, <1>11 DEF PerimeterNext, perimeter,
     OpenDashboard, JoinRoom, Refresh, FetchAll, CloseDashboard

(***************************************************************************)
(* A page names a node that exists: no node ceases to.                     *)
(***************************************************************************)
LEMMA DesksStep ==
    ASSUME PerimeterTypeOK, DesksNamed, [PerimeterNext]_perimeter
    PROVE  DesksNamed'
<1> USE DEF DesksNamed, PerimeterTypeOK, registry, witnesses
<1>1. ASSUME NEW m \in Machines, EnrollNode(m) PROVE DesksNamed'
  BY <1>1 DEF EnrollNode, FindToken, MarkToken, CreateNode
<1>2. ASSUME NEW d \in Lists, PressRevoke(d) PROVE DesksNamed'
  BY <1>2 DEF PressRevoke
<1>3. ASSUME NEW d \in Lists, RevokeNode(d) PROVE DesksNamed'
  BY <1>3 DEF RevokeNode
<1>4. ASSUME Reboot PROVE DesksNamed'
  BY <1>4 DEF Reboot
<1>5. ASSUME UNCHANGED <<nodes, desk>> PROVE DesksNamed'
  BY <1>5
<1> QED
  BY <1>1, <1>2, <1>3, <1>4, <1>5 DEF PerimeterNext, perimeter, GenerateEnrollmentToken, EnrollmentExpires,
     Enroll, Enrolled, Report, AgentAuth, Ingest, OpenDashboard, JoinRoom, Refresh, FetchAll, CloseDashboard

(***************************************************************************)
(* A revoked node stays revoked, and reports sent after that are refused.  *)
(***************************************************************************)
LEMMA SilencedStep ==
    ASSUME PerimeterTypeOK, NodesInOrder, DesksNamed, Silenced, [PerimeterNext]_perimeter
    PROVE  Silenced'
<1> USE DEF Silenced, RevokedIsSilent, PerimeterTypeOK, registry, witnesses
<1>t. CallTyped
  BY DEF CallTyped
<1>b. MaxNodes \in Nat /\ MaxEvents \in Nat
  BY BoundsAreNumbers
<1>r. ASSUME NEW m \in Machines, Return(m), UNCHANGED <<silent, stored>>,
             \A n \in silent : nodes'[n] = "revoked"
      PROVE  Silenced'
  BY <1>r, <1>t, Returned DEF OtherCalls
<1>1. ASSUME NEW m \in Machines, Enroll(m) PROVE Silenced'
  BY <1>1 DEF Enroll, Request
<1>2. ASSUME NEW m \in Machines, EnrollNode(m) PROVE Silenced'
  <2>1. \A n \in silent : nodes'[n] = "revoked"
    BY <1>2, <1>b, FreshIsFree DEF EnrollNode, FindToken, MarkToken, CreateNode
  <2>2. UNCHANGED <<silent, stored>> /\ call[m].op = "enroll"
    BY <1>2 DEF EnrollNode
  <2>3. CASE Return(m)
    BY <2>1, <2>2, <2>3, <1>r
  <2>4. ASSUME OtherCalls(m), KeptCall(m) PROVE Silenced'
    BY <2>1, <2>2, <2>4 DEF OtherCalls, KeptCall
  <2>5. CASE Proceed(m, "mark") \/ Proceed(m, "create")
    BY <2>4, <2>5, <1>t, CallMoved
  <2>6. CASE call' = [call EXCEPT ![m].step = "answer", ![m].node = Fresh]
    BY <2>4, <2>6, <1>t, Numbered
  <2> QED
    BY <1>2, <2>3, <2>5, <2>6 DEF EnrollNode, FindToken, MarkToken, CreateNode
<1>3. ASSUME NEW m \in Machines, Enrolled(m) PROVE Silenced'
  BY <1>3, <1>r DEF Enrolled
<1>4. ASSUME NEW m \in Machines, Report(m) PROVE Silenced'
  <2>1. PICK k \in Kinds :
          call' = [call EXCEPT ![m] = Request("report", "auth", "none", machine[m], k, events + 1,
                                              machine[m] \in silent)]
    BY <1>4 DEF Report
  <2>2. machine[m] \in Nodes /\ events + 1 \in 1..MaxEvents
    BY <1>4, <1>b DEF Report
  <2>3. /\ call'[m].node = machine[m] /\ call'[m].kind = k /\ call'[m].event = events + 1
        /\ call'[m].step = "auth" /\ (call'[m].late => machine[m] \in silent)
    BY <2>1 DEF Request
  <2>4. OtherCalls(m)
    BY <2>1 DEF OtherCalls
  <2> QED
    BY <1>4, <2>2, <2>3, <2>4 DEF Report, OtherCalls
<1>5. ASSUME NEW m \in Machines, AgentAuth(m) PROVE Silenced'
  <2>1. UNCHANGED <<nodes, silent, stored>> /\ call[m].op = "report"
    BY <1>5 DEF AgentAuth
  <2>2. CASE Return(m)
    BY <2>1, <2>2, <1>r
  <2>3. CASE nodes[call[m].node] = "active" /\ Proceed(m, "insert")
    <3>1. OtherCalls(m) /\ KeptCall(m) /\ call'[m].node = call[m].node
      BY <2>3, <1>t, CallMoved
    <3>2. ~call[m].late
      BY <2>1, <2>3
    <3> QED
      BY <2>1, <3>1, <3>2 DEF OtherCalls, KeptCall
  <2> QED
    BY <1>5, <2>2, <2>3 DEF AgentAuth
<1>6. ASSUME NEW m \in Machines, Ingest(m) PROVE Silenced'
  <2>1. UNCHANGED <<nodes, silent>> /\ call[m].op = "report" /\ ~call[m].late
    BY <1>6 DEF Ingest, Reached
  <2>2. \A e \in stored' : ~e.late
    BY <1>6, <2>1 DEF Ingest, Event
  <2>3. CASE Return(m)
    BY <2>1, <2>2, <2>3, <1>t, Returned DEF OtherCalls
  <2>4. CASE Proceed(m, "emit")
    <3>1. OtherCalls(m) /\ KeptCall(m) /\ call'[m].node = call[m].node
      BY <2>4, <1>t, CallMoved
    <3> QED
      BY <2>1, <2>2, <3>1 DEF OtherCalls, KeptCall
  <2> QED
    BY <1>6, <2>3, <2>4 DEF Ingest
<1>7. ASSUME NEW d \in Lists, RevokeNode(d) PROVE Silenced'
  <2>1. UNCHANGED <<call, stored>> /\ silent \subseteq silent'
    BY <1>7 DEF RevokeNode
  <2>2. \A n \in silent' : nodes'[n] = "revoked"
    BY <1>7 DEF RevokeNode, DesksNamed
  <2> QED
    BY <2>1, <2>2
<1>8. ASSUME Reboot PROVE Silenced'
  BY <1>8 DEF Reboot, NoCall, Request
<1>9. ASSUME UNCHANGED <<nodes, call, stored, silent>> PROVE Silenced'
  BY <1>9
<1> QED
  BY <1>1, <1>2, <1>3, <1>4, <1>5, <1>6, <1>7, <1>8, <1>9 DEF PerimeterNext, perimeter, limits,
     GenerateEnrollmentToken, EnrollmentExpires, PressRevoke, OpenDashboard, JoinRoom, Refresh, FetchAll,
     CloseDashboard

(***************************************************************************)
(* Nothing is shown before it is stored.                                   *)
(***************************************************************************)
LEMMA ViewsStep ==
    ASSUME PerimeterTypeOK, Finite, Silenced, ViewsStored, [PerimeterNext]_perimeter
    PROVE  ViewsStored'
<1> USE DEF ViewsStored, registry, witnesses, limits
<1>t. CallTyped /\ PageTyped
  BY DEF CallTyped, PageTyped, PerimeterTypeOK
<1>e. <<>> \in Seq(stored)
  OBVIOUS
<1>r. ASSUME NEW m \in Machines, Return(m), UNCHANGED <<stored, page>> PROVE ViewsStored'
  BY <1>r, <1>t, Returned DEF OtherCalls, Event
<1>k. ASSUME NEW m \in Machines, OtherCalls(m), call'[m].op = "report" => call'[m].step # "emit",
             UNCHANGED <<stored, page>>
      PROVE  ViewsStored'
  BY <1>k DEF OtherCalls, Event
<1>1. ASSUME NEW m \in Machines, Enroll(m) \/ Report(m) PROVE ViewsStored'
  <2>1. UNCHANGED <<stored, page>>
    BY <1>1 DEF Enroll, Report
  <2>2. OtherCalls(m)
    <3>1. PICK r : call' = [call EXCEPT ![m] = r]
      BY <1>1 DEF Enroll, Report
    <3> QED
      BY <3>1, <1>t DEF CallTyped, OtherCalls
  <2>3. call'[m].step # "emit"
    BY <1>1, <1>t DEF Enroll, Report, Request, CallTyped
  <2> QED
    BY <2>1, <2>2, <2>3, <1>k
<1>2. ASSUME NEW m \in Machines, EnrollNode(m) PROVE ViewsStored'
  <2>1. UNCHANGED <<stored, page>> /\ call[m].op = "enroll"
    BY <1>2 DEF EnrollNode
  <2>2. CASE Return(m)
    BY <2>1, <2>2, <1>r
  <2>3. CASE Proceed(m, "mark") \/ Proceed(m, "create")
    BY <2>1, <2>3, <1>t, <1>k, CallMoved DEF KeptCall
  <2>4. CASE call' = [call EXCEPT ![m].step = "answer", ![m].node = Fresh]
    BY <2>1, <2>4, <1>t, <1>k, Numbered DEF KeptCall
  <2> QED
    BY <1>2, <2>2, <2>3, <2>4 DEF EnrollNode, FindToken, MarkToken, CreateNode
<1>3. ASSUME NEW m \in Machines, Enrolled(m) PROVE ViewsStored'
  BY <1>3, <1>r DEF Enrolled
<1>4. ASSUME NEW m \in Machines, AgentAuth(m) PROVE ViewsStored'
  <2>1. UNCHANGED <<stored, page>>
    BY <1>4 DEF AgentAuth
  <2>2. CASE Return(m)
    BY <2>1, <2>2, <1>r
  <2>3. CASE Proceed(m, "insert")
    BY <2>1, <2>3, <1>t, <1>k, CallMoved
  <2> QED
    BY <1>4, <2>2, <2>3 DEF AgentAuth
<1>5. ASSUME NEW m \in Machines, Ingest(m) PROVE ViewsStored'
  <2>1. CASE /\ stored' = stored \cup {Event(m)} /\ UNCHANGED page
             /\ Return(m) \/ Proceed(m, "emit")
    <3>1. OtherCalls(m) /\ (call'[m].op = "none" \/ KeptCall(m))
      BY <2>1, <1>t, CallMoved, Returned
    <3>2. ASSUME NEW d \in Dashboards PROVE ShowsOf(page'[d], stored')
      BY <2>1, SeqMonotonic DEF ShowsOf
    <3> QED
      BY <2>1, <3>1, <3>2 DEF OtherCalls, KeptCall, Event
  <2>2. CASE Return(m) /\ UNCHANGED <<stored, page>>
    BY <2>2, <1>r
  <2>3. CASE Reached(m, "emit") /\ Emit(m) /\ Return(m) /\ UNCHANGED stored
    <3>1. Event(m) \in stored
      BY <1>5, <2>3 DEF Ingest, Reached
    <3>2. ASSUME NEW d \in Dashboards PROVE ShowsOf(page'[d], stored)
      <4> DEFINE times == IF page[d].room = "in" THEN 2 ELSE 1
      <4>v. PICK v \in Views : v = page[d]
        BY <1>t DEF PageTyped
      <4>1. v.recent \in Seq(stored) /\ v.list \in Seq(stored) /\ times \in 1..2
        BY <4>v DEF ShowsOf
      <4> HIDE DEF times
      <4>2. Prepended(Event(m), times, v.recent) \in Seq(stored)
        BY <3>1, <4>1, PrependedIn
      <4>3. ShowsOf([v EXCEPT !.recent = Prepended(Event(m), times, v.recent)], stored)
        BY <4>1, <4>2 DEF ShowsOf, Views
      <4>4. ShowsOf([v EXCEPT !.count = v.count + times], stored) /\ ShowsOf(v, stored)
        BY <4>1 DEF ShowsOf, Views
      <4>5. page'[d] = Shown(m, d)
        BY <2>3 DEF Emit
      <4> QED
        BY <4>v, <4>3, <4>4, <4>5 DEF Shown, times
    <3> QED
      BY <2>3, <3>2, <1>t, Returned DEF OtherCalls, Event
  <2> QED
    BY <1>5, <2>1, <2>2, <2>3 DEF Ingest
<1>6. ASSUME NEW d \in Dashboards, OpenDashboard(d) \/ JoinRoom(d) \/ Refresh(d) \/ CloseDashboard(d)
      PROVE  ViewsStored'
  <2>1. UNCHANGED <<call, stored>>
    BY <1>6 DEF OpenDashboard, JoinRoom, Refresh, CloseDashboard
  <2>2. ASSUME NEW x \in Dashboards PROVE ShowsOf(page'[x], stored)
    <3>1. CASE \E v : v.recent = <<>> /\ v.list = <<>> /\ page' = [page EXCEPT ![d] = v]
      BY <3>1, <1>t, <1>e DEF PageTyped, ShowsOf
    <3>2. CASE JoinRoom(d)
      BY <3>2, <1>t DEF JoinRoom, PageTyped, Views, ShowsOf
    <3>3. CASE Refresh(d)
      BY <3>3, <1>t DEF Refresh, PageTyped, Views, ShowsOf
    <3>4. CASE CloseDashboard(d)
      BY <3>1, <3>4 DEF CloseDashboard, Closed
    <3>5. CASE OpenDashboard(d)
      <4> DEFINE v == [Closed EXCEPT !.open = TRUE, !.room = "due", !.fetch = "sent"]
      <4>1. v.recent = <<>> /\ v.list = <<>>
        BY DEF Closed
      <4>2. page' = [page EXCEPT ![d] = v]
        BY <3>5 DEF OpenDashboard
      <4> HIDE DEF v
      <4> QED
        BY <3>1, <4>1, <4>2
    <3> QED
      BY <1>6, <3>2, <3>3, <3>4, <3>5
  <2> QED
    BY <2>1, <2>2 DEF Event
<1>7. ASSUME NEW d \in Dashboards, FetchAll(d) PROVE ViewsStored'
  <2>1. UNCHANGED <<call, stored>>
    BY <1>7 DEF FetchAll
  <2>2. ASSUME NEW q \in Listings(Of("detection")) PROVE q \in Seq(stored)
    <3>1. IsFiniteSet(Of("detection")) /\ Of("detection") \subseteq stored
      BY FS_Subset DEF Finite, Of
    <3> QED
      BY <3>1, ListingIn, SeqMonotonic
  <2>3. ASSUME NEW x \in Dashboards PROVE ShowsOf(page'[x], stored)
    <3>1. CASE page' = [page EXCEPT ![d].fetch = "counted", ![d].read = Cardinality(Of("connection"))]
      BY <3>1, <1>t DEF PageTyped, Views, ShowsOf
    <3>2. CASE \E list \in Listings(Of("detection")) :
                  page' = [page EXCEPT ![d].fetch = "read", ![d].list = list]
      <4>1. PICK q \in Seq(stored) : page' = [page EXCEPT ![d].fetch = "read", ![d].list = q]
        BY <3>2, <2>2
      <4> QED
        BY <4>1, <1>t DEF PageTyped, Views, ShowsOf
    <3>3. CASE page' = [page EXCEPT ![d] = [page[d] EXCEPT !.fetch = "none", !.stats = TRUE,
                         !.count = page[d].read, !.recent = page[d].list, !.read = 0, !.list = <<>>]]
      BY <3>3, <1>t, <1>e DEF PageTyped, Views, ShowsOf
    <3> QED
      BY <1>7, <3>1, <3>2, <3>3 DEF FetchAll
  <2> QED
    BY <2>1, <2>3 DEF Event
<1>8. ASSUME Reboot PROVE ViewsStored'
  <2>1. ASSUME NEW v \in Views, ShowsOf(v, stored) PROVE ShowsOf(After(v), stored)
    BY <2>1, <1>e DEF After, ShowsOf, Views
  <2>2. ASSUME NEW x \in Dashboards PROVE ShowsOf(page'[x], stored')
    BY <1>8, <1>t, <2>1 DEF Reboot, PageTyped
  <2> QED
    BY <1>8, <2>2 DEF Reboot, NoCall, Request
<1>9. ASSUME UNCHANGED <<call, stored, page>> PROVE ViewsStored'
  BY <1>9 DEF Event
<1> QED
  BY <1>1, <1>2, <1>3, <1>4, <1>5, <1>6, <1>7, <1>8, <1>9 DEF PerimeterNext, perimeter,
     GenerateEnrollmentToken, EnrollmentExpires, PressRevoke, RevokeNode

(***************************************************************************)
(* Before anything has happened.                                           *)
(***************************************************************************)
LEMMA Start ==
    ASSUME PerimeterInit PROVE SensorInv
<1> USE DEF PerimeterInit
<1>b. MaxNodes \in Nat /\ MaxEvents \in Nat /\ MaxReboots \in Nat
  BY BoundsAreNumbers
<1>1. PerimeterTypeOK
  <2>1. Closed \in Views
    BY ClosedTyped
  <2> QED
    BY <1>b, <2>1, NoCallTyped DEF PerimeterTypeOK, AtRest
<1>2. Finite
  BY FS_EmptySet DEF Finite
<1>3. TokensSpent /\ DesksNamed
  BY DEF TokensSpent, DesksNamed, NoCall, Request
<1>4. NodesInOrder
  <2>1. FirstNodes(0) /\ 0 \in 0..MaxNodes
    BY <1>b DEF FirstNodes, Nodes
  <2> QED
    BY <2>1 DEF NodesInOrder
<1>5. Silenced
  BY DEF Silenced, RevokedIsSilent, NoCall, Request
<1>6. ViewsStored
  <2>1. ShowsOf(Closed, stored)
    BY DEF Closed, ShowsOf
  <2> QED
    BY <2>1 DEF ViewsStored, NoCall, Request
<1> QED
  BY <1>1, <1>2, <1>3, <1>4, <1>5, <1>6 DEF SensorInv

(***************************************************************************)
(* In every behaviour all parts hold in every state.                       *)
(***************************************************************************)
THEOREM SensorsInductive ==
    PerimeterSpec => []SensorInv
<1>1. PerimeterInit => SensorInv
  BY Start
<1>2. SensorInv /\ [PerimeterNext]_perimeter => SensorInv'
  BY TypesStep, TokensStep, OrderStep, DesksStep, SilencedStep, ViewsStep DEF SensorInv
<1> QED
  BY <1>1, <1>2, PTL DEF PerimeterSpec

(***************************************************************************)
(* The collections, calls and dashboards keep their types.                 *)
(***************************************************************************)
THEOREM SensorsTyped ==
    PerimeterSpec => []PerimeterTypeOK
<1>1. SensorInv => PerimeterTypeOK
  BY DEF SensorInv
<1> QED
  BY <1>1, SensorsInductive, PTL

(***************************************************************************)
(* An enrolment that was sent after its token had served is never answered *)
(* with a node, however enrolments, expiries and restarts interleave       *)
(* (enrollNode of node.controller.js).                                     *)
(***************************************************************************)
THEOREM TokensServeOnce ==
    PerimeterSpec => []TokenServesOnce
<1>1. SensorInv => TokenServesOnce
  BY DEF SensorInv, TokensSpent, TokenServesOnce, Reached
<1> QED
  BY <1>1, SensorsInductive, PTL

(***************************************************************************)
(* A report that was sent after its node's revocation had been answered is *)
(* not stored (agentAuth of agent.middleware.js).                          *)
(***************************************************************************)
THEOREM RevokedNodesAreSilent ==
    PerimeterSpec => []RevokedIsSilent
<1>1. SensorInv => RevokedIsSilent
  BY DEF SensorInv, Silenced
<1> QED
  BY <1>1, SensorsInductive, PTL

(***************************************************************************)
(* A dashboard shows reports that are stored, and no others, although it   *)
(* takes them from two sources (agent.controller.js, socket.js).           *)
(***************************************************************************)
THEOREM DashboardsShowTheStored ==
    PerimeterSpec => []ShownIsStored
<1>1. SensorInv => ShownIsStored
  BY DEF SensorInv, ViewsStored, ShowsOf, ShownIsStored
<1> QED
  BY <1>1, SensorsInductive, PTL
=============================================================================
