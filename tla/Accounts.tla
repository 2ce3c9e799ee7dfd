------------------------------- MODULE Accounts -------------------------------
(***************************************************************************)
(* The accounts of the dashboard: the collections of users and of          *)
(* administrators, the one-time codes of a password reset, and the handlers*)
(* of auth.controller.js, github.controller.js and admin.controller.js that*)
(* read and write them, with the pages that send the requests.             *)
(*                                                                         *)
(* A handler is one step per await on a collection; the steps of different *)
(* requests interleave.  A password is a member of Passwords, `hashes` is  *)
(* how often it went through bcrypt: only once makes it match.  Requests   *)
(* that the gate of module SignIn refuses never get here.                  *)
(***************************************************************************)
EXTENDS Naturals, FiniteSets

CONSTANTS
    Ids,          \* bound: _id of the documents, 1..n
    Emails,       \* addresses
    Clients,      \* browsers of people
    Desks,        \* browsers of administrators
    Asked,        \* bound: roles a registration may name; Register.jsx names none
    Codes,        \* bound: one-time codes, 1..n
    MaxRequests,  \* bound: requests in a behaviour
    MaxCrashes    \* bound: restarts of the backend

ASSUME NumbersAreFromOne ==
    /\ IsFiniteSet(Ids) /\ Ids = 1..Cardinality(Ids) /\ Ids # {}
    /\ IsFiniteSet(Codes) /\ Codes = 1..Cardinality(Codes) /\ Codes # {}
ASSUME LimitsAreNumbers == {MaxRequests, MaxCrashes} \subseteq Nat

\* validateLogin and validateRegister ask for 8 characters, ResetPassword.jsx
\* for 6; the account GitHub made has a password nobody knows.
Long      == {"first", "second"}
Typable   == Long \cup {"brief"}
Passwords == Typable \cup {"random"}
Roles     == {"user", "admin", "superadmin"}

ASSUME AskedAreRoles == Asked \subseteq Roles

\* The collection a role belongs in.
Home(role) == IF role = "user" THEN "users" ELSE "admins"

VARIABLES
    callback,  \* setting: the controller GITHUB_CALLBACK_URL leads to
    users,     \* the collection users: a function from its _ids
    admins,    \* the collection admins
    born,      \* _ids given so far
    otps,      \* the collection of codes
    codes,     \* codes made so far
    mailed,    \* codes that reached their owner, by address
    session,   \* _id in the token of each client, or NoId
    token,     \* address in the reset token of each client, or None
    link,      \* what GitHub left with each client
    request,   \* the request of each tab
    count,     \* requests so far
    crashes,   \* restarts so far
    secret,    \* ghost: the password last saved in each document, or in the
               \* one it was moved from
    changes,   \* ghost: passwords saved or moved so far
    resets,    \* ghost: resets that have ended, by address
    proved     \* ghost: what that was when a code was last verified

stores == <<users, admins, born>>
pages  == <<session, token, link>>
ghosts == <<secret, changes, resets, proved>>
bounds == <<callback, count, crashes>>
mail   == <<codes, mailed>>
vars   == <<stores, otps, mail, pages, request, bounds, ghosts>>

None   == "none"
NoId   == 0
Tabs   == Clients \cup Desks
Homes  == {"users", "admins"}
Nobody == [id |-> NoId, from |-> None, email |-> None, password |-> "random",
           hashes |-> 0, role |-> "user", status |-> "active", github |-> FALSE]
Idle   == [op |-> None, step |-> None, email |-> None, password |-> "random",
           code |-> 0, id |-> NoId, goal |-> None, seen |-> Nobody, began |-> 0]

Doc(e, p, g) == [email |-> e, password |-> p, hashes |-> 1, role |-> "user",
                 status |-> "active", github |-> g]

\* A document more in a collection, and one less.
With(f, i, doc) == [j \in DOMAIN f \cup {i} |-> IF j = i THEN doc ELSE f[j]]
Without(f, i)   == [j \in DOMAIN f \ {i} |-> f[j]]

Verified(e) == \E o \in otps : o.email = e /\ o.verified

\* Nobody is registered yet, or one person is, and may have just proved to be
\* the owner of the address.
Init ==
    /\ callback \in {"auth", "devops"}
    /\ users = <<>> \/ \E e \in Emails : users = With(<<>>, 1, Doc(e, "first", FALSE))
    /\ admins = <<>>
    /\ born = DOMAIN users
    /\ otps \in {{}} \cup {{[email |-> users[i].email, code |-> 1, verified |-> TRUE, expired |-> FALSE]} :
                            i \in born}
    /\ codes = Cardinality(otps)
    /\ mailed = [e \in Emails |-> {o.code : o \in {p \in otps : p.email = e}}]
    /\ session = [c \in Clients |-> NoId]
    /\ IF otps = {} THEN token = [c \in Clients |-> None]
       ELSE \E c \in Clients, o \in otps : token = [d \in Clients |-> IF d = c THEN o.email ELSE None]
    /\ link = [c \in Clients |-> None]
    /\ request = [t \in Tabs |-> Idle]
    /\ count = 0
    /\ crashes = 0
    /\ secret = [f \in Homes |-> [i \in Ids |-> IF f = "users" /\ i \in born THEN "first" ELSE None]]
    /\ changes = 0
    /\ resets = [e \in Emails |-> 1]
    /\ proved = [e \in Emails |-> IF Verified(e) THEN 1 ELSE 0]

(***************************************************************************)
(* Requests.                                                               *)
(***************************************************************************)
Go(t, step)  == request' = [request EXCEPT ![t].step = step]
Reply(t)     == request' = [request EXCEPT ![t] = Idle]

Send(t, r) ==
    /\ request[t] = Idle
    /\ count < MaxRequests
    /\ count' = count + 1
    /\ request' = [request EXCEPT ![t] = r]
    /\ UNCHANGED <<callback, stores, otps, mail, pages, crashes, ghosts>>

Ask(op, step, e, p) ==
    [op |-> op, step |-> step, email |-> e, password |-> p,
     code |-> 0, id |-> NoId, goal |-> None, seen |-> Nobody, began |-> changes]

Order(op, i, goal) ==
    [op |-> op, step |-> "users", email |-> None, password |-> "random",
     code |-> 0, id |-> i, goal |-> goal, seen |-> Nobody, began |-> changes]

\* The forms.  A register form that GitHub filled in carries its token.  The
\* popup of a profile is a sign-in where auth.controller.js answers GitHub.
SendForm(c) == \E e \in Emails :
    \/ /\ session[c] = NoId
       /\ \E p \in Long, role \in Asked \cup {None} :
             Send(c, [Ask("register", "users", e, p) EXCEPT !.goal = role])
    \/ session[c] = NoId /\ \E p \in Long : Send(c, Ask("login", "users", e, p))
    \/ Send(c, Ask("forgot", "users", e, "random"))
    \/ \E n \in mailed[e] : Send(c, [Ask("verify", "find", e, "random") EXCEPT !.code = n])
    \/ /\ token[c] = e
       /\ \E p \in Typable : Send(c, [Ask("reset", "proof", e, p) EXCEPT !.began = resets[e]])
    \/ /\ session[c] = NoId \/ callback = "auth"
       /\ Send(c, Ask("github", "handles", e, "random"))
    \/ link[c] = "link" /\ \E p \in Typable : Send(c, Ask("link", "users", e, p))

\* The buttons of a profile.
SendSignedIn(c) == \E op \in {"connect", "unlink"} :
    /\ session[c] # NoId
    /\ op = "connect" => callback = "devops"
    /\ Send(c, Order(op, session[c], None))

\* The directory of the administrators: a list that may be older than the
\* accounts in it.
SendDesk(d) == \E i \in born :
    \/ \E r \in Roles : Send(d, Order("role", i, r))
    \/ \E s \in {"active", "banned"} : Send(d, Order("status", i, s))

(***************************************************************************)
(* The collections.                                                        *)
(***************************************************************************)
Collection(from) == IF from = "users" THEN users ELSE admins

Matches(r, from, i) ==
    LET doc == Collection(from)[i] IN
    CASE r.id # NoId                          -> i = r.id
      [] r.step \in {"handles", "ahandles"}   -> doc.github
      [] OTHER                                -> doc.email = r.email

Seen(from, i) ==
    LET doc == Collection(from)[i] IN
    [id |-> i, from |-> from, email |-> doc.email, password |-> doc.password, hashes |-> doc.hashes,
     role |-> doc.role, status |-> doc.status, github |-> doc.github]

\* findOne in users, then in admins: two steps, an account may move between.
Look(t, from, hit, miss) ==
    LET r    == request[t]
        hits == {i \in DOMAIN Collection(from) : Matches(r, from, i)}
    IN  /\ \/ /\ hits = {}
              /\ Go(t, miss)
           \/ \E i \in hits :
                request' = [request EXCEPT ![t].step = hit, ![t].seen = Seen(from, i)]
        /\ UNCHANGED <<stores, otps, mail, pages, bounds, ghosts>>

Lookup(t) ==
    \/ request[t].step = "users"    /\ Look(t, "users", "found", "admins")
    \/ request[t].step = "admins"   /\ Look(t, "admins", "found", "missing")
    \/ request[t].step = "handles"  /\ Look(t, "users", "linked", "ahandles")
    \/ request[t].step = "ahandles" /\ Look(t, "admins", "linked", "users")

At(t, op, step) == request[t].op = op /\ request[t].step = step

\* save() writes the paths that were assigned; it throws when the document is
\* no longer in its collection.
Stored(s) == s.id \in DOMAIN Collection(s.from)

Update(s, doc) ==
    /\ users' = IF s.from = "users" THEN [users EXCEPT ![s.id] = doc] ELSE users
    /\ admins' = IF s.from = "admins" THEN [admins EXCEPT ![s.id] = doc] ELSE admins
    /\ UNCHANGED born

Current(s) == Collection(s.from)[s.id]

Remembered(from, i, p) ==
    /\ secret' = [secret EXCEPT ![from][i] = p]
    /\ changes' = changes + 1
    /\ UNCHANGED <<resets, proved>>

\* An address is unique in its collection, not in both.
Free(from, e) == \A i \in DOMAIN Collection(from) : Collection(from)[i].email # e

\* matchPassword
Opens(s, p) == s.password = p /\ s.hashes = 1

(***************************************************************************)
(* The handlers of auth.controller.js.                                     *)
(***************************************************************************)
Create(c, e, p, g, role) == \E i \in Ids :
    LET to  == Home(role)
        doc == [Doc(e, p, g) EXCEPT !.role = role]
    IN
    /\ i = Cardinality(born) + 1
    /\ users' = IF to = "users" THEN With(users, i, doc) ELSE users
    /\ admins' = IF to = "admins" THEN With(admins, i, doc) ELSE admins
    /\ born' = born \cup {i}
    /\ session' = [session EXCEPT ![c] = i]
    /\ link' = [link EXCEPT ![c] = None]
    /\ Remembered(to, i, p)
    /\ UNCHANGED token

\* The role the body names, or user.
RoleOf(r) == IF r.goal = None THEN "user" ELSE r.goal

Registered(c) ==
    LET r    == request[c]
        role == RoleOf(r)
    IN
    /\ \/ At(c, "register", "found") /\ UNCHANGED <<stores, pages, ghosts>>
       \/ /\ At(c, "register", "missing")
          /\ \/ /\ Free(Home(role), r.email)
                /\ Create(c, r.email, r.password, link[c] = "signup", role)
             \/ ~Free(Home(role), r.email) /\ UNCHANGED <<stores, pages, ghosts>>
    /\ Reply(c)
    /\ UNCHANGED <<otps, mail, bounds>>

SignedIn(c, i) ==
    /\ session' = [session EXCEPT ![c] = i]
    /\ UNCHANGED <<token, link>>

LoggedIn(c) ==
    LET r == request[c] IN
    /\ At(c, "login", "found") \/ At(c, "login", "missing")
    /\ IF r.step = "found" /\ r.seen.status = "active" /\ Opens(r.seen, r.password)
       THEN SignedIn(c, r.seen.id) ELSE UNCHANGED pages
    /\ Reply(c)
    /\ UNCHANGED <<stores, otps, mail, bounds, ghosts>>

Others(e) == {o \in otps : o.email # e}

\* An unknown address is told the same as a known one.
Forgot(c) ==
    LET r == request[c] IN
    /\ \/ At(c, "forgot", "missing") /\ Reply(c) /\ UNCHANGED <<otps, mail>>
       \/ At(c, "forgot", "found") /\ otps' = Others(r.email) /\ Go(c, "create") /\ UNCHANGED mail
       \/ /\ At(c, "forgot", "create")
          /\ \E k \in Codes :
                /\ k = codes + 1
                /\ codes' = k
                /\ otps' = otps \cup {[email |-> r.email, code |-> k, verified |-> FALSE, expired |-> FALSE]}
                /\ request' = [request EXCEPT ![c].step = "mail", ![c].code = k]
          /\ UNCHANGED mailed
       \/ /\ At(c, "forgot", "mail")
          /\ \/ mailed' = [mailed EXCEPT ![r.email] = @ \cup {r.code}]
             \/ UNCHANGED mailed
          /\ Reply(c)
          /\ UNCHANGED <<otps, codes>>
    /\ UNCHANGED <<stores, pages, bounds, ghosts>>

Verify(c) ==
    LET r   == request[c]
        hit == {o \in otps : o.email = r.email /\ o.code = r.code}
    IN
    /\ \/ /\ At(c, "verify", "find")
          /\ \/ hit = {} /\ Reply(c) /\ UNCHANGED otps
             \/ \E o \in hit : o.expired /\ otps' = otps \ {o} /\ Reply(c)
             \/ \E o \in hit : ~o.expired /\ UNCHANGED otps /\ Go(c, "save")
          /\ UNCHANGED <<token, proved>>
       \/ /\ At(c, "verify", "save")
          /\ \/ hit = {} /\ UNCHANGED <<otps, token, proved>>
             \/ \E o \in hit :
                  /\ otps' = (otps \ {o}) \cup {[o EXCEPT !.verified = TRUE]}
                  /\ token' = [token EXCEPT ![c] = r.email]
                  /\ proved' = [proved EXCEPT ![r.email] = resets[r.email]]
          /\ Reply(c)
    /\ UNCHANGED <<stores, mail, session, link, bounds, secret, changes, resets>>

\* Mutant: the code is left behind.
ResetKeepsCode(c) ==
    LET r == request[c] IN
    /\ \/ /\ At(c, "reset", "proof")
          /\ IF token[c] = r.email /\ Verified(r.email) THEN Go(c, "users") ELSE Reply(c)
          /\ UNCHANGED <<stores, otps, ghosts>>
       \/ At(c, "reset", "missing") /\ Reply(c) /\ UNCHANGED <<stores, otps, ghosts>>
       \/ /\ At(c, "reset", "found")
          /\ IF Stored(r.seen)
             THEN /\ Update(r.seen, [Current(r.seen) EXCEPT !.password = r.password, !.hashes = 1])
                  /\ Remembered(r.seen.from, r.seen.id, r.password)
                  /\ Go(c, "clean")
             ELSE Reply(c) /\ UNCHANGED <<stores, ghosts>>
          /\ UNCHANGED otps
       \/ /\ At(c, "reset", "clean")
          /\ resets' = [resets EXCEPT ![r.email] = @ + 1]
          /\ Reply(c)
          /\ UNCHANGED <<stores, otps, secret, changes, proved>>
    /\ UNCHANGED <<mail, pages, bounds>>

Reset(c) ==
    LET r == request[c] IN
    /\ \/ /\ At(c, "reset", "proof")
          /\ IF token[c] = r.email /\ Verified(r.email) THEN Go(c, "users") ELSE Reply(c)
          /\ UNCHANGED <<stores, otps, ghosts>>
       \/ At(c, "reset", "missing") /\ Reply(c) /\ UNCHANGED <<stores, otps, ghosts>>
       \/ /\ At(c, "reset", "found")
          /\ IF Stored(r.seen)
             THEN /\ Update(r.seen, [Current(r.seen) EXCEPT !.password = r.password, !.hashes = 1])
                  /\ Remembered(r.seen.from, r.seen.id, r.password)
                  /\ Go(c, "clean")
             ELSE Reply(c) /\ UNCHANGED <<stores, ghosts>>
          /\ UNCHANGED otps
       \/ /\ At(c, "reset", "clean")
          /\ otps' = Others(r.email)
          /\ resets' = [resets EXCEPT ![r.email] = @ + 1]
          /\ Reply(c)
          /\ UNCHANGED <<stores, secret, changes, proved>>
    /\ UNCHANGED <<mail, pages, bounds>>

(***************************************************************************)
(* GitHub: one account there, its address is that of the request.          *)
(***************************************************************************)
Linked(s) == Update(s, [Current(s) EXCEPT !.github = TRUE])

\* githubLoginCallback of auth.controller.js refuses a banned account, the
\* callback of github.controller.js does not; the one creates an account for a
\* new address, the other leads to the register form.
Github(c) ==
    LET r == request[c] IN
    /\ \/ /\ At(c, "github", "linked")
          /\ IF Stored(r.seen) /\ (callback = "devops" \/ r.seen.status = "active")
             THEN SignedIn(c, r.seen.id) ELSE UNCHANGED pages
          /\ UNCHANGED <<stores, ghosts>>
       \/ /\ At(c, "github", "found")
          /\ link' = [link EXCEPT ![c] = "link"]
          /\ UNCHANGED <<stores, session, token, ghosts>>
       \/ /\ At(c, "github", "missing")
          /\ \/ callback = "auth" /\ Free("users", r.email) /\ Create(c, r.email, "random", TRUE, "user")
             \/ callback = "auth" /\ ~Free("users", r.email) /\ UNCHANGED <<stores, pages, ghosts>>
             \/ /\ callback = "devops"
                /\ link' = [link EXCEPT ![c] = "signup"]
                /\ UNCHANGED <<stores, session, token, ghosts>>
    /\ Reply(c)
    /\ UNCHANGED <<otps, mail, bounds>>

\* linkGithubAccount: the password of the account, then the handle.
Link(c) ==
    LET r == request[c] IN
    /\ At(c, "link", "found") \/ At(c, "link", "missing")
    /\ IF r.step = "found" /\ r.seen.status = "active" /\ Opens(r.seen, r.password) /\ Stored(r.seen)
       THEN /\ Linked(r.seen)
            /\ session' = [session EXCEPT ![c] = r.seen.id]
            /\ link' = [link EXCEPT ![c] = None]
            /\ UNCHANGED token
       ELSE UNCHANGED <<stores, pages>>
    /\ Reply(c)
    /\ UNCHANGED <<otps, mail, bounds, ghosts>>

\* unlinkGithub is behind protect, which refuses who is banned, and the popup
\* that connects comes back without it.  What the two look up is one lookup.
Profile(c) ==
    LET r == request[c] IN
    /\ r.op \in {"connect", "unlink"}
    /\ r.step \in {"found", "missing"}
    /\ IF /\ r.step = "found" /\ Stored(r.seen)
          /\ r.op = "unlink" => r.seen.status = "active"
       THEN Update(r.seen, [Current(r.seen) EXCEPT !.github = r.op = "connect"])
       ELSE UNCHANGED stores
    /\ Reply(c)
    /\ UNCHANGED <<otps, mail, pages, bounds, ghosts>>

SignOut(c) ==
    /\ request[c] = Idle
    /\ session[c] # NoId
    /\ session' = [session EXCEPT ![c] = NoId]
    /\ UNCHANGED <<stores, otps, mail, token, link, request, bounds, ghosts>>

(***************************************************************************)
(* The handlers of admin.controller.js.                                    *)
(***************************************************************************)
\* Mutant: create keeps the hash it is given.
MovedAsItWas(s, role) == [email |-> s.email, password |-> s.password, hashes |-> s.hashes,
                          role |-> role, status |-> s.status, github |-> s.github]

\* A role of the other collection moves the document: it is deleted, then
\* created again from what was read, and create hashes the password it gets.
Moved(s, role) == [email |-> s.email, password |-> s.password, hashes |-> 2,
                   role |-> role, status |-> s.status, github |-> s.github]

ChangeRole(d) ==
    LET r == request[d]
        s == r.seen
        to == Home(r.goal)
    IN
    /\ \/ At(d, "role", "missing") /\ Reply(d) /\ UNCHANGED <<stores, ghosts>>
       \/ /\ At(d, "role", "found") /\ to = s.from
          /\ IF Stored(s) THEN Update(s, [Current(s) EXCEPT !.role = r.goal]) ELSE UNCHANGED stores
          /\ Reply(d)
          /\ UNCHANGED ghosts
       \/ /\ At(d, "role", "found") /\ to # s.from
          /\ users' = IF s.from = "users" THEN Without(users, s.id) ELSE users
          /\ admins' = IF s.from = "admins" THEN Without(admins, s.id) ELSE admins
          /\ Go(d, "create")
          /\ UNCHANGED <<born, ghosts>>
       \/ /\ At(d, "role", "create")
          /\ IF Free(to, s.email) /\ s.id \notin DOMAIN Collection(to)
             THEN /\ users' = IF to = "users" THEN With(users, s.id, Moved(s, r.goal)) ELSE users
                  /\ admins' = IF to = "admins" THEN With(admins, s.id, Moved(s, r.goal)) ELSE admins
                  /\ Remembered(to, s.id, secret[s.from][s.id])
             ELSE UNCHANGED <<users, admins, ghosts>>
          /\ Reply(d)
          /\ UNCHANGED born
    /\ UNCHANGED <<otps, mail, pages, bounds>>

ChangeStatus(d) ==
    LET r == request[d] IN
    /\ At(d, "status", "found") \/ At(d, "status", "missing")
    /\ IF r.step = "found" /\ r.seen.role # "superadmin" /\ Stored(r.seen)
       THEN Update(r.seen, [Current(r.seen) EXCEPT !.status = r.goal])
       ELSE UNCHANGED stores
    /\ Reply(d)
    /\ UNCHANGED <<otps, mail, pages, bounds, ghosts>>

(***************************************************************************)
(* Time and restarts.                                                      *)
(***************************************************************************)
CodeExpires == \E o \in otps :
    /\ ~o.expired
    /\ otps' = (otps \ {o}) \cup {[o EXCEPT !.expired = TRUE]}
    /\ UNCHANGED <<stores, mail, pages, request, bounds, ghosts>>

TokenExpires(c) ==
    /\ token[c] # None
    /\ token' = [token EXCEPT ![c] = None]
    /\ UNCHANGED <<stores, otps, mail, session, link, request, bounds, ghosts>>

\* The backend restarts: the requests it was serving are gone.
Restart ==
    /\ crashes < MaxCrashes
    /\ \E t \in Tabs : request[t] # Idle
    /\ crashes' = crashes + 1
    /\ request' = [t \in Tabs |-> Idle]
    /\ UNCHANGED <<callback, stores, otps, mail, pages, count, ghosts>>

Next ==
    \/ \E t \in Tabs : Lookup(t)
    \/ \E c \in Clients :
        \/ SendForm(c) \/ SendSignedIn(c)
        \/ Registered(c) \/ LoggedIn(c) \/ Forgot(c) \/ Verify(c) \/ Reset(c)
        \/ Github(c) \/ Link(c) \/ Profile(c) \/ SignOut(c) \/ TokenExpires(c)
    \/ \E d \in Desks : SendDesk(d) \/ ChangeRole(d) \/ ChangeStatus(d)
    \/ CodeExpires \/ Restart

Spec == Init /\ [][Next]_vars

(***************************************************************************)
(* Properties.                                                             *)
(***************************************************************************)
Documents == [email : Emails, password : Passwords, hashes : {1, 2}, role : Roles,
              status : {"active", "banned"}, github : BOOLEAN]

TypeOK ==
    /\ DOMAIN users \cup DOMAIN admins \subseteq born /\ born \subseteq Ids
    /\ users \in [DOMAIN users -> Documents] /\ admins \in [DOMAIN admins -> Documents]
    /\ otps \subseteq [email : Emails, code : Codes, verified : BOOLEAN, expired : BOOLEAN]
    /\ mailed \in [Emails -> SUBSET Codes]
    /\ session \in [Clients -> Ids \cup {NoId}]
    /\ token \in [Clients -> Emails \cup {None}]
    /\ link \in [Clients -> {None, "link", "signup"}]
    /\ secret \in [Homes -> [Ids -> Passwords \cup {None}]]
    /\ changes \in Nat /\ resets \in [Emails -> Nat] /\ proved \in [Emails -> Nat]
    /\ count \in 0..MaxRequests /\ crashes \in 0..MaxCrashes

\* What a step does that saves the password of a reset, and one that signs in
\* with a password.
ResetIsProved == \A c \in Clients :
    At(c, "reset", "found") /\ request'[c].step = "clean"
        => proved[request[c].email] >= request[c].began
PasswordIsLast == \A c \in Clients :
    LET r == request[c] IN
    At(c, "login", "found") /\ session'[c] # session[c] /\ changes = r.began
        => secret[r.seen.from][r.seen.id] = r.password

\* A reset that was sent after another of the same address had ended sets a
\* password only when a code of that address was verified since that other one
\* ended: no token and no code serve two resets that follow each other,
\* whatever codes were asked for meanwhile.
ProofIsFresh == [][ResetIsProved]_vars

\* A sign-in by password that was sent after the last time a password was saved
\* or moved opens a document with the password last saved in it, or in the one
\* it was moved from, and with no other, whatever resets, moves between the
\* collections and linking went on before.
OldPasswordIsDead == [][PasswordIsLast]_vars

\* What the code does not keep (README, section 6): that whoever is moved to the
\* other collection can sign in, that nobody is lost on the way, and, with two
\* administrators at work, that nobody is in both.
PromotedCanSignIn ==
    \A from \in Homes : \A i \in DOMAIN Collection(from) : Collection(from)[i].hashes = 1
AccountIsKept == request = [t \in Tabs |-> Idle] => DOMAIN users \cup DOMAIN admins = born
NobodyIsTwice == DOMAIN users \cap DOMAIN admins = {}
=============================================================================
