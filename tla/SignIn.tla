-------------------------------- MODULE SignIn --------------------------------
(***************************************************************************)
(* The sign-in forms of the frontend (pages/Login.jsx, AdminLogin.jsx and  *)
(* Register.jsx) against the doors of the backend: the adaptive CAPTCHA of *)
(* middleware/captcha.middleware.js, whose counters are in Redis, the      *)
(* limiters of middleware/rateLimiter.js and the validators of             *)
(* middleware/auth.validation.js.  All forms are behind one address, as    *)
(* the browsers of one office are: the counters are kept by address.       *)
(*                                                                         *)
(* What is typed is a member of Typed, what the image of a challenge says  *)
(* is right or wrong; what an account is belongs to module Accounts.       *)
(***************************************************************************)
EXTENDS Naturals

CONSTANTS
    Openings,     \* sets of forms that may be open together
    Threshold,    \* requests of one window before a challenge is asked (6)
    LoginMax,     \* failed logins of one window (10)
    RegisterMax,  \* registrations of one window (5)
    MaxAttempts,  \* failures before a form locks itself (5)
    MaxMistakes,  \* bound: wrong passwords, forms and answers
    MaxFaults     \* bound: failures of Redis, lost requests and lost answers

Forms  == {"user", "admin", "register"}
Labels == {"login", "register"}

\* what is typed: accepted; a form the page accepts and the server refuses, or
\* a wrong password; the password of somebody who is no administrator
Typed  == {"right", "wrong", "other"}
Tokens == {"none", "right", "wrong"}

ASSUME OpeningsAreForms == Openings \subseteq SUBSET Forms
ASSUME LimitsAreNumbers ==
    {Threshold, LoginMax, RegisterMax, MaxAttempts} \subseteq Nat \ {0}

VARIABLES
    form,      \* the state of each form
    rate,      \* gate:reqrate, the requests counted for each label
    expiring,  \* labels whose counter has a time to live
    passed,    \* labels whose challenge has been passed
    hits,      \* what the limiter has counted for each label
    made,      \* whether the account of the register form exists
    mistakes,  \* mistakes so far
    faults     \* faults so far

gate == <<rate, expiring, passed>>
vars == <<form, gate, hits, made, mistakes, faults>>

Label(f)    == IF f = "register" THEN "register" ELSE "login"
LimitOf(l)  == IF l = "register" THEN RegisterMax ELSE LoginMax
AtMost(n, m) == IF n < m THEN n ELSE m

\* The token is what the form sends with its next request; one that has been
\* sent is used up and counts as wrong from then on.
Empty == [step |-> "idle", typed |-> "wrong", token |-> "none",
          challenge |-> FALSE, attempts |-> 0, locked |-> FALSE]
Away  == [Empty EXCEPT !.step = "away"]

Init ==
    /\ \E open \in Openings : form = [f \in Forms |-> IF f \in open THEN Empty ELSE Away]
    /\ rate = [l \in Labels |-> 0]
    /\ expiring = {}
    /\ passed = {}
    /\ hits = [l \in Labels |-> 0]
    /\ made = FALSE
    /\ mistakes = 0
    /\ faults = 0

Mistaken(wrong) ==
    /\ wrong => mistakes < MaxMistakes
    /\ mistakes' = IF wrong THEN mistakes + 1 ELSE mistakes

Free(f) == form[f].step = "idle" /\ ~form[f].locked

\* The button of the form: it sends what is typed and the token it still has.
Submit(f, typed) ==
    /\ Free(f)
    /\ typed = "other" => f = "admin"
    /\ Mistaken(typed # "right")
    /\ form' = [form EXCEPT ![f].step = "sent", ![f].typed = typed,
                            ![f].token = IF @ = "none" THEN "none" ELSE "wrong"]
    /\ UNCHANGED <<gate, hits, made, faults>>

\* The button under the image: the answer goes with what the fields still hold.
Solve(f, answer) ==
    /\ Free(f)
    /\ form[f].challenge
    /\ Mistaken(answer = "wrong")
    /\ form' = [form EXCEPT ![f].step = "sent", ![f].token = answer]
    /\ UNCHANGED <<gate, hits, made, faults>>

\* A failure the form counts: the last one it allows locks it.
Failed(f) ==
    LET n == form[f].attempts + 1 IN
    form' = [form EXCEPT ![f].step = "idle",
                         ![f].attempts = IF f = "register" \/ n >= MaxAttempts THEN 0 ELSE n,
                         ![f].locked = f # "register" /\ n >= MaxAttempts]

\* AdminLogin.jsx knows no challenge: the answer of the gate is a failure to it.
Challenged(f) ==
    IF f = "admin" THEN Failed(f)
    ELSE form' = [form EXCEPT ![f].step = "idle", ![f].challenge = TRUE]

\* The limiter is next: it counts the request, over its limit it answers 429.
Admit(f) ==
    LET l == Label(f) IN
    /\ hits' = [hits EXCEPT ![l] = AtMost(@ + 1, LimitOf(l))]
    /\ form' = [form EXCEPT ![f].step = IF hits[l] < LimitOf(l) THEN "admitted" ELSE "limited"]

\* The first request of a window gives the counter its time to live.
BumpRequestRate(l) ==
    /\ rate' = [rate EXCEPT ![l] = AtMost(@ + 1, Threshold + 1)]
    /\ expiring' = IF rate[l] = 0 THEN expiring \cup {l} ELSE expiring

\* Mutant: an answer is never taken.
GateWithoutAnswer(f) ==
    LET l == Label(f) IN
    /\ form[f].step = "sent"
    /\ BumpRequestRate(l)
    /\ IF rate[l] < Threshold \/ l \in passed THEN Admit(f) ELSE Challenged(f) /\ UNCHANGED hits
    /\ UNCHANGED <<passed, made, mistakes, faults>>

\* requireCaptchaIfSuspicious
Gate(f) ==
    LET l == Label(f) IN
    /\ form[f].step = "sent"
    /\ BumpRequestRate(l)
    /\ IF rate[l] < Threshold \/ l \in passed
       THEN Admit(f) /\ UNCHANGED passed
       ELSE IF form[f].token = "right"
       THEN Admit(f) /\ passed' = passed \cup {l}
       ELSE Challenged(f) /\ UNCHANGED <<passed, hits>>
    /\ UNCHANGED <<made, mistakes, faults>>

Fault == faults < MaxFaults /\ faults' = faults + 1

\* Redis fails and the gate lets the request through.  The counter has been
\* incremented or not; it has its time to live unless the failure is between
\* the two commands of the first request of a window.
FailOpen(f) ==
    LET l == Label(f) IN
    /\ form[f].step = "sent"
    /\ Fault
    /\ \/ UNCHANGED <<rate, expiring>>
       \/ BumpRequestRate(l)
       \/ /\ rate[l] = 0
          /\ rate' = [rate EXCEPT ![l] = 1]
          /\ UNCHANGED expiring
    /\ Admit(f)
    /\ UNCHANGED <<passed, made, mistakes>>

\* The request is lost, or its answer before anything is counted.
Lost(f) ==
    /\ form[f].step = "sent"
    /\ Fault
    /\ Failed(f)
    /\ UNCHANGED <<gate, hits, made, mistakes>>

\* The limiter of the logins takes back what it counted for a request that
\* succeeded, that of the registrations does not.
TakenBack(f) ==
    hits' = IF Label(f) = "login"
            THEN [hits EXCEPT !["login"] = IF @ > 0 THEN @ - 1 ELSE 0] ELSE hits

\* A registration creates the account; a second one finds its address taken.
Creates(f)  == f = "register" /\ form[f].step = "admitted" /\ form[f].typed = "right"
Succeeds(f) == form[f].step = "admitted" /\ form[f].typed # "wrong" /\ ~(Creates(f) /\ made)

\* Who is signed in leaves the form.  To an account without the role the server
\* says yes, the administrators' page no.
Accepted(f) ==
    /\ form' = [form EXCEPT ![f] = IF form[f].typed = "other" THEN [@ EXCEPT !.step = "idle"]
                                   ELSE [Empty EXCEPT !.step = "in", !.typed = "right"]]
    /\ TakenBack(f)

Recorded(f) == made' = (made \/ Creates(f))

Answer(f) ==
    /\ form[f].step \in {"admitted", "limited"}
    /\ IF Succeeds(f) THEN Accepted(f) ELSE Failed(f) /\ UNCHANGED hits
    /\ Recorded(f)
    /\ UNCHANGED <<gate, mistakes, faults>>

\* The server has done all it does, but the page never hears of it.
AnswerLost(f) ==
    /\ form[f].step \in {"admitted", "limited"}
    /\ Fault
    /\ Failed(f)
    /\ IF Succeeds(f) THEN TakenBack(f) ELSE UNCHANGED hits
    /\ Recorded(f)
    /\ UNCHANGED <<gate, mistakes>>

\* Who is told that the address is taken follows the link to the login.
TurnToLogin ==
    /\ made
    /\ form["register"].step = "idle" /\ form["user"].step = "away"
    /\ form' = [form EXCEPT !["register"] = Away, !["user"] = Empty]
    /\ UNCHANGED <<gate, hits, made, mistakes, faults>>

\* The counter of the rate expires, if it has been told to.
RateExpires(l) ==
    /\ l \in expiring
    /\ rate' = [rate EXCEPT ![l] = 0]
    /\ expiring' = expiring \ {l}
    /\ UNCHANGED <<form, passed, hits, made, mistakes, faults>>

PassExpires(l) ==
    /\ l \in passed
    /\ passed' = passed \ {l}
    /\ UNCHANGED <<form, rate, expiring, hits, made, mistakes, faults>>

LimitExpires(l) ==
    /\ hits[l] > 0
    /\ hits' = [hits EXCEPT ![l] = 0]
    /\ UNCHANGED <<form, gate, made, mistakes, faults>>

Unlock(f) ==
    /\ form[f].locked
    /\ form' = [form EXCEPT ![f].locked = FALSE]
    /\ UNCHANGED <<gate, hits, made, mistakes, faults>>

Next ==
    \/ \E f \in Forms :
        \/ \E typed \in Typed : Submit(f, typed)
        \/ \E answer \in {"right", "wrong"} : Solve(f, answer)
        \/ Gate(f) \/ FailOpen(f) \/ Lost(f) \/ Answer(f) \/ AnswerLost(f) \/ Unlock(f)
    \/ TurnToLogin
    \/ \E l \in Labels : RateExpires(l) \/ PassExpires(l) \/ LimitExpires(l)

\* The server answers, the windows end, and people try again: they press the
\* button with the right password, where they can they read the image, and who
\* has an account does not register for ever.
Fairness ==
    /\ \A f \in Forms :
        /\ WF_vars(Gate(f)) /\ WF_vars(Answer(f)) /\ WF_vars(Unlock(f))
        /\ SF_vars(Submit(f, "right")) /\ SF_vars(Solve(f, "right"))
    /\ SF_vars(TurnToLogin)
    /\ \A l \in Labels : WF_vars(RateExpires(l)) /\ WF_vars(LimitExpires(l))

Spec == Init /\ [][Next]_vars /\ Fairness

(***************************************************************************)
(* Properties.                                                             *)
(***************************************************************************)
TypeOK ==
    /\ form \in [Forms -> [step : {"away", "idle", "sent", "admitted", "limited", "in"},
                           typed : Typed, token : Tokens, challenge : BOOLEAN,
                           attempts : 0..MaxAttempts, locked : BOOLEAN]]
    /\ rate \in [Labels -> 0..(Threshold + 1)]
    /\ expiring \subseteq Labels
    /\ passed \subseteq Labels
    /\ hits \in [Labels -> 0..(LoginMax + RegisterMax)]
    /\ made \in BOOLEAN
    /\ mistakes \in 0..MaxMistakes
    /\ faults \in 0..MaxFaults

Entered(f) == form[f].step = "in"
Enters(f)  == form[f].step # "away" => <>(Entered(f) \/ (f = "register" /\ Entered("user")))

\* Whoever keeps typing the right password gets in, and so does who registers,
\* by that form or by the login after it: no order of mistakes, challenges,
\* lockouts, limits, forms beside this one, failures of Redis and lost requests
\* and answers shuts the page of the users for good.
PeopleGetIn == \A f \in {"user", "register"} : Enters(f)

\* The same of the administrators' page.
AdministratorsGetIn == Enters("admin")
=============================================================================
