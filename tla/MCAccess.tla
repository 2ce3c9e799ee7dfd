------------------------------- MODULE MCAccess -------------------------------
(***************************************************************************)
(* Who gets in: people with their accounts (Accounts) and sensors with     *)
(* their enrolment (Perimeter), which share no variable.  A behaviour is   *)
(* one of either; the variables of the other rest.  Of the behaviours of   *)
(* sensors there are two kinds: with one report, and with more of them by  *)
(* one sensor, that is not revoked, to a backend that does not restart.    *)
(***************************************************************************)
EXTENDS Accounts, Perimeter, TLC

VARIABLE part

NoPeople == callback = "auth" /\ users = <<>> /\ otps = {}

MCInit ==
    /\ part \in {"people", "sensors", "reports"}
    /\ Init
    /\ PerimeterInit
    /\ part # "people" => NoPeople

People  == part = "people"  /\ UNCHANGED <<part, perimeter>>
Sensors == part # "people" /\ UNCHANGED <<part, vars>>
Many    == part = "reports"
First   == \A m \in Machines : call[m] = NoCall /\ machine[m] = 0

MCNext ==
    \/ \E t \in Tabs : People /\ Lookup(t)
    \/ \E c \in Clients :
        \/ People /\ SendForm(c)
        \/ People /\ SendSignedIn(c)
        \/ People /\ Registered(c)
        \/ People /\ LoggedIn(c)
        \/ People /\ Forgot(c)
        \/ People /\ Verify(c)
        \/ People /\ Reset(c)
        \/ People /\ Github(c)
        \/ People /\ Link(c)
        \/ People /\ Profile(c)
        \/ People /\ SignOut(c)
        \/ People /\ TokenExpires(c)
    \/ \E d \in Desks :
        \/ People /\ SendDesk(d)
        \/ People /\ ChangeRole(d)
        \/ People /\ ChangeStatus(d)
    \/ People /\ CodeExpires
    \/ People /\ Restart
    \/ \E t \in Tokens :
        \/ Sensors /\ GenerateEnrollmentToken(t)
        \/ Sensors /\ EnrollmentExpires(t)
    \/ \E m \in Machines :
        \/ Sensors /\ (Many => First) /\ Enroll(m)
        \/ Sensors /\ EnrollNode(m)
        \/ Sensors /\ Enrolled(m)
        \/ Sensors /\ (Many \/ events = 0) /\ Report(m)
        \/ Sensors /\ AgentAuth(m)
        \/ Sensors /\ Ingest(m)
    \/ \E d \in Lists :
        \/ Sensors /\ ~Many /\ PressRevoke(d)
        \/ Sensors /\ RevokeNode(d)
    \/ \E d \in Dashboards :
        \/ Sensors /\ OpenDashboard(d)
        \/ Sensors /\ JoinRoom(d)
        \/ Sensors /\ Refresh(d)
        \/ Sensors /\ FetchAll(d)
        \/ Sensors /\ CloseDashboard(d)
    \/ Sensors /\ ~Many /\ Reboot

\* No definition tells one browser, or one machine, from another.
Symmetry == Permutations(Clients) \cup Permutations(Machines)

MCSpec == MCInit /\ [][MCNext]_<<part, vars, perimeter>>
=============================================================================
