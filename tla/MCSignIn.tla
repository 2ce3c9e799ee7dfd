------------------------------- MODULE MCSignIn -------------------------------
(***************************************************************************)
(* Two pages that share no variable: the sign-in forms (SignIn) and the    *)
(* deployment page (DeployPage).  Where a form is open, the page is empty  *)
(* and rests; where none is, its user is past them and works on the page.  *)
(***************************************************************************)
EXTENDS SignIn, DeployPage, TLC

CONSTANTS j1, j2

MCOpenings == {{"user", "admin"}, {"register"}, {}}
MCUpgrades == (j1 :> {"react", "lodash"}) @@ (j2 :> {"flask"})

NoForm == \A f \in Forms : form[f].step = "away"

\* One build in progress, one to come.
PageOpened == doc = (j1 :> "building") @@ (j2 :> "absent")

MCInit ==
    /\ Init
    /\ PageInit
    /\ IF NoForm THEN PageOpened ELSE \A j \in Jobs : doc[j] = "absent"

InForms == ~NoForm /\ UNCHANGED pageVars
InPage  == NoForm /\ UNCHANGED vars

MCNext ==
    \/ \E f \in Forms :
        \/ \E typed \in Typed : InForms /\ Submit(f, typed)
        \/ \E answer \in {"right", "wrong"} : InForms /\ Solve(f, answer)
        \/ InForms /\ Gate(f)
        \/ InForms /\ FailOpen(f)
        \/ InForms /\ Lost(f)
        \/ InForms /\ Answer(f)
        \/ InForms /\ AnswerLost(f)
        \/ InForms /\ Unlock(f)
    \/ InForms /\ TurnToLogin
    \/ \E l \in Labels :
        \/ InForms /\ RateExpires(l)
        \/ InForms /\ PassExpires(l)
        \/ InForms /\ LimitExpires(l)
    \/ InPage /\ HandleUploadSubmit
    \/ InPage /\ HandleGithubImport
    \/ InPage /\ HandleUpdatePort
    \/ \E j \in Jobs :
        \/ InPage /\ HandleSelectDeployment(j)
        \/ InPage /\ HandleStop(j)
        \/ InPage /\ HandleHistoryStart(j)
        \/ InPage /\ HandleDeleteDeployment(j)
        \/ InPage /\ PreviewReady(j)
        \/ InPage /\ PreviewDies(j)
        \/ InPage /\ AskUpgrades(j)
        \/ InPage /\ SelectionExpires(j)
        \/ \E verdict \in {"deployed", "failed"} : InPage /\ PipelineComplete(j, verdict)
    \/ \E p \in modal.offered : InPage /\ Toggle(p)
    \/ InPage /\ PressApply
    \/ InPage /\ PressSkip
    \/ InPage /\ AtZero
    \/ InPage /\ Second
    \/ InPage /\ Reconnect
    \/ \E c \in calls :
        \/ InPage /\ BuildAnswered(c)
        \/ InPage /\ ListAnswered(c)
        \/ InPage /\ PreviewAnswered(c)
        \/ InPage /\ AcceptBuild(c)
        \/ InPage /\ ServePreview(c)
    \/ \E m \in sent : InPage /\ TakeMessage(m)

MCSpec == MCInit /\ [][MCNext]_<<vars, pageVars>> /\ Fairness
=============================================================================
