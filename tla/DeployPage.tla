------------------------------ MODULE DeployPage ------------------------------
(***************************************************************************)
(* The deployment page of the frontend (pages/DevOps.jsx): one browser     *)
(* that uploads and imports builds, selects them in the history, starts,   *)
(* stops, moves and deletes their previews and answers the question about  *)
(* upgrades, while the server's events of every room it ever joined come   *)
(* in.  The server is what the page sees of it: a pipeline that may ask    *)
(* once and ends, and a preview that is up or not; modules Pipelines and   *)
(* Previews have its steps.                                                *)
(***************************************************************************)
EXTENDS Naturals

CONSTANTS
    Jobs,        \* builds
    NoBuild,     \* no build
    Upgrades,    \* the packages the audit of each build offers
    Countdown,   \* seconds the page gives its user (10)
    MaxPresses,  \* bound: requests the user makes in a behaviour
    MaxLosses    \* bound: lost connections, failed reads of the list, applications that die

ASSUME CountdownIsPositive == Countdown \in Nat \ {0}

VARIABLES
    doc,        \* status of the document of each build
    life,       \* pipeline: "none", "run", "ask" (paused), "asked", "over"
    applied,    \* packages each pipeline has upgraded
    live,       \* builds whose preview is up
    coming,     \* builds whose preview is being spawned
    rooms,      \* rooms of the page's socket
    sent,       \* messages of the socket the server has not handled
    calls,      \* requests the server has not answered, or the page not seen
    view,       \* the panel of the active build
    uploading,
    importing,
    modal,      \* the question about upgrades
    list,       \* the history table
    broken,     \* the page shows nothing but its error
    requests,
    losses

bounds == <<requests, losses>>
server == <<doc, life, applied, live, coming>>
flags  == <<uploading, importing>>
pageVars == <<server, rooms, sent, calls, view, flags, modal, list, broken, bounds>>

CallKinds == {"upload", "import", "list", "stop", "start", "port", "delete"}
NoModal == [job |-> NoBuild, offered |-> {}, ticked |-> {}, left |-> 0]
Join(j) == [kind |-> "join", job |-> j, picked |-> {}]
Choice(j, p) == [kind |-> "choice", job |-> j, picked |-> p]
Snapshot == [j \in Jobs |-> [status |-> doc[j], running |-> j \in live]]

\* The page joins the room of a build in progress when it is opened.
PageInit ==
    /\ doc \in [Jobs -> {"absent", "building", "deployed"}]
    /\ life = [j \in Jobs |-> CASE doc[j] = "building" -> "run"
                                [] doc[j] = "absent" -> "none" [] OTHER -> "over"]
    /\ applied = [j \in Jobs |-> {}]
    /\ live = {} /\ coming = {} /\ rooms = {} /\ calls = {}
    /\ LET going == {j \in Jobs : doc[j] = "building"}
           first == IF going = {} THEN NoBuild ELSE CHOOSE j \in going : TRUE
       IN /\ view = [active |-> first, running |-> FALSE,
                     status |-> IF first = NoBuild THEN "none" ELSE "building"]
          /\ sent = IF first = NoBuild THEN {} ELSE {Join(first)}
    /\ uploading = FALSE /\ importing = FALSE /\ modal = NoModal
    /\ list = Snapshot /\ broken = FALSE /\ requests = 0 /\ losses = 0

\* Bound: one request of a kind is in flight at a time.
Waiting(kind) == \E c \in calls : c.kind = kind
Asks == requests < MaxPresses /\ requests' = requests + 1
Press(kind, j) ==
    /\ Asks
    /\ ~Waiting(kind)
    /\ calls' = calls \cup {[kind |-> kind, job |-> j, step |-> "sent"]}

Lose == UNCHANGED requests /\ losses < MaxLosses /\ losses' = losses + 1

-----------------------------------------------------------------------------
(***************************************************************************)
(* What its user does.                                                     *)
(***************************************************************************)
\* Under the question, an overlay, nothing can be pressed.
Usable   == ~broken /\ modal.job = NoBuild
NewBuild == view' = [view EXCEPT !.status = "building", !.running = FALSE]

HandleUploadSubmit ==
    /\ Usable /\ ~(uploading /\ view.status = "building")
    /\ Press("upload", NoBuild) /\ NewBuild /\ uploading' = TRUE
    /\ UNCHANGED <<server, rooms, sent, importing, modal, list, broken, losses>>

HandleGithubImport ==
    /\ Usable /\ ~importing
    /\ Press("import", NoBuild) /\ NewBuild /\ importing' = TRUE
    /\ UNCHANGED <<server, rooms, sent, uploading, modal, list, broken, losses>>

HandleSelectDeployment(j) ==
    /\ Usable /\ list[j].status # "absent" /\ Asks
    /\ view' = [active |-> j, status |-> list[j].status, running |-> list[j].running]
    /\ UNCHANGED <<server, rooms, sent, calls, flags, modal, list, broken, losses>>

HandleStop(j) ==
    /\ Usable
    /\ (j = view.active /\ view.running) \/ list[j].running
    /\ Press("stop", j)
    /\ UNCHANGED <<server, rooms, sent, view, flags, modal, list, broken, losses>>

HandleHistoryStart(j) ==
    /\ Usable /\ list[j].status = "deployed" /\ ~list[j].running
    /\ Press("start", j)
    /\ view' = [view EXCEPT !.active = j, !.status = "deployed"]
    /\ sent' = sent \cup {Join(j)}
    /\ UNCHANGED <<server, rooms, flags, modal, list, broken, losses>>

HandleUpdatePort ==
    /\ Usable /\ view.active # NoBuild
    /\ view.running \/ view.status = "deployed"
    /\ Press("port", view.active) /\ NewBuild
    /\ UNCHANGED <<server, rooms, sent, flags, modal, list, broken, losses>>

HandleDeleteDeployment(j) ==
    /\ Usable /\ list[j].status # "absent"
    /\ Press("delete", j)
    /\ UNCHANGED <<server, rooms, sent, view, flags, modal, list, broken, losses>>

-----------------------------------------------------------------------------
(***************************************************************************)
(* The question.  At zero the page answers with all it was offered.        *)
(***************************************************************************)
Toggle(p) ==
    /\ ~broken /\ p \in modal.offered
    /\ modal' = [modal EXCEPT !.ticked = IF p \in @ THEN @ \ {p} ELSE @ \cup {p}]
    /\ UNCHANGED <<server, rooms, sent, calls, view, flags, list, broken, bounds>>

HandleApplyUpgrades(chosen) ==
    /\ modal.job # NoBuild
    /\ sent' = sent \cup {Choice(modal.job, chosen)}
    /\ modal' = NoModal
    /\ UNCHANGED <<server, rooms, calls, view, flags, list, broken, bounds>>

PressApply == ~broken /\ HandleApplyUpgrades(modal.ticked)
PressSkip  == ~broken /\ HandleApplyUpgrades({})
AtZero     == modal.left = 0 /\ HandleApplyUpgrades(modal.offered)

Second ==
    /\ modal.job # NoBuild /\ modal.left > 0
    /\ modal' = [modal EXCEPT !.left = @ - 1]
    /\ UNCHANGED <<server, rooms, sent, calls, view, flags, list, broken, bounds>>

-----------------------------------------------------------------------------
(***************************************************************************)
(* Answers.                                                                *)
(***************************************************************************)
Done(c) == calls' = calls \ {c}
AndRefresh(c) ==
    calls' = (calls \ {c}) \cup (IF Waiting("list") THEN {}
                                 ELSE {[kind |-> "list", job |-> NoBuild, step |-> "sent"]})

BuildAnswered(c) ==
    /\ c.kind \in {"upload", "import"} /\ c.step # "sent"
    /\ Done(c)
    /\ IF c.step = "done"
       THEN /\ view' = [view EXCEPT !.active = c.job]
            /\ sent' = sent \cup {Join(c.job)}
       ELSE view' = [view EXCEPT !.status = "failed"] /\ UNCHANGED sent
    /\ uploading' = (uploading /\ ~(c.kind = "upload" /\ c.step = "failed"))
    /\ importing' = (importing /\ c.kind # "import")
    /\ UNCHANGED <<server, rooms, modal, list, broken, bounds>>

ListAnswered(c) ==
    /\ c.kind = "list"
    /\ Done(c)
    /\ \/ list' = Snapshot /\ UNCHANGED <<broken, bounds>>
       \/ Lose /\ broken' = TRUE /\ UNCHANGED list
    /\ UNCHANGED <<server, rooms, sent, view, flags, modal>>

PreviewAnswered(c) ==
    /\ c.kind \in {"stop", "start", "port", "delete"} /\ c.step # "sent"
    /\ IF c.step = "done" THEN AndRefresh(c) ELSE Done(c)
    /\ view' = CASE c.kind = "stop" /\ c.step = "done" -> [view EXCEPT !.running = FALSE]
                 [] c.kind = "start" /\ c.step = "done" -> [view EXCEPT !.running = TRUE]
                 [] c.kind = "port" /\ c.step = "failed" -> [view EXCEPT !.status = "failed"]
                 [] OTHER -> view
    /\ sent' = IF c.kind = "port" /\ c.step = "done" THEN sent \cup {Join(c.job)} ELSE sent
    /\ UNCHANGED <<server, rooms, flags, modal, list, broken, bounds>>

-----------------------------------------------------------------------------
(***************************************************************************)
(* The server.  An event reaches the page in the step that emits it, if    *)
(* the page is in the room, and is about its build, not the active one.    *)
(***************************************************************************)
Seen(c, c2) == calls' = (calls \ {c}) \cup {c2}

AcceptBuild(c) ==
    /\ c.kind \in {"upload", "import"} /\ c.step = "sent"
    /\ \/ \E j \in Jobs :
            /\ life[j] = "none"
            /\ doc' = [doc EXCEPT ![j] = "building"] /\ life' = [life EXCEPT ![j] = "run"]
            /\ Seen(c, [c EXCEPT !.job = j, !.step = "done"])
       \/ Seen(c, [c EXCEPT !.step = "failed"]) /\ UNCHANGED <<doc, life>>
    /\ UNCHANGED <<applied, live, coming, rooms, sent, view, flags, modal, list, broken, bounds>>

Stopped(j) ==
    /\ live' = live \ {j}
    /\ view' = IF j \in rooms /\ j \in live THEN [view EXCEPT !.running = FALSE] ELSE view

ServePreview(c) ==
    /\ c.kind \in {"stop", "start", "port", "delete"} /\ c.step = "sent"
    /\ \/ /\ IF c.kind = "stop" THEN c.job \in live \cup coming ELSE doc[c.job] # "absent"
          /\ Seen(c, [c EXCEPT !.step = "done"])
          /\ IF c.kind = "start" THEN UNCHANGED <<live, view>> ELSE Stopped(c.job)
          /\ coming' = IF c.kind \in {"start", "port"} THEN coming \cup {c.job} ELSE coming \ {c.job}
          /\ doc' = IF c.kind = "delete" THEN [doc EXCEPT ![c.job] = "absent"] ELSE doc
       \/ Seen(c, [c EXCEPT !.step = "failed"]) /\ UNCHANGED <<live, coming, doc, view>>
    /\ UNCHANGED <<life, applied, rooms, sent, flags, modal, list, broken, bounds>>

PreviewReady(j) ==
    /\ j \in coming
    /\ coming' = coming \ {j} /\ live' = live \cup {j}
    /\ view' = IF j \in rooms THEN [view EXCEPT !.running = TRUE] ELSE view
    /\ UNCHANGED <<doc, life, applied, rooms, sent, calls, flags, modal, list, broken, bounds>>

PreviewDies(j) ==
    /\ j \in live /\ Lose
    /\ Stopped(j)
    /\ UNCHANGED <<doc, life, applied, coming, rooms, sent, calls, flags, modal, list, broken>>

\* Mutant: the ticks of a question that is open are kept.
QuestionOver(j) == [job |-> j, offered |-> Upgrades[j], left |-> Countdown,
                    ticked |-> IF modal.job = NoBuild THEN Upgrades[j] ELSE modal.ticked]
Question(j) == [job |-> j, offered |-> Upgrades[j], left |-> Countdown, ticked |-> Upgrades[j]]

AskUpgrades(j) ==
    /\ life[j] = "run"
    /\ life' = [life EXCEPT ![j] = "ask"]
    /\ modal' = IF j \in rooms THEN Question(j) ELSE modal
    /\ UNCHANGED <<doc, applied, live, coming, rooms, sent, calls, view, flags, list, broken, bounds>>

Resumed(j, packages) ==
    /\ life' = [life EXCEPT ![j] = "asked"]
    /\ applied' = [applied EXCEPT ![j] = packages]

SelectionExpires(j) ==
    /\ life[j] = "ask"
    /\ Resumed(j, Upgrades[j])
    /\ UNCHANGED <<doc, live, coming, rooms, sent, calls, view, flags, modal, list, broken, bounds>>

TakeMessage(m) ==
    /\ sent' = sent \ {m}
    /\ IF m.kind = "join" THEN rooms' = rooms \cup {m.job} ELSE UNCHANGED rooms
    /\ IF m.kind = "choice" /\ life[m.job] = "ask"
       THEN Resumed(m.job, m.picked) ELSE UNCHANGED <<life, applied>>
    /\ UNCHANGED <<doc, live, coming, calls, view, flags, modal, list, broken, bounds>>

PipelineComplete(j, verdict) ==
    /\ life[j] \in {"run", "asked"}
    /\ life' = [life EXCEPT ![j] = "over"]
    /\ doc' = [doc EXCEPT ![j] = IF @ = "absent" THEN @ ELSE verdict]
    /\ coming' = IF verdict = "deployed" THEN coming \cup {j} ELSE coming
    /\ IF j \in rooms
       THEN /\ view' = [view EXCEPT !.status = verdict] /\ uploading' = FALSE
            /\ calls' = calls \cup (IF Waiting("list") THEN {}
                                    ELSE {[kind |-> "list", job |-> NoBuild, step |-> "sent"]})
       ELSE UNCHANGED <<view, uploading, calls>>
    /\ UNCHANGED <<applied, live, rooms, sent, importing, modal, list, broken, bounds>>

\* The socket connects anew and is in no room; no handler joins them again.
Reconnect ==
    /\ rooms # {} /\ Lose
    /\ rooms' = {}
    /\ UNCHANGED <<server, sent, calls, view, flags, modal, list, broken>>

PageNext ==
    \/ HandleUploadSubmit \/ HandleGithubImport \/ HandleUpdatePort
    \/ \E j \in Jobs :
        \/ HandleSelectDeployment(j) \/ HandleStop(j) \/ HandleHistoryStart(j)
        \/ HandleDeleteDeployment(j) \/ PreviewReady(j) \/ PreviewDies(j)
        \/ AskUpgrades(j) \/ SelectionExpires(j)
        \/ \E verdict \in {"deployed", "failed"} : PipelineComplete(j, verdict)
    \/ \E p \in modal.offered : Toggle(p)
    \/ PressApply \/ PressSkip \/ AtZero \/ Second \/ Reconnect
    \/ \E c \in calls : BuildAnswered(c) \/ ListAnswered(c)
                        \/ PreviewAnswered(c) \/ AcceptBuild(c) \/ ServePreview(c)
    \/ \E m \in sent : TakeMessage(m)

\* The server answers, its pipelines end, and messages of the socket arrive.
PageFairness ==
    /\ WF_pageVars(\E c \in calls : BuildAnswered(c) \/ AcceptBuild(c))
    /\ WF_pageVars(\E m \in sent : TakeMessage(m))
    /\ \A j \in Jobs :
        /\ WF_pageVars(SelectionExpires(j))
        /\ WF_pageVars(\E verdict \in {"deployed", "failed"} : PipelineComplete(j, verdict))

PageSpec == PageInit /\ [][PageNext]_pageVars /\ PageFairness

-----------------------------------------------------------------------------
(***************************************************************************)
(* A pipeline only upgrades packages its own audit has offered, though one *)
(* window asks for every build and a new question may replace another one  *)
(* while its user is ticking and its countdown runs.                       *)
(***************************************************************************)
SelectionIsOffered ==
    /\ \A m \in sent : m.picked \subseteq Upgrades[m.job]
    /\ \A j \in Jobs : applied[j] \subseteq Upgrades[j]

\* The upload button comes back: every upload is seen to end.
UploadingEnds == uploading ~> ~uploading

\* The status shown is that of the build shown, once its list is up to date.
StatusIsOfTheActive ==
    view.active # NoBuild /\ view.status = "deployed" => doc[view.active] \in {"deployed", "absent"}

\* A page that worked goes on working.
PageStays == ~broken
=============================================================================
