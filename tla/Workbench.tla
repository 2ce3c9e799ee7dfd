------------------------------ MODULE Workbench ------------------------------
(***************************************************************************)
(* The file editor of Web/frontend/src/pages/Agent.jsx, in its ordinary    *)
(* layout and as the Full IDE, with the handlers of devops.controller.js   *)
(* that read and write the files of a deployment's workspace.              *)
(*                                                                         *)
(* A handler of the page works on the state of the render it was made in:  *)
(* a request keeps what it took from there, the shortcuts keep the render  *)
(* of the last effect, the blur handler the render that mounted the        *)
(* editor.  A text is a number: 0 is the empty one, Secrets those in which *)
(* the scanner finds a credential.  The tabs of collections are DbConsole's*)
(* and the layout does not change in a behaviour.                          *)
(***************************************************************************)
EXTENDS Naturals, FiniteSets, Sequences, SequencesExt

CONSTANTS
    Deps,         \* deployments
    Files,        \* paths of a workspace
    Markdown,     \* the paths that end in .md
    Secrets,      \* texts in which a credential is found
    Calls,        \* requests that may be in flight together
    First,        \* the deployment that fetchDeployments selects
    Uploads,      \* what the workspaces may hold at first
    MaxCalls,     \* bound: requests in a behaviour
    MaxClicks,    \* bound: what the user does without a request
    MaxText       \* bound: texts, the edits number the later ones

ASSUME CallsAreNumbered == Calls \subseteq Nat \ {0}
ASSUME EmptyIsClean == 0 \notin Secrets
ASSUME EditorHasTexts == MaxText \in Nat
ASSUME UploadsAreWorkspaces == First \in Deps /\ Uploads \subseteq [Deps -> [Files -> Nat]]

VARIABLES
    disk,     \* text of each path of each workspace
    sel,      \* selectedId
    tree,     \* paths of filesTree
    due,      \* deployments whose tree has been asked for
    file,     \* activeFile
    buf,      \* fileContent
    center,   \* centerTab
    tabs,     \* openTabs
    tab,      \* activeTabPath
    right,    \* rightActiveTabPath, Nothing unless the view is split
    saving,   \* isSavingFile
    keys,     \* the render the shortcuts work on
    mounted,  \* the render the blur handler works on
    ide,      \* ideMode, there with autoSaveEnabled
    call,     \* the requests
    begun,    \* requests so far
    clicks,   \* what the user has done without a request
    texts     \* texts so far

panel == <<sel, tree, due, file, buf, center>>
strip == <<tabs, tab, right>>
editorVars == <<disk, panel, strip, saving, keys, mounted, ide, call, begun, clicks, texts>>

Nothing == "none"
NoFile  == MaxText + 1

Unmounted == [dep |-> Nothing, file |-> Nothing, text |-> 0]
NoCall == [pc |-> "idle", dep |-> Nothing, file |-> Nothing, to |-> Nothing, at |-> Nothing,
           text |-> NoFile, key |-> FALSE, touched |-> FALSE]

EditorInit ==
    /\ sel = First /\ disk \in Uploads
    /\ tree = {} /\ due = {sel}
    /\ file = Nothing /\ buf = 0 /\ center = "editor"
    /\ tabs = <<>> /\ tab = Nothing /\ right = Nothing
    /\ saving = FALSE /\ mounted = Unmounted
    /\ keys = [dep |-> sel, file |-> Nothing, text |-> 0]
    /\ ide \in BOOLEAN
    /\ call = [s \in Calls |-> NoCall] /\ begun = 0 /\ clicks = 0 /\ texts = 2

\* After a render: the effect of the shortcuts runs again when one of its three
\* dependencies has changed, the editor's handlers are those of its first render.
View   == [dep |-> sel, file |-> file, text |-> buf]
Edited == tab # Nothing /\ tab \notin Markdown
Render(rerun) ==
    /\ keys' = IF rerun \/ center' # center \/ file' # file THEN View' ELSE keys
    /\ mounted' = IF ~(ide /\ Edited') THEN Unmounted
                  ELSE IF mounted = Unmounted THEN View' ELSE mounted

-----------------------------------------------------------------------------
(***************************************************************************)
(* Requests.  Their numbers are alike: the first free one is taken.        *)
(***************************************************************************)
IsFree(s) == call[s] = NoCall /\ \A t \in Calls : t < s => call[t] # NoCall

Call(pc, d, f, g, text, key) ==
    [pc |-> pc, dep |-> d, file |-> f, to |-> g, at |-> file,
     text |-> text, key |-> key, touched |-> FALSE]
Begin(s, new) ==
    /\ IsFree(s) /\ begun < MaxCalls
    /\ begun' = begun + 1
    /\ call' = [call EXCEPT ![s] = new]

\* The file tree, the palette and the menu offer the paths of the tree.
Listed(f)   == f \in tree
Ask(s, pc, f) == Begin(s, Call(pc, sel, f, Nothing, NoFile, FALSE))
Quiet == UNCHANGED <<disk, panel, strip, saving, keys, mounted, ide, clicks, texts>>

HandleSelectFile(s, f)     == Listed(f) /\ Ask(s, "select", f) /\ Quiet
HandleContextPreview(s, f) == Listed(f) /\ f \in Markdown /\ Ask(s, "preview", f) /\ Quiet
HandleDeleteFile(s, f)     == Listed(f) /\ Ask(s, "delete", f) /\ Quiet
HandleRenameFile(s, f, g)  ==
    /\ ~ide /\ Listed(f) /\ g # f
    /\ Begin(s, Call("read", sel, f, g, NoFile, FALSE))
    /\ Quiet

Saves(s, v, key) ==
    /\ v.file # Nothing
    /\ Begin(s, Call("save", v.dep, v.file, Nothing, v.text, key))
    /\ saving' = TRUE
    /\ UNCHANGED <<disk, panel, strip, keys, mounted, ide, clicks, texts>>

SaveButton(s) == ~ide /\ ~saving /\ Saves(s, View, FALSE)
ShortcutSave(s) == Saves(s, keys, TRUE)
BlurSave(s) == Saves(s, mounted, FALSE)

NewFileButton(s, f) == Ask(s, "create", f) /\ Quiet
ShortcutNew(s, f) == Begin(s, Call("create", keys.dep, f, Nothing, NoFile, FALSE)) /\ Quiet

-----------------------------------------------------------------------------
(***************************************************************************)
(* What the server does and what the page makes of its answer.             *)
(***************************************************************************)
Holds(s)  == disk[call[s].dep][call[s].file]
Exists(s) == Holds(s) # NoFile
\* The scanner looks into source files only.
Refused(f, text) == text \in Secrets /\ f \notin Markdown

\* Whoever else is renaming one of the two paths has been disturbed.
Touch(s, d, f) ==
    [t \in Calls |-> IF t # s /\ call[t].dep = d /\ f \in {call[t].file, call[t].to}
                     THEN [call[t] EXCEPT !.touched = TRUE] ELSE call[t]]

SaveWorkspaceFile(s, f, text, next) ==
    /\ ~Refused(f, text)
    /\ disk' = [disk EXCEPT ![call[s].dep][f] = text]
    /\ call' = [Touch(s, call[s].dep, f) EXCEPT ![s] = next]

Fails(s) ==
    /\ call' = [call EXCEPT ![s] = NoCall]
    /\ UNCHANGED <<disk, panel, strip, keys, mounted>>

FetchTree(d) == due' = due \cup {d}
Shows(f, text, c) == file' = f /\ buf' = text /\ center' = c

\* Mutant: only the active tab is compared.
WithTabUnlessActive(f) == IF f = tab THEN tabs ELSE Append(tabs, f)
WithTab(f) == IF f \in Range(tabs) THEN tabs ELSE Append(tabs, f)

SelectAnswer(s) ==
    /\ call[s].pc = "select" /\ Exists(s)
    /\ Shows(call[s].file, Holds(s), IF call[s].file \in Markdown THEN "mdPreview" ELSE "editor")
    /\ tabs' = WithTab(call[s].file) /\ tab' = call[s].file
    /\ call' = [call EXCEPT ![s] = NoCall]
    /\ UNCHANGED <<disk, sel, tree, due, right, saving>>
    /\ Render(FALSE)

PreviewAnswer(s) ==
    /\ call[s].pc = "preview" /\ Exists(s)
    /\ Shows(call[s].file, Holds(s), "mdPreview")
    /\ call' = [call EXCEPT ![s] = NoCall]
    /\ UNCHANGED <<disk, sel, tree, due, strip, saving>>
    /\ Render(FALSE)

NotFound(s) ==
    /\ call[s].pc \in {"select", "preview", "read", "show"} /\ ~Exists(s)
    /\ Fails(s) /\ UNCHANGED saving

\* Mutant: a refused save leaves the flag up.
SaveAnswerUncaught(s) ==
    /\ call[s].pc = "save"
    /\ \/ /\ SaveWorkspaceFile(s, call[s].file, call[s].text, NoCall)
          /\ saving' = FALSE /\ UNCHANGED <<panel, strip, keys, mounted>>
       \/ Refused(call[s].file, call[s].text) /\ Fails(s) /\ UNCHANGED saving
SaveAnswer(s) ==
    /\ call[s].pc = "save"
    /\ saving' = FALSE
    /\ \/ SaveWorkspaceFile(s, call[s].file, call[s].text, NoCall) /\ UNCHANGED <<panel, strip, keys, mounted>>
       \/ Refused(call[s].file, call[s].text) /\ Fails(s)

CreateAnswer(s) ==
    /\ call[s].pc = "create"
    /\ SaveWorkspaceFile(s, call[s].file, 0, [call[s] EXCEPT !.pc = "show"])
    /\ FetchTree(call[s].dep)
    /\ UNCHANGED <<sel, tree, file, buf, center, strip, saving, keys, mounted>>

\* The file that was created is read back and shown, without a tab.
ShowAnswer(s) ==
    /\ call[s].pc = "show" /\ Exists(s)
    /\ Shows(call[s].file, Holds(s), "editor")
    /\ call' = [call EXCEPT ![s] = NoCall]
    /\ UNCHANGED <<disk, sel, tree, due, strip, saving>>
    /\ Render(FALSE)

\* null is written as the empty text.
DeleteAnswer(s) ==
    /\ call[s].pc = "delete"
    /\ SaveWorkspaceFile(s, call[s].file, 0, NoCall)
    /\ FetchTree(call[s].dep)
    /\ IF call[s].at = call[s].file THEN file' = Nothing /\ buf' = 0 ELSE UNCHANGED <<file, buf>>
    /\ UNCHANGED <<sel, tree, center, strip, saving>>
    /\ Render(FALSE)

Rewrites(c, text) ==
    [pc |-> "write", dep |-> c.dep, file |-> c.file, to |-> c.to, at |-> c.at,
     text |-> text, key |-> c.key, touched |-> c.touched]
RenameReads(s) ==
    /\ call[s].pc = "read" /\ Exists(s)
    /\ call' = [call EXCEPT ![s] = Rewrites(call[s], Holds(s))]
    /\ UNCHANGED <<disk, panel, strip, saving, keys, mounted>>

\* Mutant: a refused write does not end the rename.
RenameErasesAnyway(s) ==
    /\ call[s].pc = "write"
    /\ \/ /\ SaveWorkspaceFile(s, call[s].to, call[s].text, [call[s] EXCEPT !.pc = "erase"])
          /\ UNCHANGED <<panel, strip, keys, mounted>>
       \/ /\ Refused(call[s].to, call[s].text)
          /\ call' = [call EXCEPT ![s].pc = "erase"]
          /\ UNCHANGED <<disk, panel, strip, keys, mounted>>
    /\ UNCHANGED saving
\* The text goes under the new name first; a refusal ends the rename.
RenameWrites(s) ==
    /\ call[s].pc = "write"
    /\ \/ /\ SaveWorkspaceFile(s, call[s].to, call[s].text, [call[s] EXCEPT !.pc = "erase"])
          /\ UNCHANGED <<panel, strip, keys, mounted>>
       \/ Refused(call[s].to, call[s].text) /\ Fails(s)
    /\ UNCHANGED saving

RenameErases(s) ==
    /\ call[s].pc = "erase"
    /\ SaveWorkspaceFile(s, call[s].file, 0, NoCall)
    /\ FetchTree(call[s].dep)
    /\ file' = IF call[s].at = call[s].file THEN call[s].to ELSE file
    /\ UNCHANGED <<sel, tree, buf, center, strip, saving>>
    /\ Render(FALSE)

GetWorkspaceFiles(d) ==
    /\ d \in due /\ due' = due \ {d}
    /\ tree' = {f \in Files : disk[d][f] # NoFile}
    /\ UNCHANGED <<disk, sel, file, buf, center, strip, saving, ide, call, begun, clicks, texts>>
    /\ Render(TRUE)

-----------------------------------------------------------------------------
(***************************************************************************)
(* What the page does at once.                                             *)
(***************************************************************************)
Here  == UNCHANGED <<disk, saving, ide, call, begun>>
Click == clicks < MaxClicks /\ clicks' = clicks + 1 /\ UNCHANGED texts /\ Here

\* Another deployment: the effect clears the editor and asks for the tree.
SelectDeployment(d) ==
    /\ d # sel /\ sel' = d /\ FetchTree(d)
    /\ file' = Nothing /\ buf' = 0
    /\ UNCHANGED <<tree, center, strip>> /\ Click
    /\ Render(FALSE)

Edit ==
    /\ texts < MaxText /\ file # Nothing
    /\ IF ide THEN Edited ELSE center = "editor"
    /\ texts' = texts + 1 /\ buf' = texts + 1
    /\ UNCHANGED <<sel, tree, due, file, center, strip, clicks>> /\ Here
    /\ Render(FALSE)

ShortcutClose ==
    /\ file # Nothing
    /\ file' = Nothing /\ buf' = 0 /\ center' = "editor"
    /\ UNCHANGED <<sel, tree, due, strip>> /\ Click
    /\ Render(FALSE)

ShowCenter(c) ==
    /\ ~ide /\ c # center /\ (c = "mdPreview" => file \in Markdown)
    /\ center' = c
    /\ UNCHANGED <<sel, tree, due, file, buf, strip>> /\ Click
    /\ Render(FALSE)

ClickTab(s, i) ==
    /\ ide /\ i \in DOMAIN tabs
    /\ Ask(s, "select", tabs[i])
    /\ tab' = tabs[i]
    /\ UNCHANGED <<disk, panel, tabs, right, saving, ide, clicks, texts>>
    /\ Render(FALSE)

\* The tab on the left of the closed one becomes the active one.
Without(i) == [j \in 1..(Len(tabs) - 1) |-> tabs[IF j < i THEN j ELSE j + 1]]
HandleCloseTab(s, i) ==
    /\ ide /\ i \in DOMAIN tabs
    /\ tabs' = Without(i)
    /\ IF tab = tabs[i] /\ tabs' # <<>>
       THEN LET next == tabs'[IF i > 1 THEN i - 1 ELSE 1]
            IN  tab' = next /\ Ask(s, "select", next) /\ UNCHANGED <<disk, saving, ide, clicks, texts>>
       ELSE tab' = (IF tab = tabs[i] THEN Nothing ELSE tab) /\ Click
    /\ UNCHANGED <<panel, right>>
    /\ Render(FALSE)

HandleCloseOthers(i, pane) ==
    /\ ide /\ i \in DOMAIN tabs
    /\ tabs' = <<tabs[i]>>
    /\ IF pane = "left" THEN tab' = tabs[i] /\ UNCHANGED right
       ELSE right # Nothing /\ right' = tabs[i] /\ UNCHANGED tab
    /\ UNCHANGED panel /\ Click
    /\ Render(FALSE)

HandleCloseToRight(i, pane) ==
    /\ ide /\ i \in DOMAIN tabs
    /\ tabs' = SubSeq(tabs, 1, i)
    /\ IF pane = "left"
       THEN tab' = (IF tab \in Range(tabs') THEN tab ELSE tabs[i]) /\ UNCHANGED right
       ELSE right # Nothing /\ right' = (IF right \in Range(tabs') THEN right ELSE tabs[i]) /\ UNCHANGED tab
    /\ UNCHANGED panel /\ Click
    /\ Render(FALSE)

HandleCloseAll ==
    /\ ide /\ tabs # <<>>
    /\ tabs' = <<>> /\ tab' = Nothing /\ right' = Nothing
    /\ UNCHANGED panel /\ Click
    /\ Render(FALSE)

HandleSplitRight(i) ==
    /\ ide /\ i \in DOMAIN tabs /\ right # tabs[i]
    /\ right' = tabs[i]
    /\ UNCHANGED <<panel, tabs, tab>> /\ Click
    /\ Render(FALSE)

-----------------------------------------------------------------------------
Answer(s) ==
    /\ \/ SelectAnswer(s) \/ PreviewAnswer(s) \/ NotFound(s) \/ SaveAnswer(s)
       \/ CreateAnswer(s) \/ ShowAnswer(s) \/ DeleteAnswer(s)
       \/ RenameReads(s) \/ RenameWrites(s) \/ RenameErases(s)
    /\ UNCHANGED <<ide, begun, clicks, texts>>

EditorNext ==
    \/ \E s \in Calls : Answer(s)
    \/ \E s \in Calls : SaveButton(s) \/ ShortcutSave(s) \/ BlurSave(s)
    \/ \E s \in Calls, f \in Files :
          \/ HandleSelectFile(s, f) \/ HandleContextPreview(s, f) \/ HandleDeleteFile(s, f)
          \/ NewFileButton(s, f) \/ ShortcutNew(s, f)
          \/ \E g \in Files : HandleRenameFile(s, f, g)
    \/ \E d \in Deps : GetWorkspaceFiles(d) \/ SelectDeployment(d)
    \/ Edit \/ ShortcutClose \/ HandleCloseAll
    \/ \E c \in {"editor", "mdPreview"} : ShowCenter(c)
    \/ \E s \in Calls, i \in DOMAIN tabs : ClickTab(s, i) \/ HandleCloseTab(s, i)
    \/ \E i \in DOMAIN tabs, pane \in {"left", "right"} :
          HandleCloseOthers(i, pane) \/ HandleCloseToRight(i, pane)
    \/ \E i \in DOMAIN tabs : HandleSplitRight(i)

EditorSpec == EditorInit /\ [][EditorNext]_editorVars

\* The server answers every request.
EditorFairSpec == EditorSpec /\ \A s \in Calls : WF_editorVars(Answer(s))

-----------------------------------------------------------------------------
(***************************************************************************)
(* Properties.                                                             *)
(***************************************************************************)
TextsAreKept ==
    \A s \in Calls :
        call[s].pc \in {"write", "erase"} /\ ~call[s].touched /\ ~call'[s].touched
        => call[s].text \in {disk'[call[s].dep][call[s].file], disk'[call[s].dep][call[s].to]}

\* A rename that nobody disturbs keeps the text it has read under one of the two
\* names at every step, also when the new name is refused half-way.
RenameLosesNothing == [][TextsAreKept]_editorVars

\* A path has one tab, however many requests for it were in flight together.
TabsAreDistinct == \A i, j \in DOMAIN tabs : tabs[i] = tabs[j] => i = j

\* The save button comes back, also after a refused text.
SavingEnds == saving ~> ~saving

\* Ctrl+S saves the text that is in the editor (the comment of its handler and
\* the list of the shortcuts).
ShortcutSavesEdits ==
    [][\A s \in Calls : call[s] = NoCall /\ call'[s].key => call'[s].text = buf]_editorVars

\* Further statements that the runs refute: see the README.
ShortcutIsForSelected ==
    [][\A s \in Calls : call[s] = NoCall /\ call'[s] # NoCall => call'[s].dep = sel]_editorVars
ActiveTabIsOpen == tab # Nothing => tab \in Range(tabs)
RenameOverwritesNothing ==
    [][\A s \in Calls : call[s].pc = "write" /\ call'[s].pc = "erase"
          => disk[call[s].dep][call[s].to] = NoFile]_editorVars
BlurKeepsSaved ==
    [][\A s \in Calls : call[s] = NoCall /\ call'[s].pc = "save"
          => (call'[s].text < disk[call'[s].dep][call'[s].file] => call'[s].text = buf)]_editorVars
DeletedIsGone ==
    [][\A s \in Calls : call[s].pc = "delete" /\ call'[s] = NoCall
          => disk'[call[s].dep][call[s].file] = NoFile]_editorVars
=============================================================================
