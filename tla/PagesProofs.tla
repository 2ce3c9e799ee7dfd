----------------------------- MODULE PagesProofs -----------------------------
(***************************************************************************)
(* The safety properties of three pages of the frontend with the handlers  *)
(* behind them: the database console (DbConsole) for every engine and set  *)
(* of collections, the file editor (Workbench) for every workspace, and    *)
(* the deployment page (DeployPage) for every set of builds.  Each part    *)
(* has its inductive invariant, the lemmas that say how a group of steps   *)
(* keeps it, and the theorems.                                             *)
(***************************************************************************)
EXTENDS DbConsole, Workbench, DeployPage, SequenceTheorems, TLAPS

(***************************************************************************)
(* The console: its types, and those of the requests in flight.            *)
(***************************************************************************)
Contents == [Keys -> Row \cup {NoRow}]
Requests ==
    [kind : Kinds, coll : Collections, key : Keys \cup {0}, row : Row \cup {NoRow},
     tab : BOOLEAN, no : Nat, stage : {"inspect", "validate", "write", "run", "answer"},
     ok : BOOLEAN, rows : Contents]
Forms ==
    {Shut} \cup [kind : {"insert"}, columns : BOOLEAN]
           \cup [kind : {"edit"}, key : Keys, shown : Row]

ConsoleTyped ==
    /\ engine \in Engines /\ up \in BOOLEAN
    /\ table \in [Collections -> Contents]
    /\ rtype \in [Collections -> {None, "hash", "list", "string"}]
    /\ active \in Collections \cup {None}
    /\ data \in [coll : Collections \cup {None}, rows : Contents]
    /\ loading \in BOOLEAN /\ shell \in BOOLEAN /\ form \in Forms
    /\ req \in [Slots -> Requests \cup {Idle}]
    /\ script \in [Kinds -> Requests \cup {Idle}]
    /\ late \subseteq Requests
    /\ count \in 0..MaxRequests

\* A client that is driven by a file has one; a late statement is a shell's.
ScriptsAreWritten ==
    /\ \A s \in Slots : req[s].stage = "run" /\ FileDriven(s) => script[req[s].kind] # Idle
    /\ \A s \in Slots : req[s].stage = "write" => FileDriven(s)
    /\ \A k \in Kinds : script[k] # Idle => script[k].kind = k
    /\ \A t \in late : t.kind = "shell"
\* A dialog, and rows, are of a collection that was selected.
RowsAreSelected ==
    /\ form # Shut => active # None
    /\ \A s \in Slots : req[s].kind = "read" => active # None
    /\ data.coll # None => active # None
    /\ data.coll = None => data.rows = Empty

\* What the server has answered is masked before it is taken.
AnswersAreMasked ==
    engine \notin Plain =>
        /\ \A s \in Slots, k \in Keys : req[s].rows[k].email \notin Masked
        /\ \A k \in Keys : data.rows[k].email \notin Masked

\* Inserts have numbers of their own; none that was refused is in a file or
\* about to run, and none that may still be refused has run.
Unstarted(s) ==
    /\ req[s].kind = "insert" /\ req[s].stage # "answer"
    /\ ~(req[s].stage = "run" /\ FileDriven(s))
InsertsAreCounted ==
    /\ \A s \in Slots : req[s].no <= count
    /\ \A s \in Slots : req[s].kind = "insert" => req[s].no > 0
    /\ \A s, t \in Slots : req[s].no = req[t].no /\ req[s].no > 0 => s = t
    /\ refused \cup ran \subseteq 1..count
    /\ \A k \in Kinds : script[k].no <= count
    /\ script["insert"].no \notin refused
    /\ script["insert"] # Idle => script["insert"].no > 0
    /\ \A s \in Slots : req[s].kind = "insert" /\ req[s].stage # "answer" => req[s].no \notin refused
    /\ \A s \in Slots : Unstarted(s) => req[s].no \notin ran /\ req[s].no # script["insert"].no

ConsoleInv ==
    ConsoleTyped /\ ScriptsAreWritten /\ RowsAreSelected /\ AnswersAreMasked
        /\ InsertsAreCounted /\ RefusedIsNotStored /\ LoadingHasReader

-----------------------------------------------------------------------------
(***************************************************************************)
(* The steps of the console.                                               *)
(***************************************************************************)
LEMMA RowsAreContents ==
    /\ Empty \in Contents /\ Idle \notin Requests
    /\ \A t \in Requests : t.kind \in Kinds /\ t.kind # "none" /\ t.no \in Nat
    /\ Idle.kind = "none" /\ Idle.stage = "none" /\ Idle.no = 0
    /\ Idle.coll = None /\ Idle.rows = Empty
    /\ \A k \in Keys : Empty[k].email \notin Masked
  BY DEF Contents, Requests, Empty, Row, NoRow, None, Idle, Request, Kinds, Masked

\* The engine of a console never changes, nor does what is masked for it.
LEMMA MaskedKept ==
    ASSUME engine' = engine PROVE Masked' = Masked
  BY DEF Masked

LEMMA ConsoleInitial == ConsoleInit => ConsoleInv
<1> SUFFICES ASSUME ConsoleInit PROVE ConsoleInv
  OBVIOUS
<1>1. ConsoleTyped
  <2>1. table \in [Collections -> Contents] /\ active \in Collections \cup {None}
        /\ engine \in Engines
    BY DEF ConsoleInit, Contents, Empty, Row, NoRow, Email, Age, None, Personal
  <2>2. data \in [coll : Collections \cup {None}, rows : Contents]
    BY RowsAreContents DEF ConsoleInit
  <2>3. rtype \in [Collections -> {None, "hash", "list", "string"}]
    BY DEF ConsoleInit
  <2>4. form \in Forms
    BY DEF ConsoleInit, Forms
  <2>5. req \in [Slots -> Requests \cup {Idle}] /\ script \in [Kinds -> Requests \cup {Idle}]
    BY DEF ConsoleInit
  <2>6. up \in BOOLEAN /\ loading \in BOOLEAN /\ shell \in BOOLEAN
    BY DEF ConsoleInit
  <2>7. late \subseteq Requests
    BY DEF ConsoleInit
  <2>8. count \in 0..MaxRequests
    <3>1. count = 0
      BY DEF ConsoleInit
    <3> QED
      BY <3>1, ConsoleIsBounded
  <2> QED
    BY <2>1, <2>2, <2>3, <2>4, <2>5, <2>6, <2>7, <2>8 DEF ConsoleTyped
<1>a. /\ \A s \in Slots : req[s] = Idle
      /\ \A k \in Kinds : script[k] = Idle
      /\ "insert" \in Kinds
  BY DEF ConsoleInit, Kinds
<1>b. /\ late = {} /\ form = Shut /\ refused = {} /\ ran = {} /\ count = 0
      /\ data.coll = None /\ data.rows = Empty
  BY DEF ConsoleInit
<1>2. ScriptsAreWritten /\ RowsAreSelected /\ AnswersAreMasked
  <2>1. ScriptsAreWritten
    BY <1>a, <1>b, RowsAreContents DEF ScriptsAreWritten
  <2>2. RowsAreSelected
    BY <1>a, <1>b, RowsAreContents DEF RowsAreSelected
  <2>3. AnswersAreMasked
    BY <1>a, <1>b, RowsAreContents DEF AnswersAreMasked
  <2> QED
    BY <2>1, <2>2, <2>3
<1>3. InsertsAreCounted
  BY <1>a, <1>b, RowsAreContents DEF InsertsAreCounted, Unstarted
<1>4. RefusedIsNotStored /\ LoadingHasReader
  BY DEF ConsoleInit, RefusedIsNotStored, LoadingHasReader
<1> QED
  BY <1>1, <1>2, <1>3, <1>4 DEF ConsoleInv

\* A request of the user.
LEMMA SendKeeps ==
    ASSUME ConsoleInv, NEW s \in Slots, NEW kind \in Kinds, NEW c \in Collections,
           NEW k \in Keys \cup {0}, NEW row \in Row \cup {NoRow}, NEW own \in BOOLEAN,
           Send(s, kind, c, k, row, own),
           UNCHANGED <<engine, up, base, data, form, script, past>>,
           \/ kind = "read" /\ active' = c /\ loading' = TRUE /\ shell' = shell
           \/ kind # "read" /\ UNCHANGED <<active, loading>> /\ shell' \in BOOLEAN
    PROVE  ConsoleInv'
<1> DEFINE v == Request(kind, c, k, row, own, count + 1, "inspect")
<1>1. /\ v \in Requests /\ v.no = count + 1 /\ v.stage = "inspect" /\ v.rows = Empty /\ v.kind = kind
      /\ req' = [req EXCEPT ![s] = v] /\ req[s] = Idle /\ count' = count + 1
  BY RowsAreContents DEF Send, Request, Requests, ConsoleInv, ConsoleTyped
<1> HIDE DEF v
<1>2. ConsoleTyped'
  <2>1. req' \in [Slots -> Requests \cup {Idle}] /\ count' \in 0..MaxRequests
    BY <1>1, ConsoleIsBounded DEF ConsoleInv, ConsoleTyped, Send
  <2>2. active' \in Collections \cup {None} /\ loading' \in BOOLEAN /\ shell' \in BOOLEAN
    BY DEF ConsoleInv, ConsoleTyped
  <2> QED
    BY <2>1, <2>2 DEF ConsoleInv, ConsoleTyped, base, past
<1>3. ScriptsAreWritten'
  BY <1>1, RowsAreContents DEF ConsoleInv, ConsoleTyped, ScriptsAreWritten, FileDriven, base, past
<1>4. RowsAreSelected'
  BY <1>1, NamesOfCollections DEF ConsoleInv, ConsoleTyped, RowsAreSelected, None
<1>5. AnswersAreMasked'
  BY <1>1, RowsAreContents, MaskedKept DEF ConsoleInv, ConsoleTyped, AnswersAreMasked
<1>6. InsertsAreCounted'
  <2>1. count \in Nat /\ \A t \in Slots : req[t].no \in Nat /\ req'[t] = IF t = s THEN v ELSE req[t]
    BY <1>1, ConsoleIsBounded, RowsAreContents DEF ConsoleInv, ConsoleTyped, Requests
  <2>2. \A l \in Kinds : script[l].no \in Nat
    BY RowsAreContents DEF ConsoleInv, ConsoleTyped, Requests
  <2>3. \A t \in Slots : Unstarted(t)' => t = s \/ Unstarted(t)
    BY <2>1 DEF Unstarted, FileDriven
  <2>4. "insert" \in Kinds
    BY DEF Kinds
  <2> QED
    BY <1>1, <2>1, <2>2, <2>3, <2>4 DEF ConsoleInv, InsertsAreCounted, past
<1>7. RefusedIsNotStored' /\ LoadingHasReader'
  BY <1>1, RowsAreContents DEF ConsoleInv, ConsoleTyped, RefusedIsNotStored, LoadingHasReader, past
<1> QED
  BY <1>2, <1>3, <1>4, <1>5, <1>6, <1>7 DEF ConsoleInv

\* A dialog that opens or shuts.
LEMMA DialogKeeps ==
    ASSUME ConsoleInv, form' \in Forms, form' # Shut => active # None,
           UNCHANGED <<engine, up, base, active, data, loading, shell, req, script, past, count>>
    PROVE  ConsoleInv'
<1>1. ConsoleTyped'
  BY DEF ConsoleInv, ConsoleTyped, base, past
<1>2. ScriptsAreWritten'
  BY DEF ConsoleInv, ScriptsAreWritten, FileDriven, past
<1>3. RowsAreSelected'
  BY DEF ConsoleInv, RowsAreSelected
<1>4. AnswersAreMasked'
  BY MaskedKept DEF ConsoleInv, AnswersAreMasked
<1>5. InsertsAreCounted'
  BY DEF ConsoleInv, InsertsAreCounted, Unstarted, FileDriven, past
<1>6. RefusedIsNotStored' /\ LoadingHasReader'
  BY DEF ConsoleInv, RefusedIsNotStored, LoadingHasReader, past
<1> QED
  BY <1>1, <1>2, <1>3, <1>4, <1>5, <1>6 DEF ConsoleInv

\* A request that goes on; a write of its statement is the last step before it runs.
LEMMA StageKeeps ==
    ASSUME ConsoleInv, NEW s \in Slots, NEW g \in {"validate", "write", "run"}, Stage(s, g),
           req[s].stage \in {"inspect", "validate", "write"},
           UNCHANGED <<engine, up, base, tableView, past, count>>,
           \/ UNCHANGED script /\ (g = "write" => FileDriven(s)) /\ (g = "run" => ~FileDriven(s))
           \/ Written(s) /\ g = "run" /\ FileDriven(s)
    PROVE  ConsoleInv'
<1>1. /\ req[s] \in Requests
      /\ \A t \in Slots : t # s => req'[t] = req[t]
      /\ req' \in [Slots -> Requests \cup {Idle}]
      /\ req'[s] = [req[s] EXCEPT !.stage = g]
  BY RowsAreContents DEF ConsoleInv, ConsoleTyped, Stage, Requests
<1>2. /\ req'[s].kind = req[s].kind /\ req'[s].no = req[s].no /\ req'[s].rows = req[s].rows
      /\ req'[s].stage = g /\ req[s].kind \in Kinds /\ req[s].stage # "answer"
  BY <1>1 DEF Requests
<1>r. \A t \in Slots : req'[t].no = req[t].no /\ req'[t].kind = req[t].kind /\ req'[t].rows = req[t].rows
  <2> TAKE t \in Slots
  <2>1. CASE t = s
    BY <2>1, <1>2
  <2>2. CASE t # s
    BY <2>2, <1>1
  <2> QED
    BY <2>1, <2>2
<1>3. script' = script \/ script' = [script EXCEPT ![req[s].kind] = req[s]]
  BY DEF Written
<1>4. \A t \in Slots : FileDriven(t)' = FileDriven(t)
  BY <1>1, <1>2 DEF FileDriven
<1>5. ConsoleTyped'
  BY <1>1, <1>2, <1>3 DEF ConsoleInv, ConsoleTyped, base, past, tableView
<1>6. ScriptsAreWritten'
  <2>1. \A t \in late' : t.kind = "shell"
    BY DEF ConsoleInv, ScriptsAreWritten, past
  <2>2. \A k \in Kinds : script'[k] # Idle => script'[k].kind = k
    BY <1>1, <1>2, <1>3 DEF ConsoleInv, ConsoleTyped, ScriptsAreWritten
  <2>3. \A k \in Kinds : script'[k] = Idle => script[k] = Idle
    BY <1>1, <1>3, RowsAreContents DEF ConsoleInv, ConsoleTyped
  <2>4. ASSUME NEW t \in Slots, req'[t].stage = "run", FileDriven(t)'
        PROVE  script'[req'[t].kind] # Idle
    <3>1. CASE t = s
      BY <3>1, <2>4, <1>1, <1>2, <1>4, RowsAreContents DEF Written, ConsoleInv, ConsoleTyped
    <3>2. CASE t # s
      <4>1. req[t].kind \in Kinds
        BY <3>2, <2>4, <1>1, RowsAreContents DEF ConsoleInv, ConsoleTyped
      <4> QED
        BY <4>1, <3>2, <2>4, <1>1, <1>4, <2>3 DEF ConsoleInv, ScriptsAreWritten
    <3> QED
      BY <3>1, <3>2
  <2>5. \A t \in Slots : req'[t].stage = "write" => FileDriven(t)'
    BY <1>1, <1>2, <1>4 DEF ConsoleInv, ScriptsAreWritten
  <2> QED
    BY <2>1, <2>2, <2>4, <2>5 DEF ScriptsAreWritten
<1>7. RowsAreSelected'
  BY <1>r DEF ConsoleInv, RowsAreSelected, tableView
<1>8. AnswersAreMasked'
  BY <1>r, MaskedKept DEF ConsoleInv, AnswersAreMasked, tableView
<1>9. InsertsAreCounted'
  <2>1. \A t \in Slots : req'[t].no = req[t].no /\ req'[t].kind = req[t].kind /\ req[t].no \in Nat
    BY <1>r, RowsAreContents DEF ConsoleInv, ConsoleTyped
  <2>2. \A t \in Slots : req'[t].stage # "answer" => req[t].stage # "answer"
    BY <1>1, <1>2
  <2>3. \A t \in Slots : Unstarted(t)' => Unstarted(t)
    BY <1>1, <1>2, <1>4 DEF Unstarted
  <2>4. CASE UNCHANGED script
    BY <2>1, <2>2, <2>3, <2>4 DEF ConsoleInv, InsertsAreCounted, past
  <2>5. CASE Written(s) /\ g = "run" /\ FileDriven(s)
    <3>1. ~Unstarted(s)'
      BY <2>5, <1>2, <1>4 DEF Unstarted
    <3>2. \A k \in Kinds : script'[k] = IF k = req[s].kind THEN req[s] ELSE script[k]
      BY <2>5 DEF Written, ConsoleInv, ConsoleTyped
    <3>3. "insert" \in Kinds
      BY DEF Kinds
    <3>4. /\ \A k \in Kinds : script'[k].no <= count
          /\ script'["insert"].no \notin refused
          /\ script'["insert"] # Idle => script'["insert"].no > 0
      BY <3>2, <3>3, <1>2 DEF ConsoleInv, InsertsAreCounted
    <3>5. ASSUME NEW t \in Slots, Unstarted(t)'
          PROVE  req[t].no \notin ran /\ req[t].no # script'["insert"].no
      BY <3>1, <3>2, <3>3, <3>5, <2>1, <2>3 DEF ConsoleInv, InsertsAreCounted, Unstarted
    <3> QED
      BY <3>4, <3>5, <2>1, <2>2 DEF ConsoleInv, InsertsAreCounted, past
  <2> QED
    BY <2>4, <2>5
<1>10. RefusedIsNotStored' /\ LoadingHasReader'
  BY <1>1, <1>2 DEF ConsoleInv, RefusedIsNotStored, LoadingHasReader, past, tableView
<1> QED
  BY <1>5, <1>6, <1>7, <1>8, <1>9, <1>10 DEF ConsoleInv

\* What the client reads: a statement of the request's own kind.
LEMMA TextIsOfTheKind ==
    ASSUME ConsoleInv, NEW s \in Slots, req[s].stage = "run"
    PROVE  Text(s) \in Requests /\ Text(s).kind = req[s].kind
<1>1. req[s] \in Requests /\ req[s].kind \in Kinds
  BY RowsAreContents DEF ConsoleInv, ConsoleTyped
<1>2. CASE FileDriven(s)
  BY <1>1, <1>2 DEF Text, ConsoleInv, ConsoleTyped, ScriptsAreWritten
<1>3. CASE ~FileDriven(s)
  BY <1>1, <1>3 DEF Text
<1> QED
  BY <1>2, <1>3

\* maskPIIData: no string of a personal column leaves in clear, and from a printed
\* table nothing personal does.
LEMMA ShownIsMasked ==
    ASSUME NEW row \in Row \cup {NoRow}
    PROVE  /\ Shown(row) \in Row \cup {NoRow}
           /\ engine \notin Plain => Shown(row).email \notin Masked
<1>1. CASE row = NoRow
  BY <1>1 DEF Shown, NoRow, None, Masked
<1>2. CASE row # NoRow
  <2>1. PICK e \in Email, a \in Age : row = [email |-> e, age |-> a]
    BY <1>2 DEF Row
  <2>2. \E f \in Email : /\ Printed(row) = [email |-> f, age |-> a]
                         /\ engine \in Texts => f # "raw"
    BY <2>1 DEF Printed, Email
  <2>3. PICK f \in Email : /\ Printed(row) = [email |-> f, age |-> a]
                           /\ engine \in Texts => f # "raw"
    BY <2>2
  <2> DEFINE p == Printed(row)
  <2>r. p = [email |-> f, age |-> a]
    BY <2>3
  <2> HIDE DEF p
  <2>4. p # NoRow /\ p \in Row
    BY <2>1, <2>3, <2>r DEF NoRow, None, Email, Row
  <2>5. MaskPIIData(p) \in Row /\ MaskPIIData(p).email \notin Masked
    <3>1. CASE f = "clear"
      <4>1. MaskPIIData(p) = [email |-> "mask", age |-> a]
        BY <2>r, <2>4, <3>1 DEF MaskPIIData
      <4> QED
        BY <4>1 DEF Masked, Row, Email
    <3>2. CASE f # "clear"
      <4>1. MaskPIIData(p) = p
        BY <2>r, <2>4, <3>2 DEF MaskPIIData
      <4> QED
        BY <4>1, <2>3, <2>r, <2>4, <3>2 DEF Masked
    <3> QED
      BY <3>1, <3>2
  <2> USE DEF p
  <2> QED
    BY <1>2, <2>4, <2>5 DEF Shown
<1> QED
  BY <1>1, <1>2

\* A statement leaves rows and types of keys.
LEMMA ExecuteTyped ==
    ASSUME ConsoleTyped, NEW t \in Requests, Execute(t)
    PROVE  /\ table' \in [Collections -> Contents]
           /\ rtype' \in [Collections -> {None, "hash", "list", "string"}]
<1>1. /\ table \in [Collections -> Contents] /\ t.row \in Row \cup {NoRow}
      /\ rtype \in [Collections -> {None, "hash", "list", "string"}]
      /\ NoRow \in Row \cup {NoRow}
  BY DEF ConsoleTyped, Requests
<1>2. \A c, k : \A r \in Row \cup {NoRow} : [table EXCEPT ![c][k] = r] \in [Collections -> Contents]
  BY <1>1 DEF Contents
<1>3. \A c : \A r \in Row \cup {NoRow} :
         [table EXCEPT ![c] = [Empty EXCEPT ![1] = r]] \in [Collections -> Contents]
  <2>1. \A r \in Row \cup {NoRow} : [Empty EXCEPT ![1] = r] \in Contents
    BY RowsAreContents DEF Contents
  <2> QED
    BY <1>1, <2>1
<1>4. \A c : \A v \in {None, "hash", "list", "string"} :
         [rtype EXCEPT ![c] = v] \in [Collections -> {None, "hash", "list", "string"}]
  BY <1>1
<1>5. \A v \in {"hash", "string"} : RedisSet(t, v) =>
        /\ table' \in [Collections -> Contents]
        /\ rtype' \in [Collections -> {None, "hash", "list", "string"}]
  BY <1>1, <1>3, <1>4 DEF RedisSet
<1>6. [table EXCEPT ![t.coll] = Empty] \in [Collections -> Contents]
  BY <1>1, RowsAreContents
<1>7. RedisRun(t) =>
        /\ table' \in [Collections -> Contents]
        /\ rtype' \in [Collections -> {None, "hash", "list", "string"}]
  <2> SUFFICES ASSUME RedisRun(t)
               PROVE  /\ table' \in [Collections -> Contents]
                      /\ rtype' \in [Collections -> {None, "hash", "list", "string"}]
    OBVIOUS
  <2>1. CASE t.kind = "insert" /\ t.row.email = "null"
    BY <2>1, <1>5 DEF RedisRun
  <2>2. CASE t.kind = "insert" /\ t.row.email # "null"
    BY <2>2, <1>1, <1>5 DEF RedisRun, base
  <2>3. CASE t.kind = "update"
    BY <2>3, <1>5 DEF RedisRun
  <2>4. CASE t.kind \notin {"insert", "update"}
    BY <2>4, <1>4, <1>6 DEF RedisRun
  <2> QED
    BY <2>1, <2>2, <2>3, <2>4
<1>8. CASE t.kind = "read"
  BY <1>8, <1>1 DEF Execute, base
<1>9. CASE t.kind # "read" /\ engine = "redis"
  BY <1>9, <1>7 DEF Execute
<1>10. CASE t.kind # "read" /\ engine # "redis"
  <2>1. CASE t.kind = "insert"
    <3>1. table' = Inserted(t) /\ rtype' = rtype
      BY <1>10, <2>1 DEF Execute
    <3>2. Inserted(t) \in [Collections -> Contents]
      BY <1>1, <1>2 DEF Inserted
    <3> QED
      BY <3>1, <3>2, <1>1
  <2>2. CASE t.kind = "update"
    <3>1. table' = Updated(t) /\ rtype' = rtype
      BY <1>10, <2>2 DEF Execute
    <3>2. Updated(t) \in [Collections -> Contents]
      BY <1>1, <1>2 DEF Updated
    <3> QED
      BY <3>1, <3>2, <1>1
  <2>3. CASE t.kind \notin {"insert", "update"}
    <3>1. table' = Deleted(t) /\ rtype' = rtype
      BY <1>10, <2>3 DEF Execute
    <3>2. Deleted(t) \in [Collections -> Contents]
      BY <1>1, <1>2 DEF Deleted
    <3> QED
      BY <3>1, <3>2, <1>1
  <2> QED
    BY <2>1, <2>2, <2>3
<1> QED
  BY <1>8, <1>9, <1>10

\* An answer of the server: refused before it ran, or run, or neither.
LEMMA AnswerKeeps ==
    ASSUME ConsoleInv, NEW s \in Slots, NEW ok \in BOOLEAN, NEW rows \in Contents,
           engine \notin Plain => \A k \in Keys : rows[k].email \notin Masked,
           req[s].stage \in {"inspect", "validate", "write", "run"},
           AnsweredWith(s, ok, rows),
           UNCHANGED <<engine, up, tableView, script, count>>,
           table' \in [Collections -> Contents],
           rtype' \in [Collections -> {None, "hash", "list", "string"}],
           \/ late' = late
           \/ late' = late \cup {Text(s)} /\ req[s].kind = "shell" /\ req[s].stage = "run",
           \/ UNCHANGED <<refused, ran>>
           \/ Refuse(s) /\ ran' = ran /\ (req[s].kind = "insert" => Unstarted(s))
           \/ /\ refused' = refused /\ req[s].stage = "run"
              /\ ran' = IF Text(s).kind = "insert" THEN ran \cup {Text(s).no} ELSE ran
    PROVE  ConsoleInv'
<1>1. /\ req[s] \in Requests /\ req[s].kind \in Kinds /\ req[s].kind # "none"
      /\ \A t \in Slots : t # s => req'[t] = req[t]
      /\ req'[s] = Reply(req[s], ok, rows)
      /\ req' = [req EXCEPT ![s] = Reply(req[s], ok, rows)]
  BY RowsAreContents DEF ConsoleInv, ConsoleTyped, AnsweredWith
<1>2. /\ Reply(req[s], ok, rows) \in Requests
      /\ req'[s].kind = req[s].kind /\ req'[s].no = req[s].no
      /\ req'[s].rows = rows /\ req'[s].stage = "answer"
  BY <1>1 DEF Reply, Requests
<1>3. \A t \in Slots : /\ req'[t].no = req[t].no /\ req'[t].kind = req[t].kind
                       /\ req'[t].stage = IF t = s THEN "answer" ELSE req[t].stage
                       /\ req[t].no \in Nat
  <2> TAKE t \in Slots
  <2>0. req[t].no \in Nat
    BY RowsAreContents DEF ConsoleInv, ConsoleTyped
  <2>1. CASE t = s
    BY <2>0, <2>1, <1>2
  <2>2. CASE t # s
    BY <2>0, <2>2, <1>1
  <2> QED
    BY <2>1, <2>2
<1>4. \A t \in Slots : FileDriven(t)' = FileDriven(t)
  BY <1>3 DEF FileDriven
<1>5. ConsoleTyped'
  <2>1. req' \in [Slots -> Requests \cup {Idle}]
    BY <1>1, <1>2 DEF ConsoleInv, ConsoleTyped
  <2>2. late' \subseteq Requests
    BY TextIsOfTheKind DEF ConsoleInv, ConsoleTyped
  <2> QED
    BY <2>1, <2>2 DEF ConsoleInv, ConsoleTyped, tableView
<1>6. ScriptsAreWritten'
  <2>1. \A t \in late' : t.kind = "shell"
    BY TextIsOfTheKind DEF ConsoleInv, ScriptsAreWritten
  <2> QED
    BY <2>1, <1>3, <1>4 DEF ConsoleInv, ScriptsAreWritten
<1>7. RowsAreSelected'
  BY <1>3 DEF ConsoleInv, RowsAreSelected, tableView
<1>8. AnswersAreMasked'
  BY <1>1, <1>2, MaskedKept DEF ConsoleInv, AnswersAreMasked, tableView
<1>9. InsertsAreCounted' /\ RefusedIsNotStored'
  <2>1. \A t \in Slots : Unstarted(t)' => Unstarted(t) /\ t # s
    BY <1>3, <1>4 DEF Unstarted
  <2>2. req[s].stage # "answer"
    OBVIOUS
  <2>3. CASE UNCHANGED <<refused, ran>>
    BY <2>1, <2>3, <1>3 DEF ConsoleInv, InsertsAreCounted, RefusedIsNotStored
  <2>4. CASE Refuse(s) /\ ran' = ran /\ (req[s].kind = "insert" => Unstarted(s))
    <3>1. CASE req[s].kind # "insert"
      BY <2>1, <2>4, <3>1, <1>3 DEF Refuse, ConsoleInv, InsertsAreCounted, RefusedIsNotStored
    <3>2. CASE req[s].kind = "insert"
      <4>1. /\ refused' = refused \cup {req[s].no} /\ ran' = ran
            /\ req[s].no > 0 /\ req[s].no <= count /\ req[s].no \notin ran
            /\ req[s].no # script["insert"].no
            /\ \A t \in Slots : t # s => req[t].no # req[s].no
        BY <2>4, <3>2 DEF Refuse, ConsoleInv, InsertsAreCounted
      <4>2. count \in Nat /\ req[s].no \in 1..count
        BY <4>1, <1>3, ConsoleIsBounded DEF ConsoleInv, ConsoleTyped
      <4> QED
        BY <4>1, <4>2, <2>1, <1>3 DEF ConsoleInv, InsertsAreCounted, RefusedIsNotStored
    <3> QED
      BY <3>1, <3>2
  <2>5. CASE /\ refused' = refused /\ req[s].stage = "run"
             /\ ran' = IF Text(s).kind = "insert" THEN ran \cup {Text(s).no} ELSE ran
    <3>1. CASE Text(s).kind # "insert"
      BY <2>1, <2>5, <3>1, <1>3 DEF ConsoleInv, InsertsAreCounted, RefusedIsNotStored
    <3>2. CASE Text(s).kind = "insert"
      <4>1. req[s].kind = "insert" /\ Text(s) \in Requests /\ Text(s).no \in Nat
        BY <2>5, <3>2, TextIsOfTheKind, RowsAreContents
      <4>2. /\ Text(s).no > 0 /\ Text(s).no <= count /\ Text(s).no \notin refused
            /\ \A t \in Slots : Unstarted(t)' => req[t].no # Text(s).no
        <5>1. CASE FileDriven(s)
          <6>1. Text(s) = script["insert"] /\ script["insert"] # Idle /\ "insert" \in Kinds
            BY <5>1, <4>1, RowsAreContents DEF Text, Kinds
          <6> QED
            BY <6>1, <2>1 DEF ConsoleInv, InsertsAreCounted
        <5>2. CASE ~FileDriven(s)
          <6>1. Text(s) = req[s]
            BY <5>2 DEF Text
          <6>2. req[s].no > 0 /\ req[s].no <= count /\ req[s].no \notin refused
            BY <4>1, <2>2 DEF ConsoleInv, InsertsAreCounted
          <6>3. \A t \in Slots : t # s => req[t].no # req[s].no
            BY <6>2 DEF ConsoleInv, InsertsAreCounted
          <6> QED
            BY <6>1, <6>2, <6>3, <2>1
        <5> QED
          BY <5>1, <5>2
      <4>3. count \in Nat /\ Text(s).no \in 1..count
        BY <4>1, <4>2, ConsoleIsBounded DEF ConsoleInv, ConsoleTyped
      <4>4. ran' = ran \cup {Text(s).no} /\ refused' = refused
        BY <2>5, <3>2
      <4> QED
        BY <4>2, <4>3, <4>4, <2>1, <1>3 DEF ConsoleInv, InsertsAreCounted, RefusedIsNotStored
    <3> QED
      BY <3>1, <3>2
  <2> QED
    BY <2>3, <2>4, <2>5
<1>10. LoadingHasReader'
  BY <1>3 DEF ConsoleInv, LoadingHasReader, tableView
<1> QED
  BY <1>5, <1>6, <1>7, <1>8, <1>9, <1>10 DEF ConsoleInv

\* A request goes when its answer has been taken, or its collection is read again.
LEMMA TakenKeeps ==
    ASSUME ConsoleInv, NEW s \in Slots, req[s].stage = "answer",
           UNCHANGED <<engine, up, base, script, past, count>>,
           \/ req' = [req EXCEPT ![s] = Idle] /\ UNCHANGED active
           \/ Reread(s),
           data' \in {data, [coll |-> req[s].coll, rows |-> req[s].rows]},
           data' # data => active # None,
           loading' \in BOOLEAN, shell' \in BOOLEAN, form' \in {form, Shut},
           loading' => Reread(s) \/ (loading /\ req[s].kind # "read")
    PROVE  ConsoleInv'
<1> DEFINE v == req'[s]
<1>1. req[s] \in Requests /\ req[s].coll \in Collections /\ req[s].rows \in Contents
  <2>1. req[s] \in Requests
    BY RowsAreContents DEF ConsoleInv, ConsoleTyped
  <2> QED
    BY <2>1 DEF Requests
<1>2. /\ req' \in [Slots -> Requests \cup {Idle}]
      /\ \A t \in Slots : t # s => req'[t] = req[t]
      /\ v.kind \in {"none", "read"} /\ v.stage \in {"none", "inspect"} /\ v.no = 0 /\ v.rows = Empty
      /\ Reread(s) <=> v.kind = "read"
  <2>1. CASE req' = [req EXCEPT ![s] = Idle] /\ ~Reread(s)
    BY <2>1, RowsAreContents DEF ConsoleInv, ConsoleTyped
  <2>2. CASE Reread(s)
    <3> DEFINE r == Request("read", req[s].coll, 0, NoRow, FALSE, 0, "inspect")
    <3>1. r \in Requests /\ r.kind = "read" /\ r.stage = "inspect" /\ r.no = 0 /\ r.rows = Empty
      BY <1>1, RowsAreContents DEF Request, Requests, Kinds
    <3>2. req' = [req EXCEPT ![s] = r]
      BY <2>2 DEF Reread
    <3> HIDE DEF r
    <3> QED
      BY <2>2, <3>1, <3>2 DEF ConsoleInv, ConsoleTyped
  <2> QED
    BY <2>1, <2>2
<1>3. active' = active \/ (active' \in Collections /\ active' # None)
  BY <1>1, NamesOfCollections DEF Reread, None
<1> HIDE DEF v
<1>4. ConsoleTyped'
  <2>1. active' \in Collections \cup {None} /\ form' \in Forms
    BY <1>3 DEF ConsoleInv, ConsoleTyped, Forms
  <2>2. data' \in [coll : Collections \cup {None}, rows : Contents]
    BY <1>1 DEF ConsoleInv, ConsoleTyped
  <2> QED
    BY <1>2, <2>1, <2>2 DEF ConsoleInv, ConsoleTyped, base, past
<1>5. ScriptsAreWritten'
  <2>1. \A t \in Slots : req'[t].stage \in {"run", "write"} => req'[t] = req[t]
    BY <1>2 DEF v
  <2>2. \A t \in Slots : req'[t] = req[t] => FileDriven(t)' = FileDriven(t)
    BY DEF FileDriven
  <2> QED
    BY <2>1, <2>2 DEF ConsoleInv, ScriptsAreWritten, past
<1>6. RowsAreSelected'
  <2>1. req[s].coll # None
    BY <1>1, NamesOfCollections DEF None
  <2>2. \A t \in Slots : req'[t].kind = "read" => active' # None
    BY <1>2, <1>3, <2>1 DEF v, ConsoleInv, RowsAreSelected, Reread
  <2> QED
    BY <1>3, <2>1, <2>2 DEF ConsoleInv, RowsAreSelected
<1>7. AnswersAreMasked'
  <2> SUFFICES ASSUME engine \notin Plain
               PROVE  /\ \A t \in Slots, k \in Keys : req'[t].rows[k].email \notin Masked'
                      /\ \A k \in Keys : data'.rows[k].email \notin Masked'
    BY DEF AnswersAreMasked
  <2>1. \A t \in Slots, k \in Keys : req'[t].rows[k].email \notin Masked'
    BY <1>2, RowsAreContents, MaskedKept DEF v, ConsoleInv, AnswersAreMasked
  <2>2. \A k \in Keys : data'.rows[k].email \notin Masked'
    BY MaskedKept DEF ConsoleInv, AnswersAreMasked
  <2> QED
    BY <2>1, <2>2
<1>8. InsertsAreCounted'
  <2>1. \A t \in Slots : t # s => req'[t] = req[t]
    BY <1>2
  <2>2. req'[s].no = 0 /\ req'[s].kind # "insert"
    BY <1>2 DEF v
  <2>3. \A t \in Slots : Unstarted(t)' => Unstarted(t) /\ t # s
    BY <2>1, <2>2 DEF Unstarted, FileDriven
  <2>4. count \in Nat
    BY ConsoleIsBounded DEF ConsoleInv, ConsoleTyped
  <2> QED
    BY <2>1, <2>2, <2>3, <2>4 DEF ConsoleInv, InsertsAreCounted, past
<1>9. RefusedIsNotStored'
  BY DEF ConsoleInv, RefusedIsNotStored, past
<1>10. LoadingHasReader'
  BY <1>2 DEF v, ConsoleInv, LoadingHasReader
<1> QED
  BY <1>4, <1>5, <1>6, <1>7, <1>8, <1>9, <1>10 DEF ConsoleInv

\* The container, the application and a late statement change what is stored.
LEMMA WorldKeeps ==
    ASSUME ConsoleInv, UNCHANGED <<engine, tableView, req, script, refused, ran, count>>,
           up' \in BOOLEAN, late' \subseteq late,
           table' \in [Collections -> Contents],
           rtype' \in [Collections -> {None, "hash", "list", "string"}]
    PROVE  ConsoleInv'
<1>1. ConsoleTyped'
  BY DEF ConsoleInv, ConsoleTyped, tableView
<1>2. ScriptsAreWritten'
  BY DEF ConsoleInv, ScriptsAreWritten, FileDriven
<1>3. RowsAreSelected' /\ AnswersAreMasked'
  BY MaskedKept DEF ConsoleInv, RowsAreSelected, AnswersAreMasked, tableView
<1>4. InsertsAreCounted' /\ RefusedIsNotStored' /\ LoadingHasReader'
  BY DEF ConsoleInv, InsertsAreCounted, Unstarted, FileDriven, RefusedIsNotStored, LoadingHasReader, tableView
<1> QED
  BY <1>1, <1>2, <1>3, <1>4 DEF ConsoleInv

LEMMA UserKeeps ==
    ASSUME ConsoleInv, NEW s \in Slots,
           \/ HandleSubmit(s) \/ HandleSaveEdit(s)
           \/ \E k \in Keys : HandleDeleteRecord(s, k)
           \/ \E c \in Collections : HandleSelectCollection(s, c)
           \/ \E c \in Collections, k \in Keys :
                 HandleRunShellQuery(s, c, k) \/ HandleTerminalCommand(s, c, k)
    PROVE  ConsoleInv'
<1>0. /\ {"read", "insert", "update", "delete", "shell"} \subseteq Kinds
      /\ NoRow \in Row \cup {NoRow} /\ 0 \in Keys \cup {0} /\ Keys \subseteq Keys \cup {0}
      /\ shell \in BOOLEAN
  BY DEF Kinds, ConsoleInv, ConsoleTyped
<1>a. active # None => active \in Collections
  BY DEF ConsoleInv, ConsoleTyped
<1>1. ASSUME NEW c \in Collections, HandleSelectCollection(s, c) PROVE ConsoleInv'
  BY <1>0, <1>1, SendKeeps DEF HandleSelectCollection
<1>2. ASSUME NEW k \in Keys, HandleDeleteRecord(s, k) PROVE ConsoleInv'
  <2>1. active # None
    BY <1>2 DEF HandleDeleteRecord, Visible, Empty, ConsoleInv, RowsAreSelected
  <2>2. /\ Send(s, "delete", active, k, NoRow, FALSE)
        /\ UNCHANGED <<engine, up, base, data, form, script, past>>
        /\ UNCHANGED <<active, loading>> /\ shell' = shell
    BY <1>2 DEF HandleDeleteRecord, tableView
  <2> QED
    BY <1>0, <1>a, <2>1, <2>2, SendKeeps
<1>3. CASE HandleSubmit(s)
  <2>1. active # None
    BY <1>3 DEF HandleSubmit, Shut, None, ConsoleInv, RowsAreSelected
  <2>2. PICK e \in {"clear", "null", "raw"}, a \in Age, l \in Keys \cup {0} :
           Send(s, "insert", active, l, [email |-> e, age |-> a], FALSE)
    BY <1>3 DEF HandleSubmit, Personal
  <2>3. [email |-> e, age |-> a] \in Row \cup {NoRow}
    BY <2>2 DEF Row, Email
  <2>4. /\ UNCHANGED <<engine, up, base, data, form, script, past>>
        /\ UNCHANGED <<active, loading>> /\ shell' = shell
    BY <1>3 DEF HandleSubmit, tableView
  <2> QED
    BY <1>0, <1>a, <2>1, <2>2, <2>3, <2>4, SendKeeps
<1>4. CASE HandleSaveEdit(s)
  <2>1. active # None
    BY <1>4 DEF HandleSaveEdit, Shut, None, ConsoleInv, RowsAreSelected
  <2>2. form \in [kind : {"edit"}, key : Keys, shown : Row]
    BY <1>4 DEF HandleSaveEdit, Shut, None, ConsoleInv, ConsoleTyped, Forms
  <2>3. PICK a \in {form.shown.age, "word"} :
           Send(s, "update", active, form.key, [form.shown EXCEPT !.age = a], FALSE)
    BY <1>4 DEF HandleSaveEdit
  <2>4. [form.shown EXCEPT !.age = a] \in Row \cup {NoRow} /\ form.key \in Keys \cup {0}
    BY <2>2, <2>3 DEF Row, Age
  <2>5. /\ UNCHANGED <<engine, up, base, data, form, script, past>>
        /\ UNCHANGED <<active, loading>> /\ shell' = shell
    BY <1>4 DEF HandleSaveEdit, tableView
  <2> QED
    BY <1>0, <1>a, <2>1, <2>3, <2>4, <2>5, SendKeeps
<1>5. ASSUME NEW c \in Collections, NEW k \in Keys, HandleRunShellQuery(s, c, k) PROVE ConsoleInv'
  <2>1. /\ Send(s, "shell", c, k, NoRow, TRUE)
        /\ UNCHANGED <<engine, up, base, data, form, script, past>>
        /\ UNCHANGED <<active, loading>> /\ shell' \in BOOLEAN
    BY <1>5 DEF HandleRunShellQuery
  <2> QED
    BY <1>0, <2>1, SendKeeps
<1>6. ASSUME NEW c \in Collections, NEW k \in Keys, HandleTerminalCommand(s, c, k) PROVE ConsoleInv'
  <2>1. /\ Send(s, "shell", c, k, NoRow, FALSE)
        /\ UNCHANGED <<engine, up, base, data, form, script, past>>
        /\ UNCHANGED <<active, loading>> /\ shell' = shell
    BY <1>6 DEF HandleTerminalCommand, tableView
  <2> QED
    BY <1>0, <2>1, SendKeeps
<1> QED
  BY <1>1, <1>2, <1>3, <1>4, <1>5, <1>6

LEMMA DialogsKeep ==
    ASSUME ConsoleInv, OpenInsert \/ Cancel \/ \E k \in Keys : HandleEditRecord(k)
    PROVE  ConsoleInv'
<1>1. CASE OpenInsert
  <2>1. form' \in Forms /\ active # None
    BY <1>1 DEF OpenInsert, Forms
  <2> QED
    BY <1>1, <2>1, DialogKeeps DEF OpenInsert
<1>2. CASE Cancel
  <2>1. form' \in Forms /\ form' = Shut
    BY <1>2 DEF Cancel, Forms
  <2> QED
    BY <1>2, <2>1, DialogKeeps DEF Cancel
<1>3. ASSUME NEW k \in Keys, HandleEditRecord(k) PROVE ConsoleInv'
  <2>1. data.rows[k] \in Row /\ active # None
    BY <1>3 DEF HandleEditRecord, Visible, Empty, ConsoleInv, ConsoleTyped, Contents, RowsAreSelected
  <2>2. form' \in Forms
    BY <1>3, <2>1 DEF HandleEditRecord, Forms
  <2> QED
    BY <1>3, <2>1, <2>2, DialogKeeps DEF HandleEditRecord
<1> QED
  BY <1>1, <1>2, <1>3

LEMMA StartKeeps ==
    ASSUME ConsoleInv, NEW s \in Slots, Start(s), req[s].stage \in {"inspect", "validate"},
           UNCHANGED <<engine, up, base, tableView, script, past, count>>
    PROVE  ConsoleInv'
  BY StageKeeps DEF Start

\* An answer with no rows.
LEMMA AnsweredKeeps ==
    ASSUME ConsoleInv, NEW s \in Slots, NEW ok \in BOOLEAN, Answered(s, ok),
           req[s].stage \in {"inspect", "validate", "write", "run"},
           UNCHANGED <<engine, up, base, tableView, script, ran, count>>,
           \/ late' = late
           \/ late' = late \cup {Text(s)} /\ req[s].kind = "shell" /\ req[s].stage = "run",
           \/ UNCHANGED refused
           \/ Refuse(s) /\ ~(req[s].stage = "run" /\ FileDriven(s))
    PROVE  ConsoleInv'
<1>1. /\ table' \in [Collections -> Contents]
      /\ rtype' \in [Collections -> {None, "hash", "list", "string"}]
  BY DEF ConsoleInv, ConsoleTyped, base
<1>2. Refuse(s) /\ ~(req[s].stage = "run" /\ FileDriven(s)) /\ req[s].kind = "insert" => Unstarted(s)
  BY DEF Unstarted
<1> QED
  BY <1>1, <1>2, AnswerKeeps, RowsAreContents DEF Answered

LEMMA ServerKeeps ==
    ASSUME ConsoleInv, NEW s \in Slots,
           \/ Inspect(s) \/ Validate(s) \/ WriteFile(s) \/ RunStatement(s)
           \/ ExecFails(s) \/ ExecTimeout(s)
    PROVE  ConsoleInv'
<1>1. CASE Inspect(s)
  <2>0. /\ req[s].stage = "inspect" /\ (req[s].kind = "read") \in BOOLEAN
        /\ UNCHANGED <<engine, up, base, tableView, script, late, ran, events, count>>
    BY <1>1 DEF Inspect
  <2>1. CASE Answered(s, req[s].kind = "read") /\ (UNCHANGED refused \/ Refuse(s))
    BY <2>0, <2>1, AnsweredKeeps
  <2>2. CASE Answered(s, FALSE) /\ Refuse(s)
    BY <2>0, <2>2, AnsweredKeeps
  <2>3. CASE Stage(s, "validate") /\ UNCHANGED refused
    BY <2>0, <2>3, StageKeeps DEF past
  <2>4. CASE Start(s) /\ UNCHANGED refused
    BY <2>0, <2>4, StartKeeps DEF past
  <2> QED
    BY <1>1, <2>1, <2>2, <2>3, <2>4 DEF Inspect
<1>2. CASE Validate(s)
  <2>0. /\ req[s].stage = "validate"
        /\ UNCHANGED <<engine, up, base, tableView, script, late, ran, events, count>>
    BY <1>2 DEF Validate
  <2>1. CASE Answered(s, FALSE) /\ Refuse(s)
    BY <2>0, <2>1, AnsweredKeeps
  <2>2. CASE Start(s) /\ UNCHANGED refused
    BY <2>0, <2>2, StartKeeps DEF past
  <2> QED
    BY <1>2, <2>1, <2>2 DEF Validate
<1>3. CASE WriteFile(s)
  <2>1. FileDriven(s)
    BY <1>3 DEF WriteFile, ConsoleInv, ScriptsAreWritten
  <2> QED
    BY <1>3, <2>1, StageKeeps DEF WriteFile
<1>4. CASE RunStatement(s)
  <2> DEFINE rows == IF req[s].kind = "read"
                     THEN [k \in Keys |-> Shown(table[Text(s).coll][k])] ELSE Empty
  <2>1. req[s].stage = "run" /\ Text(s) \in Requests /\ Text(s).kind = req[s].kind
    BY <1>4, TextIsOfTheKind DEF RunStatement
  <2>2. Text(s).coll \in Collections
    BY <2>1 DEF Requests
  <2>3. \A k \in Keys : table[Text(s).coll][k] \in Row \cup {NoRow}
    BY <2>2 DEF ConsoleInv, ConsoleTyped, Contents
  <2>4. rows \in Contents /\ (engine \notin Plain => \A k \in Keys : rows[k].email \notin Masked)
    BY <2>3, ShownIsMasked, RowsAreContents DEF Contents
  <2>5. /\ table' \in [Collections -> Contents]
        /\ rtype' \in [Collections -> {None, "hash", "list", "string"}]
    BY <1>4, <2>1, ExecuteTyped DEF RunStatement, ConsoleInv
  <2>6. /\ AnsweredWith(s, TRUE, rows)
        /\ UNCHANGED <<engine, up, tableView, script, late, refused, events, count>>
    BY <1>4 DEF RunStatement
  <2>7. ran' = IF Text(s).kind = "insert" THEN ran \cup {Text(s).no} ELSE ran
    BY <1>4 DEF RunStatement, Execute
  <2> HIDE DEF rows
  <2> QED
    BY <2>1, <2>4, <2>5, <2>6, <2>7, AnswerKeeps
<1>5. CASE ExecFails(s)
  <2>0. /\ req[s].stage \in {"write", "run"}
        /\ UNCHANGED <<engine, up, base, tableView, script, late, ran, events, count>>
    BY <1>5 DEF ExecFails
  <2>1. CASE ~(FileDriven(s) /\ req[s].stage = "run") /\ Answered(s, FALSE) /\ Refuse(s)
    BY <2>0, <2>1, AnsweredKeeps
  <2>2. CASE Answered(s, TRUE) /\ UNCHANGED refused
    BY <2>0, <2>2, AnsweredKeeps
  <2> QED
    BY <1>5, <2>1, <2>2 DEF ExecFails
<1>6. CASE ExecTimeout(s)
  <2>1. /\ req[s].stage \in {"write", "run"} /\ Answered(s, TRUE) /\ req[s].kind = "shell"
        /\ UNCHANGED <<engine, up, base, tableView, script, refused, ran, events, count>>
        /\ late' = late \/ (late' = late \cup {Text(s)} /\ req[s].stage = "run")
    BY <1>6 DEF ExecTimeout
  <2> QED
    BY <2>1, AnsweredKeeps
<1> QED
  BY <1>1, <1>2, <1>3, <1>4, <1>5, <1>6

LEMMA AnswersKeep ==
    ASSUME ConsoleInv, NEW s \in Slots, ReadAnswer(s) \/ ShellAnswer(s) \/ WriteAnswer(s)
    PROVE  ConsoleInv'
<1>0. loading \in BOOLEAN /\ shell \in BOOLEAN
  BY DEF ConsoleInv, ConsoleTyped
<1>1. CASE ReadAnswer(s)
  <2>1. /\ req[s].stage = "answer" /\ req' = [req EXCEPT ![s] = Idle]
        /\ data' \in {data, [coll |-> req[s].coll, rows |-> req[s].rows]}
        /\ loading' = FALSE
        /\ UNCHANGED <<engine, up, base, active, form, shell, script, past, count>>
    BY <1>1 DEF ReadAnswer
  <2>2. active # None
    BY <1>1 DEF ReadAnswer, ConsoleInv, RowsAreSelected
  <2> QED
    BY <1>0, <2>1, <2>2, TakenKeeps
<1>2. CASE ShellAnswer(s)
  <2>1. shell' \in BOOLEAN
    BY <1>0, <1>2 DEF ShellAnswer
  <2> QED
    BY <1>0, <1>2, <2>1, TakenKeeps DEF ShellAnswer
<1>3. CASE WriteAnswer(s)
  <2>0. /\ req[s].stage = "answer" /\ req[s].kind # "read"
        /\ UNCHANGED <<engine, up, base, data, shell, script, past, count>>
    BY <1>3 DEF WriteAnswer
  <2>1. CASE Reread(s)
    <3>1. loading' = TRUE /\ form' \in {form, Shut}
      BY <2>1 DEF Reread
    <3> QED
      BY <1>0, <2>0, <2>1, <3>1, TakenKeeps
  <2>2. CASE req' = [req EXCEPT ![s] = Idle] /\ UNCHANGED <<active, loading, form>>
    BY <1>0, <2>0, <2>2, TakenKeeps
  <2> QED
    BY <1>3, <2>1, <2>2 DEF WriteAnswer
<1> QED
  BY <1>1, <1>2, <1>3

LEMMA AroundKeeps ==
    ASSUME ConsoleInv,
           LateStatement \/ Container \/ \E c \in Collections, k \in Keys : Application(c, k)
    PROVE  ConsoleInv'
<1>0. /\ table \in [Collections -> Contents] /\ up \in BOOLEAN
      /\ rtype \in [Collections -> {None, "hash", "list", "string"}]
  BY DEF ConsoleInv, ConsoleTyped
<1>1. CASE LateStatement
  <2>1. PICK t \in late : Execute(t) /\ late' = late \ {t}
    BY <1>1 DEF LateStatement
  <2>2. t \in Requests /\ t.kind = "shell"
    BY DEF ConsoleInv, ConsoleTyped, ScriptsAreWritten
  <2>3. ran' = ran
    BY <2>1, <2>2 DEF Execute
  <2>4. /\ table' \in [Collections -> Contents]
        /\ rtype' \in [Collections -> {None, "hash", "list", "string"}]
    BY <2>1, <2>2, ExecuteTyped DEF ConsoleInv
  <2>5. UNCHANGED <<engine, up, tableView, req, script, refused, events, count>>
    BY <1>1 DEF LateStatement
  <2> QED
    BY <1>0, <2>1, <2>3, <2>4, <2>5, WorldKeeps
<1>2. CASE Container
  <2>1. UNCHANGED <<engine, base, tableView, req, script, late, refused, ran, count>> /\ up' \in BOOLEAN
    BY <1>0, <1>2 DEF Container
  <2> QED
    BY <1>0, <2>1, WorldKeeps DEF base
<1>3. ASSUME NEW c \in Collections, NEW k \in Keys, Application(c, k) PROVE ConsoleInv'
  <2>e. PICK e \in Email :
          table' = [table EXCEPT ![c][k] = IF @ = NoRow THEN [email |-> e, age |-> "num"] ELSE NoRow]
    BY <1>3 DEF Application, Personal, Email
  <2> DEFINE r == IF table[c][k] = NoRow THEN [email |-> e, age |-> "num"] ELSE NoRow
             v == IF table'[c] = Empty THEN None ELSE "list"
  <2>1. r \in Row \cup {NoRow}
    BY DEF Row, Age
  <2>2. table' = [table EXCEPT ![c][k] = r]
    BY <2>e
  <2>3. rtype' = rtype \/ rtype' = [rtype EXCEPT ![c] = v]
    BY <1>3 DEF Application
  <2>4. v \in {None, "list"}
    OBVIOUS
  <2> HIDE DEF r, v
  <2>5. table' \in [Collections -> Contents]
    BY <1>0, <2>1, <2>2 DEF Contents
  <2>6. rtype' \in [Collections -> {None, "hash", "list", "string"}]
    BY <1>0, <2>3, <2>4
  <2>7. UNCHANGED <<engine, up, tableView, req, script, late, refused, ran, count>>
    BY <1>3 DEF Application
  <2> QED
    BY <1>0, <2>5, <2>6, <2>7, WorldKeeps
<1> QED
  BY <1>1, <1>2, <1>3

LEMMA ConsoleKept == ConsoleInv /\ [ConsoleNext]_consoleVars => ConsoleInv'
<1> SUFFICES ASSUME ConsoleInv, [ConsoleNext]_consoleVars PROVE ConsoleInv'
  OBVIOUS
<1>1. CASE ConsoleNext
  BY <1>1, UserKeeps, DialogsKeep, ServerKeeps, AnswersKeep, AroundKeeps DEF ConsoleNext
<1>2. CASE UNCHANGED consoleVars
  <2>1. UNCHANGED <<engine, up, base, active, data, loading, form, shell, req, script, past, count>>
    BY <1>2 DEF consoleVars, tableView
  <2>2. form \in Forms /\ (form # Shut => active # None)
    BY DEF ConsoleInv, ConsoleTyped, RowsAreSelected
  <2> QED
    BY <2>1, <2>2, DialogKeeps
<1> QED
  BY <1>1, <1>2

\* Outside Oracle and Redis nothing the page shows or is sent holds a personal
\* string in clear, and with a printed table (MySQL, Cassandra) nothing personal
\* (maskPIIData).
THEOREM ConsoleMasks == ConsoleSpec => []MaskedIsNotShown
<1>1. ConsoleInv => MaskedIsNotShown
  BY DEF ConsoleInv, AnswersAreMasked, MaskedIsNotShown
<1> QED
  BY <1>1, ConsoleInitial, ConsoleKept, PTL DEF ConsoleSpec

\* An insert that was answered with an error is never stored (validateDbRecord).
THEOREM ConsoleRefuses == ConsoleSpec => []RefusedIsNotStored
<1>1. ConsoleInv => RefusedIsNotStored
  BY DEF ConsoleInv
<1> QED
  BY <1>1, ConsoleInitial, ConsoleKept, PTL DEF ConsoleSpec

\* The spinner has a read that will take it away (isDbLoading).
THEOREM ConsoleLoads == ConsoleSpec => []LoadingHasReader
<1>1. ConsoleInv => LoadingHasReader
  BY DEF ConsoleInv
<1> QED
  BY <1>1, ConsoleInitial, ConsoleKept, PTL DEF ConsoleSpec

\* The variables of the console keep their types.
THEOREM ConsoleTypes == ConsoleSpec => []TypeOK
<1>1. ConsoleInv => TypeOK
  <2> SUFFICES ASSUME ConsoleInv PROVE TypeOK
    OBVIOUS
  <2>1. data.rows \in [Keys -> Row \cup {NoRow}] /\ form.kind \in {None, "insert", "edit"}
    BY DEF ConsoleInv, ConsoleTyped, Contents, Forms, Shut
  <2>2. \A s \in Slots : req[s].kind \in Kinds \cup {None}
    BY RowsAreContents DEF ConsoleInv, ConsoleTyped, None
  <2>3. refused \cup ran \subseteq 0..MaxRequests
    BY ConsoleIsBounded DEF ConsoleInv, ConsoleTyped, InsertsAreCounted
  <2> QED
    BY <2>1, <2>2, <2>3 DEF TypeOK, ConsoleInv, ConsoleTyped, Contents
<1> QED
  BY <1>1, ConsoleInitial, ConsoleKept, PTL DEF ConsoleSpec

-----------------------------------------------------------------------------
(***************************************************************************)
(* The editor.                                                             *)
(***************************************************************************)
Views == [dep : Deps, file : Files \cup {Nothing}, text : Nat]
CallRecords ==
    [pc : {"idle", "select", "preview", "delete", "read", "save", "create", "show", "write", "erase"},
     dep : Deps \cup {Nothing}, file : Files \cup {Nothing}, to : Files \cup {Nothing},
     at : Files \cup {Nothing}, text : Nat, key : BOOLEAN, touched : BOOLEAN]
Renaming == {"read", "write", "erase"}

EditorTyped ==
    /\ disk \in [Deps -> [Files -> Nat]] /\ sel \in Deps /\ tree \subseteq Files
    /\ file \in Files \cup {Nothing} /\ buf \in Nat /\ texts \in Nat
    /\ keys \in Views /\ (mounted = Unmounted \/ mounted \in Views)
    /\ tabs \in Seq(Files)
    /\ call \in [Calls -> CallRecords]

\* A call is about a file of a deployment, a rename about two.
CallsHaveFiles ==
    \A s \in Calls :
        /\ call[s].pc # "idle" => call[s].dep \in Deps /\ call[s].file \in Files
        /\ call[s].pc \in Renaming => call[s].to \in Files /\ call[s].to # call[s].file

\* What a rename has read is under its old name until it is written, then under its new one.
TextsAreSafe ==
    \A s \in Calls : ~call[s].touched =>
        /\ call[s].pc = "write" => disk[call[s].dep][call[s].file] = call[s].text
        /\ call[s].pc = "erase" => disk[call[s].dep][call[s].to] = call[s].text

EditorInv == EditorTyped /\ CallsHaveFiles /\ TextsAreSafe /\ TabsAreDistinct

\* What a step makes of the calls and of the disk.
CallsKept ==
    /\ disk' \in [Deps -> [Files -> Nat]] /\ call' \in [Calls -> CallRecords]
    /\ CallsHaveFiles' /\ TextsAreSafe' /\ TextsAreKept
\* What it makes of the page.
PanelKept ==
    /\ sel' \in Deps /\ tree' \subseteq Files /\ file' \in Files \cup {Nothing}
    /\ buf' \in Nat /\ texts' \in Nat
    /\ keys' \in Views /\ (mounted' = Unmounted \/ mounted' \in Views)
TabsKept == tabs' \in Seq(Files) /\ TabsAreDistinct'

LEMMA EditorParts == CallsKept /\ PanelKept /\ TabsKept => EditorInv' /\ TextsAreKept
  BY DEF CallsKept, PanelKept, TabsKept, EditorInv, EditorTyped

LEMMA IdleCalls == NoCall \in CallRecords /\ NoCall.pc = "idle" /\ ~NoCall.touched
  BY EditorHasTexts DEF NoCall, CallRecords, NoFile

LEMMA EditorInitial == EditorInit => EditorInv
<1> SUFFICES ASSUME EditorInit PROVE EditorInv
  OBVIOUS
<1>1. EditorTyped
  <2>1. disk \in [Deps -> [Files -> Nat]] /\ sel \in Deps
    BY UploadsAreWorkspaces DEF EditorInit
  <2>2. tree \subseteq Files /\ file \in Files \cup {Nothing} /\ buf \in Nat /\ texts \in Nat
    BY DEF EditorInit
  <2>3. keys \in Views /\ mounted = Unmounted
    BY UploadsAreWorkspaces DEF EditorInit, Views
  <2>4. tabs \in Seq(Files)
    BY DEF EditorInit
  <2>5. call \in [Calls -> CallRecords]
    BY IdleCalls DEF EditorInit
  <2> QED
    BY <2>1, <2>2, <2>3, <2>4, <2>5 DEF EditorTyped
<1>2. CallsHaveFiles /\ TextsAreSafe
  <2>1. \A s \in Calls : call[s].pc = "idle"
    BY IdleCalls DEF EditorInit
  <2> QED
    BY <2>1 DEF CallsHaveFiles, TextsAreSafe, Renaming
<1>3. TabsAreDistinct
  BY DEF EditorInit, TabsAreDistinct
<1> QED
  BY <1>1, <1>2, <1>3 DEF EditorInv

LEMMA SameCalls ==
    ASSUME EditorInv, UNCHANGED <<disk, call>>
    PROVE  CallsKept
<1>1. TextsAreKept
  BY DEF EditorInv, TextsAreSafe, TextsAreKept
<1> QED
  BY <1>1 DEF CallsKept, EditorInv, EditorTyped, CallsHaveFiles, TextsAreSafe

\* A call that begins.
LEMMA BeginKeeps ==
    ASSUME EditorInv, NEW s \in Calls, NEW d \in Deps, NEW f \in Files,
           NEW g \in Files \cup {Nothing}, NEW words \in Nat, NEW short \in BOOLEAN,
           NEW pc \in {"select", "preview", "delete", "read", "save", "create"},
           pc = "read" => g \in Files /\ g # f,
           Begin(s, Call(pc, d, f, g, words, short)), disk' = disk
    PROVE  CallsKept
<1> DEFINE v == Call(pc, d, f, g, words, short)
<1>1. /\ v \in CallRecords /\ v.pc = pc /\ v.dep = d /\ v.file = f /\ v.to = g /\ v.pc # "idle"
  BY DEF Call, CallRecords, EditorInv, EditorTyped
<1>2. call' = [call EXCEPT ![s] = v] /\ call[s] = NoCall
  BY DEF Begin, IsFree
<1> HIDE DEF v
<1>3. /\ call' \in [Calls -> CallRecords]
      /\ \A t \in Calls : call'[t] = IF t = s THEN v ELSE call[t]
  BY <1>1, <1>2 DEF EditorInv, EditorTyped
<1>4. CallsHaveFiles'
  BY <1>1, <1>3 DEF EditorInv, CallsHaveFiles, Renaming
<1>5. TextsAreSafe'
  BY <1>1, <1>3 DEF EditorInv, TextsAreSafe
<1>6. TextsAreKept
  BY <1>2, <1>3, IdleCalls DEF EditorInv, TextsAreSafe, TextsAreKept
<1> QED
  BY <1>3, <1>4, <1>5, <1>6 DEF CallsKept, EditorInv, EditorTyped

\* A call that ends without a trace on the disk.
LEMMA FailKeeps ==
    ASSUME EditorInv, NEW s \in Calls, call' = [call EXCEPT ![s] = NoCall], disk' = disk
    PROVE  CallsKept
<1>1. /\ call' \in [Calls -> CallRecords]
      /\ \A t \in Calls : call'[t] = IF t = s THEN NoCall ELSE call[t]
  BY IdleCalls DEF EditorInv, EditorTyped
<1>2. CallsHaveFiles'
  BY <1>1, IdleCalls DEF EditorInv, CallsHaveFiles, Renaming
<1>3. TextsAreSafe'
  BY <1>1, IdleCalls DEF EditorInv, TextsAreSafe
<1>4. TextsAreKept
  BY DEF EditorInv, TextsAreSafe, TextsAreKept
<1> QED
  BY <1>1, <1>2, <1>3, <1>4 DEF CallsKept, EditorInv, EditorTyped

\* A call that writes a text; next is what becomes of it.
LEMMA StoreKeeps ==
    ASSUME EditorInv, NEW s \in Calls, NEW f \in Files, NEW words \in Nat, NEW next \in CallRecords,
           call[s].pc # "idle", SaveWorkspaceFile(s, f, words, next),
           next.pc = "idle" \/ (next.dep = call[s].dep /\ next.file = call[s].file /\ next.to = call[s].to),
           next.pc \in {"idle", "show", "erase"},
           call[s].pc = "write" <=> next.pc = "erase",
           call[s].pc = "write" => f = call[s].to /\ words = call[s].text /\ next.text = words,
           call[s].pc = "erase" => f = call[s].file
    PROVE  CallsKept
<1> DEFINE d == call[s].dep
<1>1. d \in Deps /\ call[s].file \in Files
  BY DEF EditorInv, CallsHaveFiles
<1>2. /\ disk' \in [Deps -> [Files -> Nat]]
      /\ \A e \in Deps, g \in Files : disk'[e][g] = IF e = d /\ g = f THEN words ELSE disk[e][g]
  BY <1>1 DEF SaveWorkspaceFile, EditorInv, EditorTyped
<1>3. /\ call'[s] = next
      /\ \A t \in Calls \ {s} :
            call'[t] = IF call[t].dep = d /\ f \in {call[t].file, call[t].to}
                       THEN [call[t] EXCEPT !.touched = TRUE] ELSE call[t]
      /\ call' \in [Calls -> CallRecords]
  <2>1. Touch(s, d, f) \in [Calls -> CallRecords]
    <3>1. \A c \in CallRecords : [c EXCEPT !.touched = TRUE] \in CallRecords
      BY DEF CallRecords
    <3> QED
      BY <3>1 DEF Touch, EditorInv, EditorTyped
  <2>2. call' = [Touch(s, d, f) EXCEPT ![s] = next]
    BY DEF SaveWorkspaceFile
  <2> QED
    BY <2>1, <2>2 DEF Touch
<1>4. \A t \in Calls \ {s} :
         /\ call'[t].pc = call[t].pc /\ call'[t].dep = call[t].dep /\ call'[t].file = call[t].file
         /\ call'[t].to = call[t].to /\ call'[t].text = call[t].text
         /\ ~call'[t].touched => ~call[t].touched /\ (call[t].dep # d \/ f \notin {call[t].file, call[t].to})
  <2> TAKE t \in Calls \ {s}
  <2>1. call[t] \in CallRecords
    BY DEF EditorInv, EditorTyped
  <2>2. CASE call[t].dep = d /\ f \in {call[t].file, call[t].to}
    <3>1. call'[t] = [call[t] EXCEPT !.touched = TRUE]
      BY <2>2, <1>3
    <3> QED
      BY <2>1, <3>1 DEF CallRecords
  <2>3. CASE ~(call[t].dep = d /\ f \in {call[t].file, call[t].to})
    BY <1>3, <2>3
  <2> QED
    BY <2>2, <2>3
<1> HIDE DEF d
<1>5. CallsHaveFiles'
  <2>1. /\ call'[s].pc # "idle" => call'[s].dep \in Deps /\ call'[s].file \in Files
        /\ call'[s].pc \in Renaming => call'[s].to \in Files /\ call'[s].to # call'[s].file
    BY <1>1, <1>3 DEF d, EditorInv, CallsHaveFiles, Renaming
  <2>2. \A t \in Calls \ {s} :
           /\ call'[t].pc # "idle" => call'[t].dep \in Deps /\ call'[t].file \in Files
           /\ call'[t].pc \in Renaming => call'[t].to \in Files /\ call'[t].to # call'[t].file
    BY <1>4 DEF EditorInv, CallsHaveFiles
  <2> QED
    BY <2>1, <2>2 DEF CallsHaveFiles
<1>6. ASSUME NEW t \in Calls \ {s}, call[t].pc \in {"write", "erase"}, ~call'[t].touched
      PROVE  /\ disk'[call[t].dep][call[t].file] = disk[call[t].dep][call[t].file]
             /\ disk'[call[t].dep][call[t].to] = disk[call[t].dep][call[t].to]
  <2>1. call[t].dep \in Deps /\ call[t].file \in Files /\ call[t].to \in Files
    BY <1>6 DEF EditorInv, CallsHaveFiles, Renaming
  <2> QED
    BY <2>1, <1>2, <1>4, <1>6
<1>7. call[s].pc = "write" => disk'[d][call[s].to] = call[s].text
  BY <1>1, <1>2
<1>8. TextsAreSafe'
  <2>1. ~next.touched => (next.pc = "erase" => disk'[next.dep][next.to] = next.text)
    BY <1>7 DEF d
  <2>2. ASSUME NEW t \in Calls \ {s}, ~call'[t].touched
        PROVE  /\ call'[t].pc = "write" => disk'[call'[t].dep][call'[t].file] = call'[t].text
               /\ call'[t].pc = "erase" => disk'[call'[t].dep][call'[t].to] = call'[t].text
    <3>1. ~call[t].touched
      BY <1>4, <2>2
    <3>2. /\ call[t].pc = "write" => disk[call[t].dep][call[t].file] = call[t].text
          /\ call[t].pc = "erase" => disk[call[t].dep][call[t].to] = call[t].text
      BY <3>1 DEF EditorInv, TextsAreSafe
    <3> QED
      BY <3>2, <1>4, <1>6, <2>2
  <2> QED
    BY <2>1, <2>2, <1>3 DEF TextsAreSafe
<1>9. TextsAreKept
  <2> SUFFICES ASSUME NEW t \in Calls, call[t].pc \in {"write", "erase"}, ~call[t].touched, ~call'[t].touched
               PROVE  call[t].text \in {disk'[call[t].dep][call[t].file], disk'[call[t].dep][call[t].to]}
    BY DEF TextsAreKept
  <2>1. CASE t = s /\ call[s].pc = "write"
    BY <2>1, <1>7 DEF d
  <2>2. CASE t = s /\ call[s].pc = "erase"
    <3>1. call[s].to \in Files /\ call[s].to # f /\ disk[d][call[s].to] = call[s].text
      BY <2>2 DEF d, EditorInv, CallsHaveFiles, TextsAreSafe, Renaming
    <3> QED
      BY <3>1, <2>2, <1>1, <1>2 DEF d
  <2>3. CASE t # s
    BY <2>3, <1>6 DEF EditorInv, TextsAreSafe
  <2> QED
    BY <2>1, <2>2, <2>3
<1> QED
  BY <1>2, <1>3, <1>5, <1>8, <1>9 DEF CallsKept

-----------------------------------------------------------------------------
(***************************************************************************)
(* The tabs.                                                               *)
(***************************************************************************)
LEMMA TabOpens ==
    ASSUME EditorInv, NEW f \in Files, tabs' = WithTab(f)
    PROVE  TabsKept
<1>1. tabs \in Seq(Files)
  BY DEF EditorInv, EditorTyped
<1>2. CASE f \in Range(tabs)
  BY <1>1, <1>2 DEF WithTab, TabsKept, EditorInv, TabsAreDistinct
<1>3. CASE f \notin Range(tabs)
  <2>1. tabs' = Append(tabs, f)
    BY <1>3 DEF WithTab
  <2>2. \A i \in DOMAIN tabs : tabs[i] # f
    BY <1>3 DEF Range
  <2>3. /\ tabs' \in Seq(Files) /\ DOMAIN tabs' = 1..(Len(tabs) + 1) /\ DOMAIN tabs = 1..Len(tabs)
        /\ Len(tabs) \in Nat
        /\ \A i \in 1..(Len(tabs) + 1) : tabs'[i] = IF i <= Len(tabs) THEN tabs[i] ELSE f
    BY <1>1, <2>1, AppendProperties, LenProperties
  <2>4. TabsAreDistinct'
    BY <2>2, <2>3 DEF EditorInv, TabsAreDistinct
  <2> QED
    BY <2>3, <2>4 DEF TabsKept
<1> QED
  BY <1>2, <1>3

LEMMA TabCloses ==
    ASSUME EditorInv, NEW i \in DOMAIN tabs, tabs' = Without(i)
    PROVE  TabsKept
<1>1. tabs \in Seq(Files) /\ Len(tabs) \in Nat /\ DOMAIN tabs = 1..Len(tabs)
      /\ \A j \in 1..Len(tabs) : tabs[j] \in Files
  BY LenProperties, ElementOfSeq DEF EditorInv, EditorTyped
<1>2. Len(tabs) - 1 \in Nat
  BY <1>1
<1>3. tabs' \in [1..(Len(tabs) - 1) -> Files]
  BY <1>1 DEF Without
<1>4. tabs' \in Seq(Files)
  BY <1>2, <1>3
<1>5. DOMAIN tabs' = 1..(Len(tabs) - 1)
  BY <1>3
<1>6. \A j \in 1..(Len(tabs) - 1) : tabs'[j] = tabs[IF j < i THEN j ELSE j + 1]
  BY DEF Without
<1>7. TabsAreDistinct'
  <2> DEFINE old(j) == IF j < i THEN j ELSE j + 1
  <2>1. \A j, k \in 1..Len(tabs) : tabs[j] = tabs[k] => j = k
    BY <1>1 DEF EditorInv, TabsAreDistinct
  <2>2. i \in 1..Len(tabs)
    BY <1>1
  <2> SUFFICES ASSUME NEW j \in 1..(Len(tabs) - 1), NEW k \in 1..(Len(tabs) - 1), tabs'[j] = tabs'[k]
               PROVE  j = k
    BY <1>5 DEF TabsAreDistinct
  <2>3. tabs[old(j)] = tabs[old(k)]
    BY <1>6
  <2>4. old(j) \in 1..Len(tabs) /\ old(k) \in 1..Len(tabs)
    BY <1>1, <2>2
  <2>5. old(j) = old(k)
    BY <2>1, <2>3, <2>4
  <2> QED
    BY <2>2, <2>5, <1>1
<1> QED
  BY <1>4, <1>7 DEF TabsKept

LEMMA TabAlone ==
    ASSUME EditorInv, NEW i \in DOMAIN tabs, tabs' = <<tabs[i]>>
    PROVE  TabsKept
<1>1. tabs[i] \in Files
  BY LenProperties, ElementOfSeq DEF EditorInv, EditorTyped
<1>2. tabs' \in Seq(Files) /\ DOMAIN tabs' = {1}
  BY <1>1
<1> QED
  BY <1>2 DEF TabsKept, TabsAreDistinct

LEMMA TabsToTheLeft ==
    ASSUME EditorInv, NEW i \in DOMAIN tabs, tabs' = SubSeq(tabs, 1, i)
    PROVE  TabsKept
<1>1. tabs \in Seq(Files) /\ Len(tabs) \in Nat /\ DOMAIN tabs = 1..Len(tabs) /\ i \in 1..Len(tabs)
  BY LenProperties DEF EditorInv, EditorTyped
<1>2. tabs' \in Seq(Files) /\ DOMAIN tabs' = 1..i /\ \A j \in 1..i : tabs'[j] = tabs[j]
  BY <1>1, SubSeqProperties
<1> QED
  BY <1>1, <1>2 DEF TabsKept, EditorInv, TabsAreDistinct

LEMMA SameTabs ==
    ASSUME EditorInv, UNCHANGED tabs
    PROVE  TabsKept
  BY DEF TabsKept, EditorInv, EditorTyped, TabsAreDistinct

\* A render takes over the state it shows.
LEMMA RenderKeeps ==
    ASSUME EditorInv, NEW rerun, Render(rerun), sel' \in Deps,
           file' \in Files \cup {Nothing}, buf' \in Nat
    PROVE  keys' \in Views /\ (mounted' = Unmounted \/ mounted' \in Views)
<1>1. View' \in Views
  BY DEF View, Views
<1>2. keys' \in {View', keys} /\ mounted' \in {Unmounted, View', mounted}
  BY DEF Render
<1> QED
  BY <1>1, <1>2 DEF EditorInv, EditorTyped

LEMMA SamePanel ==
    ASSUME EditorInv, UNCHANGED <<panel, keys, mounted, texts>>
    PROVE  PanelKept
  BY DEF PanelKept, EditorInv, EditorTyped, panel

-----------------------------------------------------------------------------
(***************************************************************************)
(* The steps of the editor.                                                *)
(***************************************************************************)
\* What a call may take from the page.
LEMMA PageHasFiles ==
    ASSUME EditorInv
    PROVE  /\ sel \in Deps /\ tree \subseteq Files /\ NoFile \in Nat
           /\ keys.dep \in Deps /\ keys.text \in Nat
           /\ keys.file # Nothing => keys.file \in Files
           /\ mounted.file # Nothing =>
                mounted.dep \in Deps /\ mounted.file \in Files /\ mounted.text \in Nat
           /\ file # Nothing => file \in Files
           /\ buf \in Nat
           /\ \A i \in DOMAIN tabs : tabs[i] \in Files
<1>1. /\ keys.dep \in Deps /\ keys.text \in Nat
      /\ keys.file # Nothing => keys.file \in Files
  BY DEF EditorInv, EditorTyped, Views
<1>2. mounted.file # Nothing =>
        mounted.dep \in Deps /\ mounted.file \in Files /\ mounted.text \in Nat
  BY DEF EditorInv, EditorTyped, Views, Unmounted
<1>3. \A i \in DOMAIN tabs : tabs[i] \in Files
  BY LenProperties, ElementOfSeq DEF EditorInv, EditorTyped
<1> QED
  BY <1>1, <1>2, <1>3, EditorHasTexts DEF EditorInv, EditorTyped, NoFile

LEMMA AskKeeps ==
    ASSUME EditorInv, NEW s \in Calls, NEW f \in Files,
           NEW pc \in {"select", "preview", "delete", "create"}, Ask(s, pc, f), disk' = disk
    PROVE  CallsKept
  BY PageHasFiles, BeginKeeps DEF Ask

LEMMA QuietKeeps ==
    ASSUME EditorInv, Quiet
    PROVE  PanelKept /\ TabsKept
  BY SamePanel, SameTabs DEF Quiet, strip

LEMMA AsksKeep ==
    ASSUME EditorInv, NEW s \in Calls, NEW f \in Files,
           \/ HandleSelectFile(s, f) \/ HandleContextPreview(s, f) \/ HandleDeleteFile(s, f)
           \/ NewFileButton(s, f) \/ ShortcutNew(s, f)
           \/ \E g \in Files : HandleRenameFile(s, f, g)
    PROVE  EditorInv' /\ TextsAreKept
<1>1. Quiet /\ disk' = disk
  BY DEF HandleSelectFile, HandleContextPreview, HandleDeleteFile, NewFileButton, ShortcutNew,
         HandleRenameFile, Quiet
<1>2. CallsKept
  <2>1. CASE HandleSelectFile(s, f)
    BY <1>1, <2>1, AskKeeps DEF HandleSelectFile
  <2>2. CASE HandleContextPreview(s, f)
    BY <1>1, <2>2, AskKeeps DEF HandleContextPreview
  <2>3. CASE HandleDeleteFile(s, f)
    BY <1>1, <2>3, AskKeeps DEF HandleDeleteFile
  <2>4. CASE NewFileButton(s, f)
    BY <1>1, <2>4, AskKeeps DEF NewFileButton
  <2>5. CASE ShortcutNew(s, f)
    BY <1>1, <2>5, PageHasFiles, BeginKeeps DEF ShortcutNew
  <2>6. ASSUME NEW g \in Files, HandleRenameFile(s, f, g) PROVE CallsKept
    BY <1>1, <2>6, PageHasFiles, BeginKeeps DEF HandleRenameFile
  <2> QED
    BY <2>1, <2>2, <2>3, <2>4, <2>5, <2>6
<1> QED
  BY <1>1, <1>2, QuietKeeps, EditorParts

LEMMA SavesKeep ==
    ASSUME EditorInv, NEW s \in Calls, SaveButton(s) \/ ShortcutSave(s) \/ BlurSave(s)
    PROVE  EditorInv' /\ TextsAreKept
<1>1. ASSUME NEW v, NEW short \in BOOLEAN, Saves(s, v, short), v.dep \in Deps, v.text \in Nat,
             v.file \in Files
      PROVE  EditorInv' /\ TextsAreKept
  <2>1. CallsKept
    BY <1>1, BeginKeeps DEF Saves
  <2>2. PanelKept /\ TabsKept
    BY <1>1, SamePanel, SameTabs DEF Saves, strip
  <2> QED
    BY <2>1, <2>2, EditorParts
<1>2. CASE SaveButton(s)
  <2>1. View.dep \in Deps /\ View.text \in Nat /\ (View.file # Nothing => View.file \in Files)
    BY PageHasFiles DEF View
  <2>2. Saves(s, View, FALSE) /\ View.file # Nothing
    BY <1>2 DEF SaveButton, Saves
  <2> QED
    BY <2>1, <2>2, <1>1
<1>3. CASE ShortcutSave(s)
  <2>1. Saves(s, keys, TRUE) /\ keys.file # Nothing
    BY <1>3 DEF ShortcutSave, Saves
  <2> QED
    BY <2>1, <1>1, PageHasFiles
<1>4. CASE BlurSave(s)
  <2>1. Saves(s, mounted, FALSE) /\ mounted.file # Nothing
    BY <1>4 DEF BlurSave, Saves
  <2> QED
    BY <2>1, <1>1, PageHasFiles
<1> QED
  BY <1>2, <1>3, <1>4

\* An answer that shows a file.
LEMMA ShowKeeps ==
    ASSUME EditorInv, NEW s \in Calls, NEW c,
           Shows(call[s].file, Holds(s), c), call[s].pc # "idle",
           call' = [call EXCEPT ![s] = NoCall], Render(FALSE),
           UNCHANGED <<disk, sel, tree, texts>>
    PROVE  CallsKept /\ PanelKept
<1>1. call[s].dep \in Deps /\ call[s].file \in Files
  BY DEF EditorInv, CallsHaveFiles
<1>2. Holds(s) \in Nat
  BY <1>1 DEF Holds, EditorInv, EditorTyped
<1>3. file' \in Files \cup {Nothing} /\ buf' \in Nat
  BY <1>1, <1>2 DEF Shows
<1>4. sel' \in Deps /\ tree' \subseteq Files /\ texts' \in Nat
  BY DEF EditorInv, EditorTyped
<1> QED
  BY <1>3, <1>4, RenderKeeps, FailKeeps DEF PanelKept

LEMMA CallHasFiles ==
    ASSUME EditorInv, NEW s \in Calls
    PROVE  /\ call[s] \in CallRecords
           /\ call[s].pc # "idle" => call[s].dep \in Deps /\ call[s].file \in Files
           /\ call[s].pc \in Renaming => call[s].to \in Files /\ call[s].to # call[s].file
           /\ call[s].text \in Nat /\ call[s].at \in Files \cup {Nothing}
  BY DEF EditorInv, EditorTyped, CallsHaveFiles, CallRecords

LEMMA AnswersAreKept ==
    ASSUME EditorInv, NEW s \in Calls, Answer(s)
    PROVE  EditorInv' /\ TextsAreKept
<1>0. texts' = texts /\ sel \in Deps /\ tree \subseteq Files /\ texts \in Nat
  BY DEF Answer, EditorInv, EditorTyped
<1>1. CASE SelectAnswer(s)
  <2>1. CallsKept /\ PanelKept
    BY <1>0, <1>1, ShowKeeps DEF SelectAnswer
  <2>2. TabsKept
    BY <1>1, TabOpens, CallHasFiles DEF SelectAnswer
  <2> QED
    BY <2>1, <2>2, EditorParts
<1>2. CASE PreviewAnswer(s)
  BY <1>0, <1>2, ShowKeeps, SameTabs, EditorParts DEF PreviewAnswer, strip
<1>3. CASE NotFound(s)
  <2>1. CallsKept
    BY <1>3, FailKeeps DEF NotFound, Fails
  <2>2. PanelKept /\ TabsKept
    BY <1>0, <1>3, SamePanel, SameTabs DEF NotFound, Fails, strip
  <2> QED
    BY <2>1, <2>2, EditorParts
<1>4. CASE SaveAnswer(s)
  <2>1. PanelKept /\ TabsKept
    BY <1>0, <1>4, SamePanel, SameTabs DEF SaveAnswer, Fails, strip
  <2>2. CASE SaveWorkspaceFile(s, call[s].file, call[s].text, NoCall)
    <3>1. call[s].pc = "save"
      BY <1>4 DEF SaveAnswer
    <3>2. CallsKept
      BY <2>2, <3>1, StoreKeeps, CallHasFiles, IdleCalls
    <3> QED
      BY <2>1, <3>2, EditorParts
  <2>3. CASE Fails(s)
    BY <2>1, <2>3, FailKeeps, EditorParts DEF Fails
  <2> QED
    BY <1>4, <2>2, <2>3 DEF SaveAnswer
<1>5. CASE CreateAnswer(s)
  <2>1. PanelKept /\ TabsKept
    BY <1>0, <1>5, SameTabs DEF CreateAnswer, strip, PanelKept, EditorInv, EditorTyped
  <2> DEFINE next == [call[s] EXCEPT !.pc = "show"]
  <2>2. /\ next \in CallRecords /\ next.pc = "show" /\ next.dep = call[s].dep
        /\ next.file = call[s].file /\ next.to = call[s].to
    BY CallHasFiles DEF CallRecords
  <2>3. SaveWorkspaceFile(s, call[s].file, 0, next) /\ call[s].pc = "create"
    BY <1>5 DEF CreateAnswer
  <2> HIDE DEF next
  <2>4. CallsKept
    BY <2>2, <2>3, StoreKeeps, CallHasFiles
  <2> QED
    BY <2>1, <2>4, EditorParts
<1>6. CASE ShowAnswer(s)
  BY <1>0, <1>6, ShowKeeps, SameTabs, EditorParts DEF ShowAnswer, strip
<1>7. CASE DeleteAnswer(s)
  <2>1. SaveWorkspaceFile(s, call[s].file, 0, NoCall) /\ call[s].pc = "delete"
    BY <1>7 DEF DeleteAnswer
  <2>2. CallsKept
    BY <2>1, StoreKeeps, CallHasFiles, IdleCalls
  <2>3. file' \in Files \cup {Nothing} /\ buf' \in Nat /\ UNCHANGED <<sel, tree>> /\ Render(FALSE)
    <3>1. file \in Files \cup {Nothing} /\ buf \in Nat
      BY DEF EditorInv, EditorTyped
    <3>2. file' \in {file, Nothing} /\ buf' \in {buf, 0}
      BY <1>7 DEF DeleteAnswer
    <3>3. file' \in Files \cup {Nothing} /\ buf' \in Nat
      BY <3>1, <3>2
    <3>4. UNCHANGED <<sel, tree>> /\ Render(FALSE)
      BY <1>7 DEF DeleteAnswer
    <3> QED
      BY <3>3, <3>4
  <2>4. PanelKept
    BY <1>0, <2>3, RenderKeeps DEF PanelKept
  <2>5. TabsKept
    BY <1>7, SameTabs DEF DeleteAnswer, strip
  <2> QED
    BY <2>2, <2>4, <2>5, EditorParts
<1>8. CASE RenameReads(s)
  <2>1. PanelKept /\ TabsKept
    BY <1>0, <1>8, SamePanel, SameTabs DEF RenameReads, strip
  <2>2. CallsKept
    <3> DEFINE v == Rewrites(call[s], Holds(s))
    <3>1. /\ call[s].dep \in Deps /\ call[s].file \in Files /\ call[s].to \in Files
          /\ call[s].to # call[s].file /\ call[s].pc = "read"
      BY <1>8, CallHasFiles DEF RenameReads, Renaming
    <3>2. Holds(s) \in Nat
      BY <3>1 DEF Holds, EditorInv, EditorTyped
    <3>3. /\ v \in CallRecords /\ v.pc = "write" /\ v.dep = call[s].dep /\ v.file = call[s].file
          /\ v.to = call[s].to /\ v.text = disk[call[s].dep][call[s].file]
      BY <3>2, CallHasFiles DEF Rewrites, CallRecords, Holds
    <3>4. call' = [call EXCEPT ![s] = v] /\ disk' = disk
      BY <1>8 DEF RenameReads
    <3> HIDE DEF v
    <3>5. /\ call' \in [Calls -> CallRecords]
          /\ \A t \in Calls : call'[t] = IF t = s THEN v ELSE call[t]
      BY <3>3, <3>4 DEF EditorInv, EditorTyped
    <3>6. CallsHaveFiles'
      BY <3>1, <3>3, <3>5 DEF EditorInv, CallsHaveFiles, Renaming
    <3>7. TextsAreSafe'
      BY <3>3, <3>4, <3>5 DEF EditorInv, TextsAreSafe
    <3>8. TextsAreKept
      BY <3>4 DEF EditorInv, TextsAreSafe, TextsAreKept
    <3> QED
      BY <3>4, <3>5, <3>6, <3>7, <3>8 DEF CallsKept, EditorInv, EditorTyped
  <2> QED
    BY <2>1, <2>2, EditorParts
<1>9. CASE RenameWrites(s)
  <2>1. PanelKept /\ TabsKept
    BY <1>0, <1>9, SamePanel, SameTabs DEF RenameWrites, Fails, strip
  <2> DEFINE next == [call[s] EXCEPT !.pc = "erase"]
  <2>2. /\ next \in CallRecords /\ next.pc = "erase" /\ next.dep = call[s].dep
        /\ next.file = call[s].file /\ next.to = call[s].to /\ next.text = call[s].text
    BY CallHasFiles DEF CallRecords
  <2>3. call[s].pc = "write" /\ call[s].to \in Files
    BY <1>9, CallHasFiles DEF RenameWrites, Renaming
  <2>4. CASE SaveWorkspaceFile(s, call[s].to, call[s].text, next)
    <3> HIDE DEF next
    <3> QED
      BY <2>1, <2>2, <2>3, <2>4, StoreKeeps, CallHasFiles, EditorParts
  <2>5. CASE Fails(s)
    BY <2>1, <2>5, FailKeeps, EditorParts DEF Fails
  <2> QED
    BY <1>9, <2>4, <2>5 DEF RenameWrites
<1>10. CASE RenameErases(s)
  <2>1. SaveWorkspaceFile(s, call[s].file, 0, NoCall) /\ call[s].pc = "erase"
    BY <1>10 DEF RenameErases
  <2>2. CallsKept
    BY <2>1, StoreKeeps, CallHasFiles, IdleCalls
  <2>3. file' \in Files \cup {Nothing} /\ buf' \in Nat /\ UNCHANGED <<sel, tree>> /\ Render(FALSE)
    BY <1>10, <2>1, CallHasFiles DEF RenameErases, Renaming, EditorInv, EditorTyped
  <2>4. PanelKept
    BY <1>0, <2>3, RenderKeeps DEF PanelKept
  <2>5. TabsKept
    BY <1>10, SameTabs DEF RenameErases, strip
  <2> QED
    BY <2>2, <2>4, <2>5, EditorParts
<1> QED
  BY <1>1, <1>2, <1>3, <1>4, <1>5, <1>6, <1>7, <1>8, <1>9, <1>10 DEF Answer

\* A click that changes the page, its tabs apart.
LEMMA ClickKeeps ==
    ASSUME EditorInv, NEW rerun, Render(rerun), UNCHANGED <<disk, call>>, sel' \in Deps,
           tree' \subseteq Files, file' \in Files \cup {Nothing}, buf' \in Nat, texts' \in Nat
    PROVE  CallsKept /\ PanelKept
  BY SameCalls, RenderKeeps DEF PanelKept

LEMMA ClicksKeep ==
    ASSUME EditorInv,
           \/ \E d \in Deps : GetWorkspaceFiles(d) \/ SelectDeployment(d)
           \/ Edit \/ ShortcutClose \/ \E c \in {"editor", "mdPreview"} : ShowCenter(c)
    PROVE  EditorInv' /\ TextsAreKept
<1>0. /\ sel \in Deps /\ tree \subseteq Files /\ file \in Files \cup {Nothing} /\ buf \in Nat
      /\ texts \in Nat
  BY DEF EditorInv, EditorTyped
<1>1. ASSUME NEW d \in Deps, GetWorkspaceFiles(d) PROVE EditorInv' /\ TextsAreKept
  BY <1>0, <1>1, ClickKeeps, SameTabs, EditorParts DEF GetWorkspaceFiles, strip
<1>2. ASSUME NEW d \in Deps, SelectDeployment(d) PROVE EditorInv' /\ TextsAreKept
  BY <1>0, <1>2, ClickKeeps, SameTabs, EditorParts DEF SelectDeployment, Click, Here, strip
<1>3. CASE Edit
  <2>1. /\ UNCHANGED <<disk, call, sel, tree, file, strip>> /\ Render(FALSE)
        /\ texts' = texts + 1 /\ buf' = texts + 1
    BY <1>3 DEF Edit, Here
  <2>2. CallsKept /\ PanelKept
    <3>1. texts' \in Nat /\ buf' \in Nat
      BY <1>0, <2>1
    <3> QED
      BY <1>0, <2>1, <3>1, ClickKeeps
  <2>3. TabsKept
    BY <2>1, SameTabs DEF strip
  <2> QED
    BY <2>2, <2>3, EditorParts
<1>4. CASE ShortcutClose
  BY <1>0, <1>4, ClickKeeps, SameTabs, EditorParts DEF ShortcutClose, Click, Here, strip
<1>5. ASSUME NEW c, ShowCenter(c) PROVE EditorInv' /\ TextsAreKept
  BY <1>0, <1>5, ClickKeeps, SameTabs, EditorParts DEF ShowCenter, Click, Here, strip
<1> QED
  BY <1>1, <1>2, <1>3, <1>4, <1>5

\* A click on a tab.
LEMMA TabClickKeeps ==
    ASSUME EditorInv, Render(FALSE), UNCHANGED <<panel, texts>>, CallsKept, TabsKept
    PROVE  EditorInv' /\ TextsAreKept
<1>1. PanelKept
  BY RenderKeeps DEF PanelKept, panel, EditorInv, EditorTyped
<1> QED
  BY <1>1, EditorParts

LEMMA TabsAreKept ==
    ASSUME EditorInv,
           \/ HandleCloseAll
           \/ \E s \in Calls, i \in DOMAIN tabs : ClickTab(s, i) \/ HandleCloseTab(s, i)
           \/ \E i \in DOMAIN tabs, pane \in {"left", "right"} :
                 HandleCloseOthers(i, pane) \/ HandleCloseToRight(i, pane)
           \/ \E i \in DOMAIN tabs : HandleSplitRight(i)
    PROVE  EditorInv' /\ TextsAreKept
<1>1. CASE HandleCloseAll
  <2>1. TabsKept
    BY <1>1 DEF HandleCloseAll, TabsKept, TabsAreDistinct
  <2> QED
    BY <1>1, <2>1, SameCalls, TabClickKeeps DEF HandleCloseAll, Click, Here
<1>2. ASSUME NEW s \in Calls, NEW i \in DOMAIN tabs, ClickTab(s, i) PROVE EditorInv' /\ TextsAreKept
  <2>1. CallsKept
    BY <1>2, AskKeeps, PageHasFiles DEF ClickTab
  <2> QED
    BY <1>2, <2>1, SameTabs, TabClickKeeps DEF ClickTab
<1>3. ASSUME NEW s \in Calls, NEW i \in DOMAIN tabs, HandleCloseTab(s, i)
      PROVE  EditorInv' /\ TextsAreKept
  <2>1. TabsKept
    BY <1>3, TabCloses DEF HandleCloseTab
  <2>2. UNCHANGED <<panel, texts>> /\ Render(FALSE)
    BY <1>3 DEF HandleCloseTab, Click
  <2>3. CallsKept
    <3>1. CASE tab = tabs[i] /\ tabs' # <<>>
      <4> DEFINE next == tabs'[IF i > 1 THEN i - 1 ELSE 1]
      <4>1. Ask(s, "select", next) /\ disk' = disk
        BY <1>3, <3>1 DEF HandleCloseTab
      <4>2. tabs' \in Seq(Files) /\ tabs' = Without(i)
        BY <1>3, <2>1 DEF HandleCloseTab, TabsKept
      <4>3. /\ Len(tabs) \in Nat /\ i \in 1..Len(tabs)
            /\ DOMAIN tabs' = 1..(Len(tabs) - 1)
        BY <4>2, LenProperties DEF Without, EditorInv, EditorTyped
      <4>4. Len(tabs) > 1
        BY <3>1, <4>2, <4>3
      <4>5. (IF i > 1 THEN i - 1 ELSE 1) \in DOMAIN tabs'
        BY <4>3, <4>4
      <4>6. next \in Files
        BY <4>2, <4>5, LenProperties, ElementOfSeq
      <4> QED
        BY <4>1, <4>6, AskKeeps
    <3>2. CASE ~(tab = tabs[i] /\ tabs' # <<>>)
      <4>1. UNCHANGED <<disk, call>>
        BY <1>3, <3>2 DEF HandleCloseTab, Click, Here
      <4> QED
        BY <4>1, SameCalls
    <3> QED
      BY <3>1, <3>2
  <2> QED
    BY <2>1, <2>2, <2>3, TabClickKeeps
<1>4. ASSUME NEW i \in DOMAIN tabs, NEW pane, HandleCloseOthers(i, pane)
      PROVE  EditorInv' /\ TextsAreKept
  BY <1>4, TabAlone, SameCalls, TabClickKeeps DEF HandleCloseOthers, Click, Here
<1>5. ASSUME NEW i \in DOMAIN tabs, NEW pane, HandleCloseToRight(i, pane)
      PROVE  EditorInv' /\ TextsAreKept
  BY <1>5, TabsToTheLeft, SameCalls, TabClickKeeps DEF HandleCloseToRight, Click, Here
<1>6. ASSUME NEW i \in DOMAIN tabs, HandleSplitRight(i) PROVE EditorInv' /\ TextsAreKept
  BY <1>6, SameTabs, SameCalls, TabClickKeeps DEF HandleSplitRight, Click, Here
<1> QED
  BY <1>1, <1>2, <1>3, <1>4, <1>5, <1>6

LEMMA EditorKept == EditorInv /\ [EditorNext]_editorVars => EditorInv' /\ [TextsAreKept]_editorVars
<1> SUFFICES ASSUME EditorInv, [EditorNext]_editorVars
             PROVE  EditorInv' /\ [TextsAreKept]_editorVars
  OBVIOUS
<1>1. CASE EditorNext
  BY <1>1, AsksKeep, SavesKeep, AnswersAreKept, ClicksKeep, TabsAreKept DEF EditorNext
<1>2. CASE UNCHANGED editorVars
  <2>1. CallsKept /\ PanelKept /\ TabsKept
    BY <1>2, SameCalls, SamePanel, SameTabs DEF editorVars, strip
  <2> QED
    BY <2>1, EditorParts
<1> QED
  BY <1>1, <1>2

\* A path has one tab, however many requests for it were in flight together.
THEOREM TabsStayDistinct == EditorSpec => []TabsAreDistinct
<1>1. EditorInv => TabsAreDistinct
  BY DEF EditorInv
<1> QED
  BY <1>1, EditorInitial, EditorKept, PTL DEF EditorSpec

\* A rename that nobody disturbs keeps what it has read under one of its names.
THEOREM RenamesAreSafe == EditorSpec => RenameLosesNothing
  BY EditorInitial, EditorKept, PTL DEF EditorSpec, RenameLosesNothing

-----------------------------------------------------------------------------
(***************************************************************************)
(* The deployment page: what is ticked and what is sent.                   *)
(***************************************************************************)
Packages == UNION {Upgrades[j] : j \in Jobs}
Modals ==
    [job : Jobs \cup {NoBuild}, offered : SUBSET Packages, ticked : SUBSET Packages, left : Nat]

\* The window holds what the audit of its own build has offered.
ModalIsOffered ==
    modal.offered \subseteq Upgrades[modal.job] /\ modal.ticked \subseteq Upgrades[modal.job]

PageInv ==
    /\ modal \in Modals /\ applied \in [Jobs -> SUBSET Packages]
    /\ \A m \in sent : m.picked \subseteq Packages
    /\ ModalIsOffered /\ SelectionIsOffered

LEMMA PageInitial == PageInit => PageInv
<1> SUFFICES ASSUME PageInit PROVE PageInv
  OBVIOUS
<1>1. modal = NoModal /\ applied = [j \in Jobs |-> {}]
  BY DEF PageInit
<1>2. \A m \in sent : m.picked = {}
  BY DEF PageInit, Join
<1>3. modal \in Modals /\ modal.offered = {} /\ modal.ticked = {}
  BY <1>1 DEF NoModal, Modals
<1> QED
  BY <1>1, <1>2, <1>3 DEF PageInv, ModalIsOffered, SelectionIsOffered

\* A step that sends nothing but the wish to join a room.
LEMMA JoinKeeps ==
    ASSUME PageInv, UNCHANGED <<applied, modal>>,
           sent' \subseteq sent \/ \E j : sent' = sent \cup {Join(j)}
    PROVE  PageInv'
<1>1. \A m \in sent' : m \in sent \/ m.picked = {}
  BY DEF Join
<1> QED
  BY <1>1 DEF PageInv, ModalIsOffered, SelectionIsOffered

\* A step that changes the window and sends nothing.
LEMMA WindowKeeps ==
    ASSUME PageInv, UNCHANGED <<applied, sent>>, modal' \in Modals, ModalIsOffered'
    PROVE  PageInv'
  BY DEF PageInv, SelectionIsOffered

\* The choice of the user, or of the countdown.
LEMMA ChoiceKeeps ==
    ASSUME PageInv, NEW chosen \in {modal.ticked, {}, modal.offered}, HandleApplyUpgrades(chosen)
    PROVE  PageInv'
<1>1. chosen \subseteq Upgrades[modal.job] /\ chosen \subseteq Packages
  BY DEF PageInv, ModalIsOffered, Modals
<1>2. modal' = NoModal /\ applied' = applied /\ sent' = sent \cup {Choice(modal.job, chosen)}
  BY DEF HandleApplyUpgrades, server
<1>3. \A m \in sent' : m.picked \subseteq Upgrades[m.job] /\ m.picked \subseteq Packages
  BY <1>1, <1>2 DEF Choice, PageInv, SelectionIsOffered
<1>4. modal' \in Modals /\ ModalIsOffered'
  BY <1>2 DEF NoModal, Modals, ModalIsOffered
<1> QED
  BY <1>2, <1>3, <1>4 DEF PageInv, SelectionIsOffered

\* The pipeline goes on with packages its own audit has offered.
LEMMA ResumedKeeps ==
    ASSUME PageInv, NEW j, NEW packages, Resumed(j, packages), packages \subseteq Upgrades[j],
           packages \subseteq Packages, modal' = modal, sent' \subseteq sent
    PROVE  PageInv'
<1>1. applied' = [applied EXCEPT ![j] = packages]
  BY DEF Resumed
<1>2. applied' \in [Jobs -> SUBSET Packages] /\ \A l \in Jobs : applied'[l] \subseteq Upgrades[l]
  BY <1>1 DEF PageInv, SelectionIsOffered
<1> QED
  BY <1>2 DEF PageInv, ModalIsOffered, SelectionIsOffered

LEMMA PageKept == PageInv /\ [PageNext]_pageVars => PageInv'
<1> SUFFICES ASSUME PageInv, [PageNext]_pageVars PROVE PageInv'
  OBVIOUS
<1>1. CASE HandleUploadSubmit \/ HandleGithubImport \/ HandleUpdatePort
  <2>1. UNCHANGED <<applied, modal, sent>>
    BY <1>1 DEF HandleUploadSubmit, HandleGithubImport, HandleUpdatePort, server
  <2> QED
    BY <2>1, JoinKeeps
<1>2. ASSUME NEW j \in Jobs,
             \/ HandleSelectDeployment(j) \/ HandleStop(j) \/ HandleDeleteDeployment(j)
             \/ PreviewReady(j) \/ PreviewDies(j)
             \/ \E verdict \in {"deployed", "failed"} : PipelineComplete(j, verdict)
      PROVE  PageInv'
  <2>1. UNCHANGED <<applied, modal, sent>>
    BY <1>2 DEF HandleSelectDeployment, HandleStop, HandleDeleteDeployment, PreviewReady,
                PreviewDies, PipelineComplete, server
  <2> QED
    BY <2>1, JoinKeeps
<1>3. ASSUME NEW j \in Jobs, HandleHistoryStart(j) PROVE PageInv'
  <2>1. UNCHANGED <<applied, modal>> /\ sent' = sent \cup {Join(j)}
    BY <1>3 DEF HandleHistoryStart, server
  <2> QED
    BY <2>1, JoinKeeps
<1>4. ASSUME NEW j \in Jobs, AskUpgrades(j) PROVE PageInv'
  <2>1. Question(j) \in Modals
    BY CountdownIsPositive DEF Question, Modals, Packages
  <2>2. modal' \in {modal, Question(j)} /\ UNCHANGED <<applied, sent>>
    BY <1>4 DEF AskUpgrades
  <2>3. modal' \in Modals /\ ModalIsOffered'
    BY <2>1, <2>2 DEF Question, PageInv, ModalIsOffered
  <2> QED
    BY <2>2, <2>3, WindowKeeps
<1>5. ASSUME NEW j \in Jobs, SelectionExpires(j) PROVE PageInv'
  <2>1. Resumed(j, Upgrades[j]) /\ modal' = modal /\ sent' = sent
    BY <1>5 DEF SelectionExpires
  <2>2. Upgrades[j] \subseteq Packages
    BY DEF Packages
  <2> QED
    BY <2>1, <2>2, ResumedKeeps
<1>6. ASSUME NEW p \in modal.offered, Toggle(p) PROVE PageInv'
  <2> DEFINE ticks == IF p \in modal.ticked THEN modal.ticked \ {p} ELSE modal.ticked \cup {p}
  <2>1. modal' = [modal EXCEPT !.ticked = ticks] /\ UNCHANGED <<applied, sent>>
    BY <1>6 DEF Toggle, server
  <2>2. modal \in Modals /\ ModalIsOffered
    BY DEF PageInv
  <2>3. ticks \subseteq Upgrades[modal.job] /\ ticks \subseteq Packages
    BY <2>2 DEF ModalIsOffered, Modals
  <2> HIDE DEF ticks
  <2>4. modal' \in Modals /\ modal'.job = modal.job /\ modal'.offered = modal.offered /\ modal'.ticked = ticks
    BY <2>1, <2>2, <2>3 DEF Modals
  <2> QED
    BY <2>1, <2>2, <2>3, <2>4, WindowKeeps DEF ModalIsOffered
<1>7. CASE PressApply \/ PressSkip \/ AtZero
  BY <1>7, ChoiceKeeps DEF PressApply, PressSkip, AtZero
<1>8. CASE Second
  <2>1. modal' = [modal EXCEPT !.left = modal.left - 1] /\ UNCHANGED <<applied, sent>> /\ modal.left > 0
    BY <1>8 DEF Second, server
  <2>2. modal \in Modals /\ ModalIsOffered
    BY DEF PageInv
  <2>3. modal' \in Modals /\ modal'.job = modal.job /\ modal'.offered = modal.offered
          /\ modal'.ticked = modal.ticked
    BY <2>1, <2>2 DEF Modals
  <2> QED
    BY <2>1, <2>2, <2>3, WindowKeeps DEF ModalIsOffered
<1>9. CASE Reconnect
  BY <1>9, JoinKeeps DEF Reconnect, server
<1>10. ASSUME NEW c \in calls,
              \/ BuildAnswered(c) \/ ListAnswered(c) \/ PreviewAnswered(c)
              \/ AcceptBuild(c) \/ ServePreview(c)
       PROVE  PageInv'
  <2>1. UNCHANGED <<applied, modal>>
    BY <1>10 DEF BuildAnswered, ListAnswered, PreviewAnswered, AcceptBuild, ServePreview, server
  <2>2. sent' = sent \/ sent' = sent \cup {Join(c.job)}
    BY <1>10 DEF BuildAnswered, ListAnswered, PreviewAnswered, AcceptBuild, ServePreview
  <2> QED
    BY <2>1, <2>2, JoinKeeps
<1>11. ASSUME NEW m \in sent, TakeMessage(m) PROVE PageInv'
  <2>1. modal' = modal /\ sent' \subseteq sent
    BY <1>11 DEF TakeMessage
  <2>2. applied' = applied \/ Resumed(m.job, m.picked)
    BY <1>11 DEF TakeMessage
  <2>3. m.picked \subseteq Upgrades[m.job] /\ m.picked \subseteq Packages
    BY DEF PageInv, SelectionIsOffered
  <2> QED
    BY <2>1, <2>2, <2>3, JoinKeeps, ResumedKeeps
<1>12. CASE UNCHANGED pageVars
  BY <1>12, JoinKeeps DEF pageVars, server
<1> QED
  BY <1>1, <1>2, <1>3, <1>4, <1>5, <1>6, <1>7, <1>8, <1>9, <1>10, <1>11, <1>12 DEF PageNext

\* A pipeline only upgrades packages its own audit has offered.
THEOREM SelectionsAreOffered == PageSpec => []SelectionIsOffered
<1>1. PageInv => SelectionIsOffered
  BY DEF PageInv
<1> QED
  BY <1>1, PageInitial, PageKept, PTL DEF PageSpec

=============================================================================
