------------------------------ MODULE DbConsole ------------------------------
(***************************************************************************)
(* The database console of one deployment: the table view and the shells   *)
(* of Web/frontend/src/pages/Agent.jsx and the handlers behind them in     *)
(* Web/backend/src/controllers/devops.controller.js.                       *)
(*                                                                         *)
(* A request is one call of a handler; it inspects the container,          *)
(* validates, writes its statement to a file of the container where the    *)
(* engine's client is driven by a file, runs it, and is answered.  Answers *)
(* reach the page in any order.  A table has an automatic key, a personal  *)
(* column (email stands for the keys maskPIIData knows) and a numeric one  *)
(* that may not be null (age).  The engine, the container and the deployed *)
(* application are external.                                               *)
(***************************************************************************)
EXTENDS Naturals, FiniteSets

CONSTANTS
    DbTypes,      \* engines a deployment may have, among Engines below
    Slots,        \* requests that may be in flight together
    Collections,  \* tables, collections or Redis keys
    Keys,         \* keys of the rows of a table
    MaxRequests,  \* bound: requests of the user in a behaviour
    MaxEvents     \* bound: steps of the container and of the application

ASSUME ConsoleIsBounded == MaxRequests \in Nat
ASSUME NamesOfCollections == "none" \notin Collections
ASSUME KeysAreNumbers == Keys \subseteq Nat /\ IsFiniteSet(Keys) /\ 1 \in Keys /\ 0 \notin Keys

VARIABLES
    engine,   \* dbInitType
    up,       \* the database container runs
    table,    \* the rows of each collection
    rtype,    \* Redis: type of each key
    active,   \* activeCollection of the page
    data,     \* collectionData; coll tells whose rows they are, the page forgets it
    loading,  \* isDbLoading
    form,     \* the insert or the edit dialog
    shell,    \* isShellRunning
    req,      \* the requests in flight
    script,   \* statement last written for each kind of request
    late,     \* shell statements that outlive their answer
    refused,  \* history: inserts answered with an error
    ran,      \* history: inserts whose statement was run
    count,    \* requests so far
    events    \* steps of the world around so far

base == <<table, rtype>>
tableView == <<active, data, loading, form, shell>>
past == <<late, refused, ran, events>>
consoleVars == <<engine, up, base, tableView, req, script, past, count>>

None == "none"
Engines  == {"mysql", "postgres", "sqlite", "mongodb", "redis", "mssql", "oracle", "cassandra"}
SqlForms == {"mysql", "postgres", "sqlite", "mssql", "oracle"}
Plain    == {"oracle", "redis"}       \* answered without maskPIIData
Texts    == {"mysql", "cassandra"}    \* answered as text, so every value is a string
ByFile   == {"mongodb", "oracle"}     \* sh -c "cat > /tmp/...; client /tmp/..."
Shelled  == Engines \ {"sqlite", "redis"}
Editable == Engines \ {"oracle", "cassandra"}

\* A personal value in clear is a string, or something else (a number, strings
\* in an array): "raw". "text" is the word NULL.
Email == {"null", "clear", "raw", "mask", "text"}
Personal == IF engine \in Plain THEN {"clear"} ELSE {"clear", "raw"}
Age   == {"num", "word"}
Row   == [email : Email, age : Age]
NoRow == [email |-> None, age |-> None]
Empty == [k \in Keys |-> NoRow]
Kinds == {"read", "insert", "update", "delete", "shell"}
Shut  == [kind |-> None]

\* A request: tab tells the shell tab from the terminal, ok and rows are its answer.
Request(kind, c, k, row, tab, no, stage) ==
    [kind |-> kind, coll |-> c, key |-> k, row |-> row, tab |-> tab, no |-> no,
     stage |-> stage, ok |-> FALSE, rows |-> Empty]
Idle == Request(None, None, 0, NoRow, FALSE, 0, None)

ConsoleInit ==
    /\ engine \in DbTypes \cap Engines /\ up = TRUE
    /\ table \in [Collections -> {Empty} \cup
                    {[Empty EXCEPT ![1] = [email |-> e, age |-> "num"]] : e \in Personal}]
    /\ rtype = [c \in Collections |-> IF engine # "redis" \/ table[c] = Empty THEN None ELSE "hash"]
    /\ active = None /\ data = [coll |-> None, rows |-> Empty] /\ loading = FALSE
    /\ form = Shut /\ shell = FALSE
    /\ req = [s \in Slots |-> Idle] /\ script = [k \in Kinds |-> Idle]
    /\ late = {} /\ refused = {} /\ ran = {} /\ count = 0 /\ events = 0

-----------------------------------------------------------------------------
(***************************************************************************)
(* The page.                                                               *)
(***************************************************************************)
Send(s, kind, c, k, row, tab) ==
    /\ count < MaxRequests /\ req[s] = Idle
    /\ req' = [req EXCEPT ![s] = Request(kind, c, k, row, tab, count + 1, "inspect")]
    /\ count' = count + 1

HandleSelectCollection(s, c) ==
    /\ Send(s, "read", c, 0, NoRow, FALSE)
    /\ active' = c /\ loading' = TRUE
    /\ UNCHANGED <<engine, up, base, data, form, shell, script, past>>

\* The dialog asks for columns when rows of a SQL table are shown, else for JSON.
OpenInsert ==
    /\ form = Shut /\ active # None /\ ~loading
    /\ form' = [kind |-> "insert",
                columns |-> engine \in SqlForms /\ \E k \in Keys : data.rows[k] # NoRow]
    /\ UNCHANGED <<engine, up, base, active, data, loading, shell, req, script, past, count>>

\* The form has no field for the key, and sends strings; in JSON the user may give
\* the key, and a value that is no string.
HandleSubmit(s) ==
    /\ form.kind = "insert"
    /\ \E e \in {"null"} \cup (IF form.columns THEN {"clear"} ELSE Personal), a \in Age,
          k \in (IF form.columns THEN {} ELSE Keys) \cup {0} :
          Send(s, "insert", active, k, [email |-> e, age |-> a], FALSE)
    /\ UNCHANGED <<engine, up, base, tableView, script, past>>

\* The rows have their buttons unless the spinner stands in their place.
Visible(k) == ~loading /\ data.rows[k] # NoRow

HandleEditRecord(k) ==
    /\ form = Shut /\ Visible(k)
    /\ form' = [kind |-> "edit", key |-> k, shown |-> data.rows[k]]
    /\ UNCHANGED <<engine, up, base, active, data, loading, shell, req, script, past, count>>

\* Every column is sent, those the user has left alone too.
HandleSaveEdit(s) ==
    /\ form.kind = "edit"
    /\ \E a \in {form.shown.age, "word"} :
          Send(s, "update", active, form.key, [form.shown EXCEPT !.age = a], FALSE)
    /\ UNCHANGED <<engine, up, base, tableView, script, past>>

Cancel ==
    /\ form # Shut /\ form' = Shut
    /\ UNCHANGED <<engine, up, base, active, data, loading, shell, req, script, past, count>>

HandleDeleteRecord(s, k) ==
    /\ Visible(k)
    /\ Send(s, "delete", active, k, NoRow, FALSE)
    /\ UNCHANGED <<engine, up, base, tableView, script, past>>

\* The shell tab waits for its answer; the sessions of the terminal do not.
HandleRunShellQuery(s, c, k) ==
    /\ ~shell /\ shell' = TRUE
    /\ Send(s, "shell", c, k, NoRow, TRUE)
    /\ UNCHANGED <<engine, up, base, active, data, loading, form, script, past>>

HandleTerminalCommand(s, c, k) ==
    /\ Send(s, "shell", c, k, NoRow, FALSE)
    /\ UNCHANGED <<engine, up, base, tableView, script, past>>

-----------------------------------------------------------------------------
(***************************************************************************)
(* The handlers.                                                           *)
(***************************************************************************)
Stage(s, g) == req' = [req EXCEPT ![s].stage = g]
Reply(t, ok, rows) ==
    [kind |-> t.kind, coll |-> t.coll, key |-> 0, row |-> NoRow, tab |-> t.tab, no |-> t.no,
     stage |-> "answer", ok |-> ok, rows |-> rows]
AnsweredWith(s, ok, rows) == req' = [req EXCEPT ![s] = Reply(req[s], ok, rows)]
Answered(s, ok) == AnsweredWith(s, ok, Empty)
Refuse(s) == refused' = IF req[s].kind = "insert" THEN refused \cup {req[s].no} ELSE refused

FileDriven(s) ==
    IF req[s].kind = "shell" THEN engine \in Shelled ELSE engine \in ByFile
Written(s) == script' = [script EXCEPT ![req[s].kind] = req[s]]
Start(s) == Stage(s, IF FileDriven(s) THEN "write" ELSE "run")

\* A stopped container: reads answer with no rows, the others with status 400.
Inspect(s) ==
    /\ req[s].stage = "inspect"
    /\ \/ ~up /\ Answered(s, req[s].kind = "read")
          /\ IF req[s].kind = "read" THEN UNCHANGED refused ELSE Refuse(s)
       \/ up /\ req[s].kind = "insert" /\ Stage(s, "validate") /\ UNCHANGED refused
       \/ up /\ req[s].kind \in {"update", "delete"} /\ engine \notin Editable
          /\ Answered(s, FALSE) /\ Refuse(s)
       \/ up /\ req[s].kind # "insert" /\ (req[s].kind \in {"read", "shell"} \/ engine \in Editable)
          /\ Start(s) /\ UNCHANGED refused
    /\ UNCHANGED <<engine, up, base, tableView, script, late, ran, events, count>>

\* Whether the key may be missing: PostgreSQL recognises sequences and SQLite
\* primary keys, the others ask for every column that is NOT NULL.
KeyMayMiss == engine \in {"sqlite", "postgres", "mongodb", "cassandra", "redis"}

ValidateDbRecord(r) ==
    /\ engine \in SqlForms /\ r.key = 0 => KeyMayMiss
    /\ CASE engine = "redis"   -> TRUE
         [] engine = "mongodb" -> \* the types of the first document
              Empty # table[r.coll] =>
                  LET f == CHOOSE k \in Keys : table[r.coll][k] # NoRow
                  IN  table[r.coll][f].age = r.row.age
         [] OTHER              -> r.row.age # "word"

\* Mutant: the statement is written before the row is checked.
ValidateWritten(s) ==
    /\ req[s].stage = "validate"
    /\ Written(s)
    /\ IF ValidateDbRecord(req[s])
       THEN Start(s) /\ UNCHANGED refused
       ELSE Answered(s, FALSE) /\ Refuse(s)
    /\ UNCHANGED <<engine, up, base, tableView, late, ran, events, count>>
Validate(s) ==
    /\ req[s].stage = "validate"
    /\ IF ValidateDbRecord(req[s])
       THEN Start(s) /\ UNCHANGED refused
       ELSE Answered(s, FALSE) /\ Refuse(s)
    /\ UNCHANGED <<engine, up, base, tableView, script, late, ran, events, count>>

WriteFile(s) ==
    /\ req[s].stage = "write"
    /\ Written(s) /\ Stage(s, "run")
    /\ UNCHANGED <<engine, up, base, tableView, past, count>>

-----------------------------------------------------------------------------
(***************************************************************************)
(* What a statement does.  The engine refuses what its schema forbids; the *)
(* handlers answer success all the same.                                   *)
(***************************************************************************)
Stores(row) ==
    engine \in {"mongodb", "redis", "sqlite"} \/ row.age = "num"

Free(c) == {k \in Keys : table[c][k] = NoRow}
Least(S) == CHOOSE k \in S : \A l \in S : k <= l

Inserted(t) ==
    LET k == IF t.key = 0 /\ Free(t.coll) # {} THEN Least(Free(t.coll)) ELSE t.key
    IN  IF k \in Free(t.coll) /\ Stores(t.row)
        THEN [table EXCEPT ![t.coll][k] = t.row] ELSE table

Upserted(t) == [table EXCEPT ![t.coll][t.key] = t.row]
Updated(t) ==
    IF table[t.coll][t.key] # NoRow /\ Stores(t.row)
    THEN [table EXCEPT ![t.coll][t.key] = t.row] ELSE table

Deleted(t) == [table EXCEPT ![t.coll][t.key] = NoRow]

\* Redis: SET of a lone value, HSET of fields; DEL takes the whole key.
RedisSet(t, type) ==
    /\ table' = [table EXCEPT ![t.coll] = [Empty EXCEPT ![1] = t.row]]
    /\ rtype' = [rtype EXCEPT ![t.coll] = type]
RedisRun(t) ==
    CASE t.kind = "insert" /\ t.row.email = "null" -> RedisSet(t, "string")
      [] t.kind = "insert" /\ t.row.email # "null" ->
           IF rtype[t.coll] \in {None, "hash"} THEN RedisSet(t, "hash") ELSE UNCHANGED base
      [] t.kind = "update" -> RedisSet(t, IF rtype[t.coll] = "hash" THEN "hash" ELSE "string")
      [] OTHER ->
           table' = [table EXCEPT ![t.coll] = Empty] /\ rtype' = [rtype EXCEPT ![t.coll] = None]

Execute(t) ==
    /\ ran' = IF t.kind = "insert" THEN ran \cup {t.no} ELSE ran
    /\ IF t.kind = "read" THEN UNCHANGED base
       ELSE IF engine = "redis" THEN RedisRun(t)
       ELSE /\ table' = CASE t.kind = "insert" -> Inserted(t)
                          [] t.kind = "update" -> Updated(t)
                          [] OTHER             -> Deleted(t)
            /\ UNCHANGED rtype

\* In a printed table a null is a word, and everything else a string too.
Printed(row) ==
    IF engine \notin Texts THEN row
    ELSE CASE row.email = "null" -> [row EXCEPT !.email = "text"]
           [] row.email = "raw"  -> [row EXCEPT !.email = "clear"]
           [] OTHER              -> row
\* Mutant: the rows of MySQL are not masked.
MaskJsonOnly(row) ==
    IF row # NoRow /\ row.email = "clear" /\ engine # "mysql" THEN [row EXCEPT !.email = "mask"] ELSE row
\* Only strings are masked by their key: other values go through as they are.
MaskPIIData(row) == IF row # NoRow /\ row.email = "clear" THEN [row EXCEPT !.email = "mask"] ELSE row
Shown(row) ==
    IF row = NoRow THEN NoRow
    ELSE IF engine \in Plain THEN Printed(row) ELSE MaskPIIData(Printed(row))

\* The client reads the file again: the text is the last one written.
Text(s) == IF FileDriven(s) THEN script[req[s].kind] ELSE req[s]

RunStatement(s) ==
    /\ req[s].stage = "run" /\ up
    /\ Execute(Text(s))
    /\ AnsweredWith(s, TRUE, IF req[s].kind = "read"
                             THEN [k \in Keys |-> Shown(table[Text(s).coll][k])] ELSE Empty)
    /\ UNCHANGED <<engine, up, tableView, script, late, refused, events, count>>

\* The container goes away: the exec throws, or its stream ends once it runs.
ExecFails(s) ==
    /\ req[s].stage \in {"write", "run"} /\ ~up
    /\ \/ ~(FileDriven(s) /\ req[s].stage = "run") /\ Answered(s, FALSE) /\ Refuse(s)
       \/ req[s].stage = "run" /\ Answered(s, TRUE) /\ UNCHANGED refused
    /\ UNCHANGED <<engine, up, base, tableView, script, late, ran, events, count>>

\* Mutant: the timer covers the writing of the statement and not its run.
TimeoutBeforeRun(s) ==
    /\ req[s].kind = "shell" /\ req[s].stage = "write"
    /\ Answered(s, TRUE)
    /\ UNCHANGED <<engine, up, base, tableView, script, past, count>>
\* runExecWithTimeout of a shell query: 15 s, then the answer is what came so far.
ExecTimeout(s) ==
    /\ req[s].kind = "shell" /\ req[s].stage \in {"write", "run"}
    /\ Answered(s, TRUE)
    /\ late' = IF req[s].stage = "run" THEN late \cup {Text(s)} ELSE late
    /\ UNCHANGED <<engine, up, base, tableView, script, refused, ran, events, count>>

\* It goes on in the container, with nobody to read its output.
LateStatement ==
    /\ up
    /\ \E t \in late : Execute(t) /\ late' = late \ {t}
    /\ UNCHANGED <<engine, up, tableView, req, script, refused, events, count>>

-----------------------------------------------------------------------------
(***************************************************************************)
(* The answer at the page.  A finished write selects the collection it was *)
(* started from again, in the slot of its own request.                     *)
(***************************************************************************)
Reread(s) ==
    /\ req' = [req EXCEPT ![s] = Request("read", req[s].coll, 0, NoRow, FALSE, 0, "inspect")]
    /\ active' = req[s].coll /\ loading' = TRUE
    /\ form' = IF req[s].kind = "delete" THEN form ELSE Shut

\* Mutant: a read that failed leaves the spinner on.
ReadAnswerKept(s) ==
    /\ req[s].stage = "answer" /\ req[s].kind = "read"
    /\ req' = [req EXCEPT ![s] = Idle]
    /\ IF req[s].ok THEN data' = [coll |-> req[s].coll, rows |-> req[s].rows] /\ loading' = FALSE
       ELSE UNCHANGED <<data, loading>>
    /\ UNCHANGED <<engine, up, base, active, form, shell, script, past, count>>
ReadAnswer(s) ==
    /\ req[s].stage = "answer" /\ req[s].kind = "read"
    /\ req' = [req EXCEPT ![s] = Idle]
    /\ data' = IF req[s].ok THEN [coll |-> req[s].coll, rows |-> req[s].rows] ELSE data
    /\ loading' = FALSE
    /\ UNCHANGED <<engine, up, base, active, form, shell, script, past, count>>

ShellAnswer(s) ==
    /\ req[s].stage = "answer" /\ req[s].kind = "shell"
    /\ req' = [req EXCEPT ![s] = Idle]
    /\ shell' = (shell /\ ~req[s].tab)
    /\ UNCHANGED <<engine, up, base, active, data, loading, form, script, past, count>>

WriteAnswer(s) ==
    /\ req[s].stage = "answer" /\ req[s].kind \in {"insert", "update", "delete"}
    /\ IF req[s].ok THEN Reread(s)
       ELSE req' = [req EXCEPT ![s] = Idle] /\ UNCHANGED <<active, loading, form>>
    /\ UNCHANGED <<engine, up, base, data, shell, script, past, count>>

\* External: the preview stops and starts; the application writes its tables.
Container ==
    /\ events < MaxEvents /\ events' = events + 1
    /\ up' = ~up
    /\ UNCHANGED <<engine, base, tableView, req, script, late, refused, ran, count>>

Application(c, k) ==
    /\ events < MaxEvents /\ events' = events + 1
    /\ up /\ (engine = "redis" => rtype[c] \in {None, "list"})
    /\ \E e \in IF engine = "redis" THEN {"null"} ELSE Personal :
         table' = [table EXCEPT ![c][k] = IF @ = NoRow THEN [email |-> e, age |-> "num"] ELSE NoRow]
    /\ rtype' = IF engine # "redis" THEN rtype
                ELSE [rtype EXCEPT ![c] = IF table'[c] = Empty THEN None ELSE "list"]
    /\ UNCHANGED <<engine, up, tableView, req, script, late, refused, ran, count>>

ConsoleNext ==
    \/ \E s \in Slots, c \in Collections : HandleSelectCollection(s, c)
    \/ OpenInsert \/ Cancel
    \/ \E s \in Slots : HandleSubmit(s) \/ HandleSaveEdit(s)
    \/ \E k \in Keys : HandleEditRecord(k)
    \/ \E s \in Slots, k \in Keys : HandleDeleteRecord(s, k)
    \/ \E s \in Slots, c \in Collections, k \in Keys :
          HandleRunShellQuery(s, c, k) \/ HandleTerminalCommand(s, c, k)
    \/ \E s \in Slots : \/ Inspect(s) \/ Validate(s) \/ WriteFile(s) \/ RunStatement(s)
                        \/ ExecFails(s) \/ ExecTimeout(s)
                        \/ ReadAnswer(s) \/ ShellAnswer(s) \/ WriteAnswer(s)
    \/ LateStatement
    \/ Container
    \/ \E c \in Collections, k \in Keys : Application(c, k)

ConsoleSpec == ConsoleInit /\ [][ConsoleNext]_consoleVars

\* Docker answers an inspection and the timer fires; a statement may run for ever.
ConsoleFairSpec ==
    /\ ConsoleSpec
    /\ \A s \in Slots :
        /\ WF_consoleVars(Inspect(s))
        /\ WF_consoleVars(ExecTimeout(s))
        /\ WF_consoleVars(ShellAnswer(s))

-----------------------------------------------------------------------------
(***************************************************************************)
(* Properties.                                                             *)
(***************************************************************************)
\* Types of the variables.
TypeOK ==
    /\ engine \in Engines /\ up \in BOOLEAN
    /\ table \in [Collections -> [Keys -> Row \cup {NoRow}]]
    /\ rtype \in [Collections -> {None, "hash", "list", "string"}]
    /\ active \in Collections \cup {None} /\ data.rows \in [Keys -> Row \cup {NoRow}]
    /\ loading \in BOOLEAN /\ shell \in BOOLEAN /\ form.kind \in {None, "insert", "edit"}
    /\ \A s \in Slots : req[s].kind \in Kinds \cup {None}
    /\ refused \cup ran \subseteq 0..MaxRequests /\ count \in 0..MaxRequests

\* Outside Oracle and Redis the table view never holds a personal string in clear,
\* whoever wrote the row and whatever answer came late; where the rows are read
\* from text, it holds nothing personal in clear.
Masked == IF engine \in Texts THEN {"clear", "raw"} ELSE {"clear"}
MaskedIsNotShown ==
    engine \notin Plain => \A k \in Keys : data.rows[k].email \notin Masked

\* An insert that was answered with a validation error is never stored, not by
\* another request that shares its file either.
RefusedIsNotStored == refused \cap ran = {}

\* "Loading" is shown only while a request will still take it away.
LoadingHasReader == loading => \E s \in Slots : req[s].kind = "read"

\* The shell tab is usable again, even when the statement never ends.
ShellAnswers == shell ~> ~shell

\* devops.controller.js:1452, "Filter out null values so auto-increment/serial
\* columns can use their DB defaults": no insert of the column form is refused
\* when every column of the form is filled.
DefaultsAreUsed ==
    [][\A s \in Slots :
         req[s].stage = "validate" /\ req[s].key = 0 /\ req[s].row.age = "num"
         => req[s].no \notin refused']_consoleVars

\* What the console does not promise (README, section 6).
NothingPersonalIsShown ==
    engine \notin Plain => \A k \in Keys : data.rows[k].email \notin {"clear", "raw"}
RowsAreOfTheActive == ~loading /\ active # None => data.coll \in {active, None}
StatementsAreOwn == \A s \in Slots : req[s].stage = "run" => Text(s).no = req[s].no
AnsweredIsDone == late = {}
SaveNeverRevives ==
    [][\A s \in Slots : req[s].kind = "update" /\ req[s].stage = "run" /\ req'[s].stage = "answer"
         => \A c \in Collections, k \in Keys : table'[c][k] # NoRow => table[c][k] # NoRow]_consoleVars
MasksAreNotStored == \A c \in Collections, k \in Keys :
    table[c][k] # NoRow => table[c][k].email \in {"null", "clear", "raw"}
=============================================================================
