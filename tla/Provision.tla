------------------------------ MODULE Provision ------------------------------
(***************************************************************************)
(* What spawnPreview prepares before it starts the container of an         *)
(* application (Web/backend/src/services/process-manager.service.js): the  *)
(* databases the workspace needs, in containers of their own on a network  *)
(* of the job, the environment the application gets, and, for a React      *)
(* client with an Express server, the proxy in front of the two.           *)
(*                                                                         *)
(* An environment variable is a record: its key, the class of the key, the *)
(* form of its value when the value names the local machine, the port in   *)
(* it, and the kind of database that the key or the value gives away.      *)
(* Docker and the databases are external: every call may fail.             *)
(***************************************************************************)
EXTENDS Naturals, Sequences, SequencesExt

CONSTANTS
    EnvVars,      \* variables a workspace may define
    MaxVars,      \* bound: variables in one .env file
    Selectable,   \* dbInitType of the deployment: "none", "sqlite" or a kind
    MaxStarts     \* bound: starts of the job in a behaviour

Kinds == {"mysql", "postgres", "mongodb", "redis", "qdrant", "chroma",
          "cassandra", "mssql", "oracle", "mariadb"}

PortOf(k) ==
    CASE k \in {"mysql", "mariadb"} -> 3306
      [] k = "postgres"  -> 5432
      [] k = "mongodb"   -> 27017
      [] k = "redis"     -> 6379
      [] k = "qdrant"    -> 6333
      [] k = "chroma"    -> 8000
      [] k = "cassandra" -> 9042
      [] k = "mssql"     -> 1433
      [] k = "oracle"    -> 1521

VARIABLES
    dotenv,      \* the .env file of the workspace, a set of variables
    choice,    \* dbInitType
    script,    \* the deployment has a dbInitScript
    temp,      \* useTempDb
    mern,      \* a client directory beside or below an Express server
    php,       \* host literals of the PHP files: "none", "local", "patched"
    wanted,    \* requiredDbs
    db,        \* the database containers of the job
    network,   \* networkName
    next,      \* index in wanted of the database that is provisioned next
    seeded,    \* how often the script has run in each database
    env,       \* finalEnv: key and target of every variable
    client,    \* the client build in the container
    proxy,     \* devops-proxy.js in the container
    server,    \* the server in the container
    bundle,    \* the client build leaves dist/ or build/
    answer,    \* what the health check was answered with
    starts,
    step

given == <<dotenv, choice, script, temp, mern, bundle>>
inside == <<client, proxy, server, answer>>
all == <<dotenv, choice, script, temp, mern, php, wanted, db, network, next, seeded,
         env, client, proxy, server, bundle, answer, starts, step>>

\* parseEnvFile: a key has one value, the last line wins.
EnvFiles == {s \in SUBSET EnvVars :
               \A v, w \in s : v.key = w.key => v = w}
SmallEnvFiles == {s \in EnvFiles : \E f \in [1..MaxVars -> EnvVars] : s \subseteq {f[i] : i \in 1..MaxVars}}

ProvisionInit ==
    /\ dotenv \in SmallEnvFiles
    /\ choice \in Selectable
    /\ script \in BOOLEAN /\ temp \in BOOLEAN /\ mern \in BOOLEAN
    /\ php \in IF mern THEN {"none"} ELSE {"none", "local"}
    /\ wanted = <<>> /\ network = "bridge" /\ next = 1 /\ env = {}
    /\ db = [k \in Kinds |-> "absent"]
    /\ seeded = [k \in Kinds |-> 0]
    /\ client = "none" /\ proxy = "down" /\ server = "down"
    /\ bundle \in (IF mern THEN BOOLEAN ELSE {FALSE})
    /\ answer = "none"
    /\ starts = 1 /\ step = "php"

-----------------------------------------------------------------------------
(***************************************************************************)
(* Databases.                                                              *)
(***************************************************************************)
\* detectRequiredDatabases tests the kinds one by one.
Named(file) ==
    LET If(k) == IF \E v \in file : v.kind = k THEN <<k>> ELSE <<>>
    IN If("mysql") \o If("postgres") \o If("mongodb") \o If("redis") \o If("qdrant")
       \o If("chroma") \o If("cassandra") \o If("mssql") \o If("oracle") \o If("mariadb")

WithChoice(seq) ==
    IF choice \notin Kinds \/ Contains(seq, choice) THEN seq ELSE Append(seq, choice)

\* patchPhpConfigs: every quoted local host becomes the MySQL container; the
\* replacement names a second group that the expression has not, so that the
\* closing quote of the literal is lost.
PatchPhp ==
    /\ step = "php"
    /\ php' = IF php = "local" /\ temp THEN "patched" ELSE php
    /\ step' = "detect"
    /\ UNCHANGED <<given, wanted, db, network, next, seeded, env, inside, starts>>

DetectDatabases ==
    /\ step = "detect"
    /\ wanted' = IF temp THEN WithChoice(Named(dotenv)) ELSE <<>>
    /\ network' = "bridge" /\ next' = 1
    /\ step' = IF wanted' = <<>> THEN "env" ELSE "network"
    /\ UNCHANGED <<given, php, db, seeded, env, inside, starts>>

\* The catch of the whole block: what was created stays.
FallBack ==
    /\ network' = "bridge"
    /\ step' = "env"

CreateNetwork ==
    /\ step = "network"
    /\ \/ network' = "isolated" /\ step' = "database"
       \/ FallBack
    /\ UNCHANGED <<given, php, wanted, db, next, seeded, env, inside, starts>>

Current == wanted[next]

\* The start of an existing container may fail unnoticed.
StartExisting ==
    /\ step = "database" /\ next <= Len(wanted)
    /\ db[Current] # "absent"
    /\ db' \in {db, [db EXCEPT ![Current] = "up"]}
    /\ step' = "seed"
    /\ UNCHANGED <<given, php, wanted, network, next, seeded, env, inside, starts>>

\* Mutant: a database that failed is passed over.
CreateDatabaseTolerant ==
    /\ step = "database" /\ next <= Len(wanted)
    /\ db[Current] = "absent"
    /\ db' \in {db, [db EXCEPT ![Current] = "up"]} /\ step' = "seed"
    /\ UNCHANGED <<given, php, wanted, network, next, seeded, env, inside, starts>>

\* Pull, create and start; each may fail.
CreateDatabase ==
    /\ step = "database" /\ next <= Len(wanted)
    /\ db[Current] = "absent"
    /\ \/ db' = [db EXCEPT ![Current] = "up"] /\ step' = "seed" /\ UNCHANGED network
       \/ db' \in {db, [db EXCEPT ![Current] = "down"]} /\ FallBack
    /\ UNCHANGED <<given, php, wanted, next, seeded, env, inside, starts>>

\* The kinds whose script has a file name and whose client is called with the
\* password the container was created with.
Seedable == Kinds \ {"mariadb", "mssql", "oracle"}

\* The readiness poll gives up after its tries; the script runs whenever the
\* deployment has one, also in a database that kept its state.
SeedDatabase ==
    /\ step = "seed"
    /\ seeded' \in IF script /\ db[Current] = "up" /\ Current \in Seedable
                   THEN {seeded, [seeded EXCEPT ![Current] = @ + 1]}
                   ELSE {seeded}
    /\ next' = next + 1
    /\ step' = "database"
    /\ UNCHANGED <<given, php, wanted, db, network, env, inside, starts>>

AllProvisioned ==
    /\ step = "database" /\ next > Len(wanted)
    /\ step' = "env"
    /\ UNCHANGED <<given, php, wanted, db, network, next, seeded, env, inside, starts>>

-----------------------------------------------------------------------------
(***************************************************************************)
(* finalEnv.                                                               *)
(***************************************************************************)
\* dbHostMap: of two databases with one port the later one has it.
HostFor(port) ==
    LET on == {i \in DOMAIN wanted : PortOf(wanted[i]) = port}
    IN wanted[CHOOSE i \in on : \A j \in on : j <= i]

Serves(port) == \E i \in DOMAIN wanted : PortOf(wanted[i]) = port

Target(v) ==
    IF v.class \in {"page", "client"} THEN "local"
    ELSE IF v.form \in {"url", "hostport"} /\ Serves(v.port) THEN HostFor(v.port)
    ELSE IF wanted # <<>> /\ v.class = "host" /\ v.form = "bare" THEN wanted[1]
    ELSE IF v.form = "url" THEN "dockerhost"
    ELSE "local"

\* The variables an application of each kind usually reads.
Usual(k) ==
    CASE k = "mongodb"  -> {"MONGODB_URI", "MONGO_URI"}
      [] k = "postgres" -> {"DATABASE_URL", "POSTGRES_URI"}
      [] k = "mysql"    -> {"DATABASE_URL", "MYSQL_URI"}
      [] k = "redis"    -> {"REDIS_URL", "REDIS_URI"}
      [] OTHER          -> {}

Setting(key, target) == [key |-> key, target |-> target]

\* The variables that the spawn sets, whatever the file says of them.
Own == {Setting(key, "local") : key \in {"PORT", "SERVER_PORT", "NODE_ENV"}}

FromFile ==
    {Setting(v.key, Target(v)) : v \in {w \in dotenv : w.key \notin {x.key : x \in Own}}}

Missing == (UNION {Usual(wanted[i]) : i \in DOMAIN wanted}) \ {x.key : x \in FromFile}

\* Of two databases with one usual variable the earlier one provides it.
Provider(key) ==
    LET of == {i \in DOMAIN wanted : key \in Usual(wanted[i])}
    IN wanted[CHOOSE i \in of : \A j \in of : i <= j]

MakeEnv ==
    /\ step = "env"
    /\ env' = Own \cup FromFile \cup {Setting(key, Provider(key)) : key \in Missing}
    /\ step' = "run"
    /\ UNCHANGED <<given, php, wanted, db, network, next, seeded, inside, starts>>

-----------------------------------------------------------------------------
(***************************************************************************)
(* The container: `build the client && run the proxy & run the server'.    *)
(***************************************************************************)
RunContainer ==
    /\ step = "run"
    /\ client' = IF mern THEN "building" ELSE "none"
    /\ proxy' = "down" /\ server' = "booting" /\ answer' = "none"
    /\ step' = "live"
    /\ UNCHANGED <<given, php, wanted, db, network, next, seeded, env, starts>>

BuildClient ==
    /\ step = "live" /\ client = "building"
    /\ client' \in {"built", "failed"}
    /\ UNCHANGED <<given, php, wanted, db, network, next, seeded, env, proxy, server, answer, starts, step>>

\* Mutant: the proxy does not wait for the client's build.
StartProxyAtOnce ==
    /\ step = "live" /\ client # "none" /\ proxy = "down"
    /\ proxy' = "up"
    /\ UNCHANGED <<given, php, wanted, db, network, next, seeded, env, client, server, answer, starts, step>>

StartProxy ==
    /\ step = "live" /\ client = "built" /\ proxy = "down"
    /\ proxy' = "up"
    /\ UNCHANGED <<given, php, wanted, db, network, next, seeded, env, client, server, answer, starts, step>>

ServerListens ==
    /\ step = "live" /\ server = "booting"
    /\ server' = "up"
    /\ UNCHANGED <<given, php, wanted, db, network, next, seeded, env, client, proxy, answer, starts, step>>

FromServer == IF server = "up" THEN "server" ELSE "badgateway"

\* The proxy answers the preflight itself, sends an API path to the server and
\* any other path to the bundle, or again to the server if there is none.
Route(path) ==
    CASE path = "preflight" -> "cors"
      [] path = "api"       -> FromServer
      [] path = "outside"   -> "forbidden"
      [] OTHER              -> IF bundle THEN "file" ELSE FromServer

\* waitForHttpReady: the first answer on the port is good, whatever it says.
HealthProbe ==
    /\ step = "live" /\ answer = "none"
    /\ IF mern THEN proxy = "up" ELSE server = "up"
    /\ answer' = IF mern THEN Route("page") ELSE "server"
    /\ UNCHANGED <<given, php, wanted, db, network, next, seeded, env, client, proxy, server, starts, step>>

\* The server is the process of the container: with it the container ends.
ServerDies ==
    /\ step = "live" /\ server # "down"
    /\ server' = "down" /\ proxy' = "down" /\ client' = "none" /\ answer' = "none"
    /\ step' = "exited"
    /\ UNCHANGED <<given, php, wanted, db, network, next, seeded, env, starts>>

\* A next spawn finds the databases as the last one left them, or stopped, or
\* cleaned up with their network by the exit handler.
SpawnAgain ==
    /\ step = "exited" /\ starts < MaxStarts
    /\ starts' = starts + 1
    /\ db' \in {db, [k \in Kinds |-> IF db[k] = "absent" THEN "absent" ELSE "down"],
                [k \in Kinds |-> "absent"]}
    /\ env' = {} /\ step' = "php"
    /\ UNCHANGED <<given, php, wanted, network, next, seeded, inside>>

ProvisionNext ==
    \/ PatchPhp \/ DetectDatabases \/ CreateNetwork \/ StartExisting
    \/ CreateDatabase \/ SeedDatabase \/ AllProvisioned \/ MakeEnv
    \/ RunContainer \/ BuildClient \/ StartProxy \/ ServerListens
    \/ HealthProbe \/ ServerDies \/ SpawnAgain

ProvisionSpec == ProvisionInit /\ [][ProvisionNext]_all

-----------------------------------------------------------------------------
(***************************************************************************)
(* An application on the job's network is only sent to databases that      *)
(* exist there: the environment and the containers are made by different   *)
(* stages, and a failure between them leaves some containers out.          *)
(***************************************************************************)
EnvNamesDatabases ==
    step \in {"run", "live"} /\ network = "isolated" =>
        \A e \in env : e.target \in Kinds => db[e.target] # "absent"

(***************************************************************************)
(* The health check of a React client with an Express server is answered   *)
(* only once the client is built (comment at                               *)
(* process-manager.service.js:907), although server and build run side by  *)
(* side.                                                                   *)
(***************************************************************************)
ReadyAfterBuild == answer # "none" /\ mern => client = "built"

(***************************************************************************)
(* What the health check takes for the application is the application, not *)
(* the proxy's report that it does not answer.                             *)
(***************************************************************************)
HealthyIsServed == answer # "badgateway"

(***************************************************************************)
(* "Falling back to host databases" (process-manager.service.js:1177): an  *)
(* application on the bridge network, where the names of the job's         *)
(* containers do not resolve, is not sent to them.                         *)
(***************************************************************************)
FallbackUsesHost ==
    step = "live" /\ network = "bridge" => \A e \in env : e.target \notin Kinds

(***************************************************************************)
(* A variable of the file that names a database by its port leads to the   *)
(* database of its kind, not to another one on that port.                  *)
(***************************************************************************)
OwnDatabase ==
    step \in {"run", "live"} =>
        \A v \in dotenv, e \in env :
            e.key = v.key /\ Serves(v.port) /\ v.kind \in ToSet(wanted) /\ e.target \in Kinds
                => e.target = v.kind

(***************************************************************************)
(* "Starting existing database container to preserve state" (line 981): a  *)
(* database that kept its state is not initialised a second time.          *)
(***************************************************************************)
SeededOnce == \A k \in Kinds : db[k] # "absent" => seeded[k] <= 1
=============================================================================
