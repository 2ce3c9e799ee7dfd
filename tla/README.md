# A TLA+ development for the Next-Gen IDS/IPS

This directory holds TLA+ models of the system under `src/`, TLC configurations
that check them on small instances, and theorems checked by TLAPS for every
value of the constants.

The files are `<Component>.tla` (the model and its properties), `MC<Component>.tla`
with `<Component>.cfg` (an instance for TLC), and `<Part>Proofs.tla` (theorems about
the components of one part of the system). `PROJECT.json` lists the runs, the source
lines each definition stands for, the hazards, the finding and, for each checked
property, a mutant of the code that breaks it. The mutated forms are in the modules,
each before the definition it replaces, under a comment that starts with "Mutant".

## 1. Inventory

The system is a firewall agent in Go (`src/Security`), an Express backend with
MongoDB and Redis (`src/Web/backend`), a React frontend (`src/Web/frontend`),
Python code that trains and serves models (`src/Security/ML`) and scripts
(`src/DevOps`). The parts that decide something are these.

| Part | State | Operations | What is hard | What makes it correct |
|---|---|---|---|---|
| TCP proxy (`Security/proxy/{listener,forwarder,proxy}.go`) | one handler and two relays per connection, registry of live connections, WaitGroups, counters, contexts | accept, reputation gate, first read, dial, relay, kill, stop | kills and shutdown at any step, relays sharing a record, deadlines on reads but not on writes | one final record per connection, nothing forwarded uninspected, exact counts, kill and stop end things |
| UDP relay (`proxy/listener.go`) | session table (`sync.Map`), sockets, idle times | datagram in, response out, timeout, cleanup, close | three goroutines delete by key without a common lock | the table leads to open sockets, every socket has somebody who closes it |
| Detection bus (`detect/detection.go`, `behavioral.go`, `main.go`) | subscriber list and its RWMutex, DNS batch and its mutex, the behavioural engine's mutex | emit, subscribe, feature drain | callbacks under locks, locks taken in two orders, writer preference | who holds the engine's lock never waits, emissions end |
| Flow tracker and correlator (`detect/flow_tracker.go`, `flow_correlator.go`) | flow table, expiry, channels, half-joined records | packet in, expiry, eviction, join | both directions share a record, bounded channels drop | a session enters one vector, no half stays |
| Previews (`process-manager.service.js`) | list of running previews, rebuild flags, reserved ports, containers, documents | spawn, fall back, stop, move, delete, watchdog, exit handlers | a dozen awaits per call, handlers that work by job and not by container, restart | an entry is watched, a flag has a holder, a spawn settles, a death is noticed |
| Provisioning (`process-manager.service.js`) | databases of a job, their network, the environment, the proxy of a client and a server | detect, start or create, seed, write the environment, health check | names that resolve on one network only, second starts | the environment names what exists, the proxy waits for the build |
| Build pipeline (`pipeline-runner.service.js`, `interaction-manager.service.js`, `pruning.service.js`) | stage of each build, document, workspace, archive, pending choices, attempts | upload, import, build, heal, scan, package, settle, choose, delete, prune | the choice races its timeout, commands fail at will, a deletion in three steps meanwhile, crash | a pipeline ends, once, with its artifact on disk |
| Framework catalogue (`framework-detector.service.js`, `services/frameworks`) | forty-nine plugins in an order, the detection of each deployment | detect, build, spawn by five callers | plugins that match the same workspace, healing after the detection, callers that forget it | the specific plugin first, a command its image has, respawned as built |
| Agent chat (`agent-loop.service.js`, `agent/helpers.js`, `Agent.jsx`) | loop, saved loop state, chats, patches, command history, consent | send, approve, patch, run, resume, roll back, regenerate | two requests in flight, a loop resumed later, consent of an earlier moment, commands told apart by their first word | no command without consent or for ever, patches can be undone |
| Database console (`devops.controller.js`, `Agent.jsx`) | table of the container, its masked copy on the page, dialogs, files of statements | read, insert, update, delete, shell | answers out of order, shared statement files, masked values edited | what is masked is not shown, what is refused is not stored |
| File editor (`Agent.jsx`, `devops.controller.js`) | workspaces, tabs, buffer, captured renders | open, edit, save by button, key or blur, create, rename, delete | handlers of older renders, requests that end after the selection moved | tabs are distinct, a rename loses nothing, saving ends |
| Sign-in gate (`captcha.middleware.js`, `rateLimiter.js`, `Login.jsx`, `AdminLogin.jsx`, `Register.jsx`) | counters in Redis, challenges, lockouts of the forms | submit, solve, admit, refuse | counters shared by an office, failures of Redis between two commands | whoever knows the password gets in |
| Deployment page (`DevOps.jsx`) | history, panel of the active build, question with countdown, rooms | upload, import, select, answer, start, stop, move, delete | events of every room, one window for all questions | an answer is about its own build |
| Accounts (`auth.controller.js`, `github.controller.js`, `admin.controller.js`) | users, administrators, one-time codes, sessions | register, sign in, reset, link, promote, ban | a handler awaits between its test and its write; two collections | a code proves one reset, an old password is dead |
| Enrolment and reports (`node.controller.js`, `agent.middleware.js`, `agent.controller.js`, `socket.js`) | tokens, nodes, credentials, reports, dashboards | enrol, revoke, report, join, show | a restart between two awaits, late requests | a token serves once, a revoked node is silent |
| Reputation, blocklist, windows, graph engine, ML client, streamers, analyzers, eBPF, pages of records, ML, scripts | section 7 | | | |

How the parts interact. A packet reaches the agent twice: the kernel's ring
buffer delivers its header to the flow tracker, and the proxy's sockets deliver
its bytes to the TCP proxy or the UDP relay, which hand them to the analyzers
before they forward them. Analyzers report on the detection bus, which calls
every subscriber on the reporting goroutine. The end of a proxied SSH
connection leaves a session record that the correlator joins with the flow
record of the same connection. An enrolled agent posts what it found to the
backend, which stores it and sends it to the dashboards.

A build enters by the deployment page, is detected by the catalogue, built by
the pipeline and spawned by the process manager, which provisions its
databases. From then on its document, its workspace and its container are
shared by the watchdog, the pruner, the user's requests and the agent, which
edits the workspace, runs commands in the container and asks for respawns. The
file editor and the database console work on the same workspace and container.
Every page is behind the sign-in gate and an account.

## 2. Plan

The order in which the modules were written, and what composes what:

1. `UdpRelay`, `TcpProxy`: the two data paths of the agent. `DetectionBus`: the
   callbacks and locks between everything that reports. `FlowFeatures`: flow
   table, correlator and the channels between them.
2. `Previews`, `Pipelines` with the abstract `BuildLife` it implements,
   `Provision`, `Frameworks` and `Catalogue`: the deployment service.
   `MCLaunch` puts three of them side by side.
3. `AgentChat`, `DbConsole`, `Workbench`: the three panels of the agent's page
   with the handlers behind them.
4. `SignIn`, `DeployPage`, `Accounts`, `Perimeter`: who gets in, and the page
   they come to. `MCSignIn` and `MCAccess` put two of them side by side.
5. Proofs: `ProxyProofs` (both data paths), `DetectionBusProofs`,
   `FlowFeaturesProofs`, `PreviewsProofs`, `LaunchProofs` (`Pipelines`, `Provision`,
   `Catalogue`), `AgentChatProofs`, `PagesProofs` (`DbConsole`, `Workbench`,
   `DeployPage`), `AccessProofs` (`Accounts`, `Perimeter`).

What is left, in order: the circuit breaker of the ML client with its late
answers, and the streamers' buffers; the preview as an abstract machine that
`Previews` implements; the composition of `Pipelines` with `Previews` over one
document, which now meet only in the abstraction each has of the other.

## 3. Models

Each action is one atomic step of one goroutine, or the code of one handler
between two `await`s. Its comment or its name gives the code, and `map` in
`PROJECT.json` its lines.

### The agent in Go

**`UdpRelay`** (`proxy/listener.go:273-503`). `table` is the `sync.Map` of
sessions; `relayer[s]`, `server`, `cleaner` and `closer` are program counters
of the goroutines that use it. `FindSession`, `DialSession`, `StoreSession`,
`TouchSession` and `WriteDatagram` are `forwardDatagram`; `Responses*` are
`relayResponses`; `Clean*` are `cleanupSessions`, one visit of its `Range` at a
time; `CloseListener` and `Close*` are `Close`. Idleness is one bit, set at any
time by `GoIdle`: two minutes may always have passed since the last packet.

**`TcpProxy`** (`proxy/listener.go:1-270`, `forwarder.go`, `proxy.go`). `h[c]` is
where `handleConnection` is, `relay[c][d]` the two goroutines of `Forward`,
`kill[c]` the operator's `KillConnection`, `stop` and `stopAt` the engine's
`Stop`. Bytes are chunks; `seen` and `sent` count those that were analyzed and
written. The unsynchronized writes of `CloseReason` are one abstract value,
"relay". Clients and backends are the environment: they send, close, reset, and
take what is written to them or do not.

**`DetectionBus`** (`detect/detection.go`, `behavioral.go`, `graph_engine.go`,
`main.go:1146-1346`). A thread is a stack of frames, so that a callback that
emits again, within its caller's locks, is a frame above the caller's. `Readers`
and the holders of the two mutexes are computed from the stacks; `pending` is
the writer that has announced itself, which keeps readers out, as Go's
`RWMutex` does. `drain` is the DNS drain loop of the standalone (proxy-only) mode,
"off" in the integrated one; `Modes` and `Traffic` say which modes and which
traffic an instance looks at. The analyzers' thresholds are left open (a check may
or may not emit); the windows of five seconds are forgotten at any time.

**`FlowFeatures`** (`detect/flow_tracker.go`, `flow_correlator.go`,
`ssh_analyzer.go:532-604`, `main.go:870-1073`). `tracker` is what `ft.mu`
protects, with `completedCh`; `hand` and `sshHand` are the records in the two
drain goroutines; `pending` is the correlator's map; `todo` is a `Sweep` or
`FlushAll` in the middle of its loop, during which `TrackPacket` waits for the
mutex while the drain goroutine goes on. The network's rules are in `MaySend`:
a side's FIN may come twice, and two endpoints are used again only after their
last connection is over. `logged`, `tracker.dropped`, `vectors` and the `conns`
of a flow are history: the code keeps no such counts, the properties need them.

### The deployment service

**`Previews`** (`process-manager.service.js`, `devops.controller.js`). Every
asynchronous call is a member of `Tasks` with the place where it waits; `box`
is the container, which keeps its name and loses its watcher when it is
replaced; `registry` is `runningPreviews`, `rebuilding` is `rebuildInProgress`.
The exit handlers of containers and child processes run after whatever has
happened meanwhile and work by job, as the code does. `SpawnThrows` and
`HostThrows` are the errors that no `try` of `spawnPreview` catches: a lookup that
is refused or a throw between the flag and the call of Docker. They end the call
and leave what it has written. `Restart` loses what the
server keeps in memory and leaves the containers. `leaked` is history.

**`Pipelines`** (`pipeline-runner.service.js`, `interaction-manager.service.js`,
`pruning.service.js`). `pc[j]` is the stage of `runPipeline`; every command of
`build`, `heal` and `scan` succeeds or fails by choice, and so does what the
language model proposes. `SelectionTimeout` and `SubmitUserSelection` are the two
that resume a paused pipeline. `DeleteDeployment`, `DeletionCleans` and
`DeletionEnds` are the deletion between its awaits: the preview, then directory and
archive, then the document, each of which may fail. `Crash` loses every pipeline in
progress with its pending choice. A preview is reduced to up or down: `Previews` has
its steps. **`BuildLife`** is what the document of a build shows: `Phase` maps the
statuses to the phases, `listed` to the artifacts on offer.

**`Provision`** (`process-manager.service.js:560-1352`). `dotenv` and `env` are sets
of records that say of a variable what the code tests: its key, the form of its
value, the port and the kind of database in it, and, once rewritten, whom the value
names (`target`). `Own` are the settings the spawn keeps for itself, `PORT`,
`SERVER_PORT` and `NODE_ENV`, which a file does not change. `db` and `box` are the
database containers and the application's; `network` is where that one was started:
on the job's network or, when this fails, on the bridge.

**`Frameworks`** and **`Catalogue`** (`services/frameworks/*`,
`framework-detector.service.js`). A directory is a record of its marker files,
packages and scripts, and of whether it has been built; each plugin is an operator
from a directory to its detection, images and commands, and `PluginTable` the
forty-nine of them in the order the registry asks them. `Catalogue` detects as
the pipeline does, heals failed attempts (`HealPackage` adds a package to the
`package.json`, `HealFiles` writes a file), and spawns as
each of the five callers does: pipeline, start, change of port, hot reload and
watchdog, each with the directory and the detection it has at hand. `healed` and
`edited` tell whether the workspace is still the one that was detected.

### The pages and the handlers behind them

**`AgentChat`** (`agent-loop.service.js`, `agent/helpers.js`,
`devops.controller.js:1600-1990`, `Agent.jsx`). A request is a loop with its
`iter`, its pending commands and its patches; `state` is the saved loop state,
`past` the history that filters duplicates, `saved` the stored chat and `shown`
the page's copy, which differ while requests are in flight. Contents of files are
numbers of writes, and `was` (history) has for each of them what it replaced. The
language model wants anything. `Commands` change something; `Disguised` are those
among them that `isReadOnlyCommand` takes for readers, since it looks at the first
word of each part only, and that run unasked. The loop patches any file below the
root of the server's code; a rollback refuses those of them that are not in the
workspace (`Outside`), fails to write some of the others, and marks the message in
any case.

**`DbConsole`** (`devops.controller.js:1330-2624`, `Agent.jsx`). A request goes
through the stages validate, write the statement file, run, answer. `data` is
what the page shows, in clear or masked. A personal value is a string ("clear") or not
("raw": a number, strings in an array), and `maskPIIData` masks strings alone; which
engine's answer is text, in which everything is a string, and which is not masked
at all, is in `Texts` and `Plain`. `script` the statement each kind of
request has last written, which a later request of that kind overwrites;
`late` the statements that outlive their answer; `refused` and `ran` are history.

**`Workbench`** (`Agent.jsx`, `devops.controller.js`). `sel`, `file` and `buf` are
the page's current render; `keys` and `mounted` the renders the shortcut and the
blur handler have captured. Texts are numbers: that a credential is found in
one is a set.

**`SignIn`** (`captcha.middleware.js`, `rateLimiter.js`, `Login.jsx`,
`AdminLogin.jsx`, `Register.jsx`). `rate`, `expiring` and `passed` are the keys in
Redis that all requests of an address share, `hits` the limiters' counts, `form`
what each page keeps. Redis may fail between the increment of a counter and
its expiry. A request may be `Lost` before the gate, and its answer may be lost
after everything was done (`AnswerLost`): then an account exists (`made`) of which
its owner knows nothing, every new registration is refused, and the login is what
is left (`TurnToLogin`).

**`DeployPage`** (`DevOps.jsx`). The server is what the page sees of it: `doc`,
`life` and `live`. `rooms` are the rooms the socket joined and never leaves,
`modal` the one window that asks for every build, with its countdown.

**`Accounts`** (`auth.controller.js`, `github.controller.js`,
`admin.controller.js`). A handler is two or three steps: what it looked up is in
`request[t].seen` and may be old when it is used. A registration goes to the
collection of the role it names (`Asked`). `users` and `admins` are two collections,
between which a promotion copies a document. `hashes` is how often a password was
hashed: the code hashes one twice on a path of its own. History: `secret` is the
password last saved in each document of each collection, `changes` how often one was
saved or moved, `resets` and `proved` how many resets of an address had ended, by
now and when its code was last verified.

**`Perimeter`** (`node.controller.js`, `agent.middleware.js`, `agent.controller.js`,
`socket.js`). `tokens` and `nodes` are the collections, `machine` the credentials
each sensor has saved, `call` the request it waits for; `page` what each open
dashboard shows: the `Latest` detections by the time their reports give, in the
order it has them, then those that are sent to its room, which it joins once, early
or late. A fetch may be answered or fail. `served`, `silent` and the mark `late` are
history.

### Composition

`MCLaunch` puts `Pipelines`, `Catalogue` and `Provision` side by side, `MCSignIn`
does it with `SignIn` and `DeployPage`, `MCAccess` with `Accounts` and `Perimeter`.
These parts share no variable, so a behaviour is of one of them (`stage`, `part`, or
whether a form is open) and the others rest: their product would show nothing more.
`MCAccess` has behaviours of people, of sensors with one report each, revocations
and a restart, and of one sensor with three reports. What a part needs of another it
models as an environment, free to do more than the other does: `Pipelines` has a
preview that comes up or fails at any time, `Previews` a pipeline that asks for a
spawn at any time, `DeployPage` a server that ends a build as it likes.

## 4. Runs

| Run | Instance | What it shows |
|---|---|---|
| `UdpRelay` | one client, two sessions | an open socket is never out of reach, a stop ends every goroutine |
| `TcpProxy` | two connections on one listener, one flagged, one over the threshold whose server speaks first | a record is written once and with its final counts; a killed connection ends, unless its first relay waits for ever in a write to a backend that does not read |
| `DetectionBus` | both modes; two handlers and one incident, which in the integrated mode contend for the engine; a channel and batches of one | who holds the engine's lock never waits, every emission of the integrated mode ends |
| `FlowFeatures` | an SSH connection and a UDP flow that compete for one place, every capacity one | one vector per session, every half leaves the correlator |
| `Previews` | one deployment, one port, two calls at once, one restart | an entry is watched, a rebuild flag has a holder, a spawn settles, a death is noticed |
| `Launch` | one build with a crash; some 250 workspaces in five layouts, healed and edited, spawned twice; every `.env` of up to two of eight variables and two starts | the choice and its timeout, the archive on disk, `BuildLife`; the order of the plugins, the command and the image; the environment and the proxy |
| `AgentChat` | two requests, two iterations, two files (one outside the workspace), two commands (one disguised), three writes | consent, no repeated command, counted loops, undone patches, an end |
| `DbConsole` | three requests on MySQL, Postgres, Redis or Oracle, two at once | masking, refused inserts, the spinner, the shell's timeout |
| `Workbench` | three requests in two workspaces of two files, two at once | distinct tabs, a rename that loses nothing, saving ends |
| `SignIn` | two forms, or the register form, two mistakes, one fault (of Redis, or a lost request or answer); or a page with two builds | people get in; an upgrade was offered by the build's own audit |
| `Access` | three requests over one address, two documents, two codes, one restart; or one token, two machines, one report, one restart; or three reports to a dashboard that lists the latest two | one code for one reset, dead passwords; one node per token, silence after revocation, dashboards in the database |
| `Launch_RespawnedAsBuilt` | the catalogue alone | violated: the watchdog respawns everything as Next.js |

*Bounds.* A constant that bounds a behaviour, and not the system, is marked
"bound" or "(a bound)" where it is declared. The hazards of `UdpRelay` need a
client whose session is replaced once, so two sessions under one key; different
clients share nothing but the goroutine counters. In `TcpProxy` connections meet
in the counters, the registry and `Stop`, for which two suffice; the proofs have
any number of both. Of two chunks the
handler itself forwards the first, so that two are the least for which a relay waits
in a write to a backend that does not read. In `DetectionBus` two handlers are the
least of which one waits for the engine's lock the other emits under; one handler
is enough to feed the drain loop. In `FlowFeatures` every capacity is one, so
that every `default:` branch, the eviction and the overwriting of a half happen.

A preview is shared through its job: two calls are the least that interleave,
and the exit handler of what the first left behind is a third actor that needs
no call. `MaxRunning` is one, so that the limit is met. In `Launch` a build of
one job meets its choice, its timeout, its deletion and the pruner; jobs share
only the limit of builds per user. Two variables are enough for a database named
by one variable and addressed by another, and for two that compete for one key. Two
spawns are one of the pipeline and one of anybody else, after healing or an edit or
not. The eight variables of `MCEnvVars` are one of every shape the environment treats
differently.

In the pages, two requests in flight are the least that are answered in the
wrong order, and a third starts from what they have left. `AgentChat` needs two
iterations for a command proposed again, three writes for a patch on a patch, a
file on either side of the workspace's border and a command on either side of the
classifier.
The counters of `SignIn` are smaller than the code's (`Threshold` 1 for 6,
`LoginMax` 2 for 10, `RegisterMax` 1 for 5, `MaxAttempts` 2 for 5), in the same
order where they meet, and every one of them is reached. In `Access`, two
documents and two codes are needed for a document that replaces another and for
a code that is sent again; the third request starts after two have crossed. Three
reports are one more than the dashboard lists.

*Deadlock.* `UdpRelay` and `TcpProxy` are checked for it (a finished engine stutters
by an explicit step, where it may stop). It is switched off where the system
really comes to rest: the process of `FlowFeatures` exits, users have no
requests left, pipelines are over. In the standalone bus a deadlock is a
counterexample of its own (section 6), `EveryEmissionEnds`; what the run checks is
about the integrated mode.

*Fairness.* Go schedules every goroutine, so each goroutine's next step is weakly
fair. In `DetectionBus` the handlers' steps that take the engine's lock are strongly
fair, because `sync.Mutex` hands the lock to whoever has waited a millisecond; a
writer that waits for the bus keeps new readers out, so that weak fairness is
enough for it. Tickers and
read deadlines fire. Nothing is assumed of clients, servers, signals and
operators: `KilledConnectionEnds` has the backend that does not read as its
exception. With `PeersDrain`, that a peer takes what is written to it or its
connection fails, TLC also confirms `TcpProxy!StopReturns` (under `DrainSpec`, with
one chunk), which no run repeats.

Node runs every callback that is due. `Previews` has weak fairness of each
task's next step (Docker answers, with success or failure) and of the exit
handler of each child; `Pipelines` of each pipeline's next step: a command ends,
a timer fires. `DbConsole` assumes that a container is inspected, that the
timeout of `exec` fires and that an answer arrives, but no statement's end;
`AgentChat` that the model answers or fails and that commands end; `Workbench`
that requests are answered. `SignIn` assumes of the server that it answers and
of Redis that keys with a time to live expire, and strong fairness of three steps
of a person, whenever the form allows them: to press the button again with the
right password, to read an image again, and to turn to the login when a
registration does not succeed. No fairness is assumed of what a user
or an application does elsewhere.

## 5. Theorems

All proofs are checked by TLAPS without assumptions but the named ones of the
modules, which TLC evaluates in every run: that bounds and limits are numbers
(`BoundsAreNumbers`, `LimitsAreNumbers`, `ConsoleIsBounded`, `NumbersAreFromOne`,
`SlotsAreNumbered`, `CallsAreNumbered`, `SomeIteration`, `EditorHasTexts`), that the
value for "none" is not one of the things it stands beside (`NilIsFresh`,
`NoneIsOther`, `NamesOfCollections`), that sets of slots, connections and keys are
finite (`SlotsAreFinite`, `KeysAreNumbers`, `ConstantsOK`) and that what is
uploaded has the shape of a workspace (`UploadsAreWorkspaces`,
`ArchivesAreWorkspaces`). Every safety invariant and every action property that a
passing run checks is a theorem here.

- `ProxyProofs`. Of `TcpProxy`: `TypeCorrect`, `RecordsFinal`, `NormalEnded`,
  `InspectedFirst`, `GateHolds`, `CountsExact`, for any finite set of
  connections and any number of listeners. `Core` ties the place of the handler
  to its relays, its reason and its record; `CountsMatchHandlers` is inductive
  with it. `TypeOK` needs the counts: that no counter goes below zero is not a
  matter of types. Of `UdpRelay`: `UdpTyped`, `TableSafe` and `SocketsOwned`, for
  any clients and sessions. `UdpInv` adds to the types that a session not yet
  stored is known to nobody but `Serve`, that a session is stored under its own
  client's key, and that a relay that has returned before a shutdown has closed its
  socket. Without the first, the `Store` of a session could bring back a socket
  that is closed.
- `DetectionBusProofs`: `TypeCorrect` in both modes, and `EngineNeverStuck`, which
  is about the integrated one, for any number of goroutines. `Shape` lists the six
  stacks a goroutine can have; `Integrated` adds that nobody subscribes once the
  engine's lock can be held. A holder of that lock is in an emission that does not
  come back to it, so it never waits. The mode never changes (`ModeStays`). That the
  property says nothing of the standalone mode cannot go: the late subscription of
  section 6 is the counterexample.
- `FlowFeaturesProofs`: `TypeCorrect` (with the limits of table and channels),
  `OrderDecidesJoins` and `OneVectorPerSession`, for any connections, capacities and
  timeouts. `Traces` says that a flow, and its record on its whole way, is about
  connections of its key; `Shelved` that a half waits under its own endpoint and
  alone; `OnePlace` that a session is in the channel, in a goroutine's hands, in
  the correlator or in a vector, and only in one of them; `Joined` that the halves of
  a vector were kept under one endpoint. `OrderDecidesJoins` says what the canonical
  order of a flow's endpoints does: two halves of one connection wait for each other
  only when the server comes first in it, and no vector joins the two halves of such
  a connection. Section 6 has the behaviour.
- `PreviewsProofs`: `TypeCorrect`, `EntriesWatched` and `FlagsHeld`, for any jobs,
  ports, calls and restarts. The types are proved one variable at a time.
  `CallsComplete` says that a call in progress names its job and its port;
  `EntryIsHeld` and
  `FlagHasHolder` are inductive with it: what writes an entry goes on to watch
  it, and whoever ends takes its own entry and flag along, or finds those of a
  later call, which watches in its turn. The flags of `leaked` are the ones an error
  or the absence of Docker has left, before the first call of Docker, and no others.
- `LaunchProofs`, three parts with an invariant each.
  Of `Pipelines`: `TypeCorrect`, `ChoiceIsLive`, `DownloadsFind`, `BuildsEnd`,
  `ArchivesGo` and `Implements`, for any jobs, limits and crashes. `IInv` has six
  parts: the types; `BuildsCounted`, which gives each kind of healing its place
  below the limit of attempts, so that a build runs its command at most `MaxRetries
  + 3` times; `ChoicesPaused`; `ArtifactsKept`, that a document that lists an
  archive exists and has it on disk, unless a deletion that met the listing has
  unlinked it (`unlinked`) and the document is still to go; `PendingIsFresh`, that
  nobody can start the preview of a queued build; and `ArchiveHasPipeline`. The
  refinement of `BuildLife` takes `ArtifactsKept` (an artifact is listed only when
  its pipeline is over) and `PendingIsFresh` (no verdict comes before the work):
  without them two steps would map to none of the abstract ones. The statements of
  `BuildsEnd` and `ArchivesGo` are in `Pipelines` and no run repeats them.
  Of `Provision`: `EnvironmentNamesDatabases` and `ReadyWhenBuilt`, for any `.env`
  file, any list of databases and any number of starts. `Passed` says how far the
  loop over the databases has come, `EnvMade` that the environment is the one made
  of the file and of this start's databases, `ProxyAfterBuild` that the proxy
  answers for a built client.
  Of `Catalogue`: `SpecificIsFirst`, for every directory whatever its files and
  packages; `SpawnsFollowBuilds` and `CommandsFitImages`, for any archives, order of
  subfolders and edits. `PluginsKeep` goes through the forty-nine plugins and their
  order once; the detector is then any choice of the least place. `CatalogueInv`
  says that, until healing or an edit changes the workspace (`Untouched`), a new
  detection gives what was built (`DetectionStands`, which needs
  `RewriteKeepsDetection`: neither the output of a build is a marker of another
  framework nor a package that no plugin looks for), that what is deployed has its
  tools and its output, and that the first three callers spawned what was built.
  Healing and edits are where it ends, and section 6 shows what the callers do then;
  hot reload and watchdog do not need them for it.
- `AgentChatProofs`: `RunsAreAllowed`, `NothingRunsTwice`, `CountIsExact` and
  `RollbacksGiveBack`, for any files, commands, iterations and requests in flight.
  `ConsentHeld` says of every request that the permission it works with, read when
  it began, was an 'always' the user gave, and that what it is about to run is among
  what was allowed, or is one of the commands the classifier takes for readers
  (`Disguised`); `PlannedOnce` that a command outside the history has not been run
  and is in no loop's hands, and that one that waits to be run is in the hands of
  one loop. The types say of every patch, of a request or of a message, stored or
  shown, that it records what the write of its number replaced; a write makes the
  set of such patches larger (`WriteRecorded`, `TypedMonotonic`), and nothing else
  changes it. So a rollback gives a file that a message patched once its text of
  before, or the file is outside the workspace, or its write has failed; section 6
  has what the page shows then.
- `PagesProofs`, three parts. Of `DbConsole`: `ConsoleMasks`, `ConsoleRefuses`,
  `ConsoleLoads` and `ConsoleTypes`, for any engine, collections, rows and requests
  in flight. `AnswersAreMasked` follows the rows from the handler to the page, late
  or not: outside Oracle and Redis no personal string is shown in clear, and nothing
  personal at all where the answer of the engine is text (MySQL, Cassandra);
  `InsertsAreCounted` says that an insert that may still be refused has neither run
  nor left its statement in the shared file, which is what a second insert runs.
  Of `Workbench`: `TabsStayDistinct` and `RenamesAreSafe`, for any files, deployments
  and requests; `TextsAreSafe` says where the text of a rename is between its three
  requests. Of `DeployPage`: `SelectionsAreOffered`, for any builds and packages:
  the window holds what the audit of its own build has offered, and is emptied or
  replaced as a whole.
- `AccessProofs`, two parts. Of `Accounts`: `AccountsTyped`, `ResetsAreProven` and
  `OldPasswordsAreDead`, for any browsers, desks, addresses, documents and restarts.
  What a request has seen may be old, so the invariant says what it may still know:
  `LoginsInformed` that a login has seen the password last saved unless one was
  saved since, `CodesAreRecent` and `ResetsProven` that a reset past its proof met
  a code verified after the last reset. `NextMoves` says once what a step may do to
  a request. Of `Perimeter`: `SensorsTyped`, `TokensServeOnce`,
  `RevokedNodesAreSilent` and `DashboardsShowTheStored`, for any tokens, machines,
  pages and dashboards. Each
  needs to be known of the calls on their way: `TokensSpent` that an enrolment
  past the mark has a token that is no longer active, and that a token an
  administrator has seen is not generated again; `NodesInOrder` that the nodes are
  the first `k`, so that a new one never takes the place of a revoked one;
  `Silenced` that a late report does not get past `agentAuth`; `ViewsStored` that
  what is about to be emitted has been inserted. That the listing a dashboard fetches,
  and what is put before it, are stored detections are lemmas about sequences
  (`ListingIn`, `PrependedIn`).

Only model-checked: the liveness properties, since TLAPS has no rule for liveness
under fairness. `FlowFeatures` states one more invariant, `PacketsAccounted`, which
TLC confirms on the instance of its run, and whose sums over a set are folds that
TLAPS cannot unfold by induction.

## 6. Counterexamples

`Launch_RespawnedAsBuilt` is a run of its own. The other statements below are
in their modules, and TLC refutes each when it is added to the module's
configuration as an INVARIANT, or as a PROPERTY where it begins with `[][` or
has a `~>`; a larger instance is named where it is needed. Each is a behaviour of
the code at the line given.

Agent:

- `UdpRelay!OneSessionPerClient`, with three sessions: a relay deletes the entry of
  a newer session of its client, which then gets a third (`proxy/listener.go:443`).
  `CleanerClosesOnlyIdle`: a datagram between the cleaner's test and its close loses
  its session (`:484`). `CloseClosesEverySocket`: a session stored after `Close` has
  passed its key keeps its socket (`:401`).
- `TcpProxy!StoppedIsDrained`: `connWg.Add` comes after `Accept`, so `Stop` returns
  before the last handler (`proxy.go:442`). `FlaggedClientIsBumped`: the list of
  detections of a connection is never filled (`listener.go:188`).
  `PatientClientIsServed`: a client that waits for the greeting of its server is
  dropped after five seconds (`:160`). `KilledAlwaysEnds` under `FairSpec`: a relay
  that writes to a backend that does not read outlives the kill, which closes the
  client's socket only (`forwarder.go:122`, `:138`).
- `DetectionBus!EveryEmissionEnds` under `FairSpec`: the drain loop emits an ML
  alert while it holds the mutex that its own subscriber takes
  (`main.go:1294`); with `Scored = {}`, a subscription waits for a reader that
  waits behind it (`behavioral.go:390`). `ChannelIsDrained`, with
  `Modes = {FALSE}`: nobody empties `DNSFeatureChan` (`behavioral.go:196`).
- `FlowFeatures!PairsMeet`, with `Client <- HighPort`: the two halves of a
  connection wait under two keys. `ClosedByBothSides`: two FINs of one side close
  the flow (`flow_tracker.go:294`). `FlushedFlowsAreLogged`: the process ends with
  the flushed records in the channel (`main.go:976`).

Deployment service:

- `Pipelines!FailedCheckStays`: without Docker the pipeline writes its verdict over
  that of the health check (`pipeline-runner.service.js:1212`).
  `RunningIsNotPruned`: the pruner removes the dependencies of a preview that
  started after its query (`pruning.service.js:144`). `DownloadsAlwaysFind`: between
  the unlink of an archive and the end of its document, or for good after a crash
  there, the document offers what is gone (`devops.controller.js:416`, `:424`).
  `DeletedLeavesNothing`: a pipeline that goes on after the deletion leaves its
  workspace. `WithinBuildLimit`, with two jobs: the limit is tested before the
  document exists, and not by an import (`devops.controller.js:99`).
- `Provision!FallbackUsesHost`: on the bridge the names of the job's databases do
  not resolve (`process-manager.service.js:1177`). `SeededOnce`: a kept database
  is seeded again (`:981`). `OwnDatabase`: of two databases that listen on one
  port (MySQL and MariaDB on 3306) the first in the list is named.
  `HealthyIsServed`: the proxy's 502 counts as healthy.
- `Catalogue!BlitzIsNotNext`: the broader plugin comes first
  (`frameworks/blitz.js:5`). `ListensOnPort`: some commands take no port.
  `BuildFitsImage`: some images lack the tool of their command.
  `HealedAsBuilt` and `CommandAlwaysFits`: a package that healing adds makes
  another framework of the workspace, which the next start detects, and a lock file
  it writes changes the image (`pipeline-runner.service.js:859`, `:1020`).
  `ReloadedInPlace`: the hot reload mounts the root instead of the subfolder.

Pages:

- `AgentChat!EveryChangeIsAllowed`: `find -delete`, `$(...)`, backticks and what
  follows a line break count as reading and run unasked (`helpers.js:59`,
  `agent-loop.service.js:463`). `RolledBackIsGone`: a path outside the workspace is
  refused, or a write fails, and the message is marked as rolled back all the same
  (`devops.controller.js:1884`, `:1901`). `SavesAreKept`: a rollback overwrites what
  was saved after the patch. `RollbackRestores`: of two patches of one file the
  rollback undoes the last one (`devops.controller.js:1861`, `:1879`).
  `NewestIsAwaited`: a stopped request clears the indicator of the next one.
  `IndexesAgree`: the page and the stored chat disagree on the place of a message
  after a failure. `NoReloadInBuild`: the preview is restarted under a build.
- `DbConsole!NothingPersonalIsShown`: numbers and strings in arrays pass the mask
  (`devops.controller.js:2413`, `:2371`). `DefaultsAreUsed`: an insert is refused
  for the automatic key (`devops.controller.js:2259`). `RowsAreOfTheActive`, with
  two collections: an old answer fills the new table. `StatementsAreOwn`: two
  requests share one statement file. `AnsweredIsDone`: the statement outlives its
  timeout. `MasksAreNotStored`: an edited row stores its mask. `SaveNeverRevives`:
  an update brings back a deleted row.
- `Workbench!ShortcutSavesEdits` and `ShortcutIsForSelected`: Ctrl+S saves the text
  and the deployment of an older render (`Agent.jsx:3833`, `:3865`, `:4748`).
  `BlurKeepsSaved`: the blur handler writes an older text. `DeletedIsGone`: a save
  in flight revives the file. `RenameOverwritesNothing`: a rename takes a name in
  use. `ActiveTabIsOpen`, with two clicks: a tab closed meanwhile stays active.
- `Accounts!PromotedCanSignIn`: who is moved to the other collection has a hash of a
  hash for a password (`admin.controller.js:141`). `AccountIsKept`: a restart, or an
  address taken meanwhile, between the deletion and the creation loses the account.
  `NobodyIsTwice`, with two desks and three requests that overlap: two changes of a
  role put one account into both collections (`admin.controller.js:141`).
- `SignIn!AdministratorsGetIn`: a counter without a time to live asks the
  administrators' form, which cannot show a challenge, for one
  (`redisSecurityClient.js:24`, `:83`).
- `DeployPage!UploadingEnds` under `PageFairness`: the pipeline ends before the page
  joins its room, or while the socket is away (`DevOps.jsx:574`, `:640`, `:967`).
  `StatusIsOfTheActive`: an event of another build sets the status shown (`:640`).
  `PageStays`: an error of the list is never cleared (`:554`, `:618`).

Met on the way, and not stated as properties: `handlePublishBranch` calls a
function that does not exist (`DevOps.jsx:1190`); after a change of port the
status stays "building"; the agent's command URL is wrong
(`commander.go:26`); `AdminManageBlocklist` sends `{ip}` where the controller
reads `targetType` and `targetValue`; `AdminManageNodes.jsx:226` passes an `_id`
where a nodeId is looked up, so its revocation finds nothing;
`agent-loop.service.js:357` reads `.containsSecrets` of an array; host mode spreads
`extraEnv` with a literal `PORT`; both GitHub flows share one callback URL.

## 7. What is not modelled

`components` in `PROJECT.json` gives the reason part by part.

- The blocklist: nothing calls the automatic block, nothing reads the cache, and
  the page that blocks is refused.
- Rate and behaviour windows, the graph engine's scores, the protocol analyzers
  and the scoring of the ML parts: pure or numerical code over wall-clock time
  and bytes, for which the unit tests are the better tool.
- The ML client's circuit breaker and the streamers' buffers: small machines
  under one mutex each, next in the plan.
- The start and the end of the agent, eBPF hooks, iptables, terminal interface
  and scripts: calls of the operating system.
- Fixtures, charts, lists of records, logs and statistics: views and texts.

Taken to succeed: the writes of a preview's verdict to its document
(`process-manager.service.js:394`, `:421`, `:1344`, `:1357`), which nobody repeats. With
one of them refused TLC refutes `Previews!DeathIsNoticed`.

Within the modelled parts: contents of packets, files, prompts and reports, TLS
interception, the rotation of logs, streams of logs and terminals, retries inside
libraries, publication of branches, schema diagrams. Redis, MongoDB, Docker, the
language model, the ML service, GitHub, peers, applications and users are an
environment that answers anything, or nothing.
