# Verification of the DbGate Relay MySQL plugin

TLA+ models of the driver, the query path and the processes of
`dbgate-plugin-relay-mysql`, the TLC runs that check them on small instances, and
TLAPS proofs for instances of every size. Paths in this document and in the modules' comments are those of the
repository; `broker/x.js` stands for `src/broker/x.js` and so on, `README.md:n`
for the plugin's own README.

## 1. The system

The plugin lets DbGate query MySQL servers that are reachable only through an
interactive relay, SSH and the `mysql` command of a remote host. Logging in is
expensive (it may need a touch on a key), so the plugin keeps a detached *broker*
process with one logged-in *session* per profile, and queries of all DbGate
processes pass through it.

    DbGate process (several)                broker (one per user)               per session
    driver -> query executor -> runner client
        -> broker client ==Unix socket==> server -> session manager -> session ==pipes==> Expect adapter -> relay, ssh, mysql
    (a profile with a runner path of its own takes the one-shot runner instead of the broker)

| Component | State it keeps | Operations | Hard parts |
|---|---|---|---|
| Broker client, `backend/broker-client.js` | lock file and socket file (shared), socket, timer | `connect`, `run` | several processes on one file system, crashes, two clocks |
| Broker server, `broker/server.js`, `broker/protocol.js` | connections, their count, last activity | connection handler, `shutdown`, idle check | clients that go away at any point, stop while queries run |
| Session manager, `broker/session-manager.js` | map fingerprint to session | `execute`, `onDead`, `cleanupIdle`, `close` | profile edits, old and new session under one key |
| Persistent session, `broker/persistent-session.js` | queue, current item, timers, parser, child | `execute`, `pump`, `start`, `onStdout`, `sendCurrent`, `failAll`, `isIdle` | abort, deadline, output and exit in any order |
| Session adapter, `runner/relay-mysql-session.exp`, `runner/remote-script.js`, `runner/session-frame-codec.js` | where the script is, pipes | login, request loop | fails or hangs at any step |
| Session result parser, `broker/session-result-parser.js` | state, buffer | `push` | markers cut by chunk boundaries, byte limit |
| Metadata cache, `backend/metadata-cache.js`, `backend/metadata-snapshot.js`, the `analyse*` calls of `backend/driver.js` | entries, loads in flight, each handle's snapshot | `getOrLoad`, `load`, `analyseFull`, `analyseIncremental`, `analyseSingleObject` | loads in flight against refreshes and expiry |
| One-shot runner, `backend/runner-client.js`, `runner/cli.js`, `runner/relay-mysql.exp`, `runner/frame-extractor.js`, `runner/bounded-buffer.js` | child, timers, forced category | `run`, `runExpect`, `main` | timers and signals in three processes |
| Profiles, `runner/profile-store.js`, `backend/inline-profile-file.js` | profile file, temporary file of an inline profile | `loadProfile`, `createInlineProfileFile`, cleanup | removed while a request is on its way |
| Connection handle and executor, `backend/driver.js`, `backend/query-executor.js` | closed flag, snapshot | `connect`, `close`, `query`, `stream`, `readQuery` | close and abort against requests in flight |
| SQL policy, `backend/sql-policy.js`, `backend/sql-tokenizer.js`, `backend/pk-order.js` | none | `prepareManualSql`, `prepareTableDataSql` | pure functions on token lists |
| XML result parser, `backend/xml-result-parser.js` | row count, column names | `parseMysqlXml` | row limit with its probe row, unique names |
| Marker parsers, `broker/session-result-parser.js`, `runner/frame-extractor.js`, `runner/bounded-buffer.js` | pending bytes, buffer | `push` | markers and limits at chunk boundaries |
| Frontend driver, build and install scripts | none | - | - |

The properties that make each correct:

* **Session**: no query is lost, crossed with another, or overtaken; exactly one
  deadline runs; an abandoned query takes the session with it; every query is
  settled; no adapter process outlives its session.
* **Manager**: the map holds exactly the live sessions, queries run under the
  credentials their profile had, `close` and the idle cleanup end what they must.
* **Server and client**: a session holds exactly the queries somebody waits for,
  the connection count is exact, every `run` settles, the watchdog is only a
  backstop, a stopped broker ends.
* **Start-up**: one starter at a time, no lock that nobody owns, everybody gets
  connected.
* **Driver**: one load per key; a handle and an entry never go back to an older
  snapshot; a forced refresh is read from the database; a failed load fails nobody who
  comes later; the callbacks come in order and the end comes once; a stream that is
  closed leaves no query running; every call returns.
* **One-shot runner**: every run settles; success means the whole statement and the
  whole result; a category is of something that happened; no process is left behind.
* **Policy, framing, rows**: what is shown are the first rows of the user's own
  statement, and truncation is reported exactly when it happened; no more is read
  than needed to know; pages of the grid follow the primary key; a harmless
  statement is not refused and no other is run; chunk boundaries do not matter and
  damaged output is never taken for a result.

## 2. The modules

### `ExpectAdapter`: the child process
The script as a process: login, then one request at a time from `stdin`, its XML
between markers to `stdout`, a status line. A request on the pipe stands for its
nonce (16 random bytes, never repeated), a chunk of output for a token that names
the request whose nonce it carries. What relay, SSH and MySQL do is free: any step
may fail, the process may be killed at any moment, and nothing forces a step to be
taken, so it may hang anywhere. `MaxRows` bounds the pieces of XML per request; other output
is put into an empty pipe only.

### `PersistentSession`: one session and its child (extends `ExpectAdapter`)
Each action is one turn of Node's event loop with everything the handler calls.

| Code | Model |
|---|---|
| `this.queue`, `current`, `ready`, `dead` | `queue`, `current`, `ready`, `dead` |
| `item.cancelled`, `item.timer`, the abort listener, the promise | membership in `cancelled`, `timers`, `listeners`; `outcome` |
| `current.parser` and its `BoundedBuffer` | `parser`, `received` (`RowLimit` is `maxResultBytes`) |
| `lastUsedAt` against the TTL | `stale` |
| `execute` (first, spawn fails, queued, next, already aborted) | `ExecuteFirst`, `ExecuteStartFails`, `ExecuteQueued`, `ExecuteNext`, `ExecuteAborted` |
| `pump`, `sendCurrent`, `failAll` | `Pump`, `SendCurrent`, `FailAll`: part of every action that calls them |
| `item.abort`, the timer | `Abort` (unheard, waiting, current), `Timeout` |
| `onStdout` | `StdoutReady`, `StdoutBeforeReady`, `StdoutUnasked`, `StdoutParsed`, `StdoutTooLarge`, `StdoutResult` |
| the child's `error` and `close` | `ChildError`, `ChildClose` |
| `cleanupIdle`, `close` of the manager | `CleanupIdle`, `ManagerClose` |

`accepted` and `begun` (and `printed`, `reported` in the adapter) are history
variables: no action reads `accepted` and `begun` except to take a request once.

### `QueryService`: what a session promises
An abstract specification with three variables: requests are new, pending or
settled, the service is open or closed. Closing answers everything that is pending
with one reason, but for the one query whose abort or deadline is the cause.
`PersistentSession` implements it (`ImplementsService`, refinement mapping
`phaseOf`, `answerOf`, `~dead`).

### `SessionManager`: the map
Its sessions are query services seen from outside: they hold queries, answer them,
and when they die they answer all and call `onDead` in the same step. `profileOf`
is the profile file (external, edited by `EditProfile`), `Choose` the lookup of
`execute`, `OnDead` the callback's test. A session's key (`keyOf`) and profile
(`profile`) are fixed when it is created (`AtCreation`), so that a wrong reuse shows. `Session` bounds the session objects.

### `BrokerStartup`: `BrokerClient.connect` and the socket
Client processes that share the lock file and the socket file; every file-system
call is a step, `pc` is where `connect` is. A broker is named by the client that
started it; `broker` is its life and `socketFile` says who bound the path. What has
gone wrong so far (a failed start, a crash, a stopped broker) is on record in
`mishaps`, so that the properties can say under which circumstances they hold.
That a lock gets old only behind a crashed client (`LockAges`) is the code's 5 s
retry loop against its 10 s staleness.

### `BrokerConnection`: `BrokerClient.run` and the connection handler
One query per client over a connection of its own. `client`, `answer`, `clientAge`
are the client's end, `conn`, `active`, `broker` the server's, `unread`, `reply`,
`gone` what is on its way between them; `open`, `running`, `waiting`, `runAge` the
sessions reduced to their order of service. Time is counted in ticks: `Deadline`
is `timeoutMs`, `Grace` the 1,500 ms of the watchdog, ages are not counted beyond
their sum (`MaxAge`). With `Prompt` a tick waits for the bytes and timers that are
due. `WriteFails` is the `error` event of a response written to a destroyed socket,
which nothing listens to once `readPacket` has cleaned up.

### `MetadataCache` and `Driver`: one DbGate process (`Driver` extends `MetadataCache`)
A step is what runs between two awaits; promise callbacks run before the next event
of another process (`Quiet`). A load is named by the call of `getOrLoad` that began
it, a snapshot by the version of the schema it was read from.

| Code | Model |
|---|---|
| `entries`, `expiresAt`, `inflight` of the cache | `entry`, `fresh`, `inflight` |
| the three outcomes of `getOrLoad` | `Hit`, `Join`, `StartLoad`, chosen by `GetOrLoad` |
| the loader's microtask, its result, `finally` | `LoaderRuns`, `Store` or `LoadFails`, `Finally` |
| `dbhan.metadataSnapshot`, `dbhan.closed`, the inline profile file | `snapshot`, `handle`, `files` |
| `analyseFull`, `analyseIncremental`, `analyseSingleObject`, what follows their await | actions of the same names, `Resume` |
| `executePrepared`: the closed flag is looked at, the run of the runner client begins | `LoadQuery` for a load, `StartQuery` for a query |
| the await on `connect()`, then the listener for the abort, the look at the signal, the packet | position `"asked"`, `Sends` |
| the rest of the run: the session reads the profile, MySQL reads, it settles | `BrokerReads`, `RemoteReads`, `RunSettles` |
| `parseMysqlXml`: the look at the signal, `columns`, `onColumns`, `onRow`, `finish`, an error anywhere | `ParseBegins`, `known`, `OnColumns`, `OnRow`, `ParseEnds`, `ParseFails` |
| `recordsetStarted`, `headerWritten` | `headed` |
| after the await in `stream` and `readQuery`, `catch`, `finally` | `Announce`, `Inform`, `End`, `Catch`, `Done` |
| what the consumer was given | `told` |
| the consumer destroys the stream; its `close` event fires the signal | `Abandon`, `StreamCloses` |

A call is at one position at a time (`query`), and `Turn` takes it to the next. Each
callback is a step of its own, so that the consumer may destroy the stream in any of
them, and no other code of the process runs between two of one turn (`Idle`). The order
of what the consumer is given is nowhere in the model but in these positions and in the
flags. A one-shot run waits for no connection: it is one in which nothing happens
between `"asked"` and `Sends`.

`readAs` and `began` record which schema was there when it was read and when an
analysis was called. `Stuck` are the handles whose profile file cannot be removed,
`Kept` is the structure that DbGate passes to `analyseIncremental`.

### `OneShotRunner`: client, runner and Expect script of one query
Three processes, each of which may end, be killed or hang on its own. Output is
reduced to how far it has got; a statement to whether part or all of it is in the
pipe.

| Code | Model |
|---|---|
| `RunnerClient.run`: spawn, abort, watchdog, output limit, `close`, SIGKILL after 400 ms | `Spawn`, `WriteInput`, `Abort`, `Watchdog`, `OutputTooLarge`, `ClientSeesClose`, `ForceKill` |
| `main` of `cli.js` | `BootFails`, `ReadStdin`, `ReportWrites`, `RunnerExits` |
| `installLifecycleGuard` (signal, and the parent's pid) | `InstallGuard`, `RunnerTermed`, `Stop` |
| `runExpect`: deadline, data, process group, `close`, `error` | `Deadline`, `Data`, `Terminate`, `GroupKill`, `AdapterSettles`, `SpawnFails` |
| `relay-mysql.exp` | `AdapterAdvances` from stage to stage of `After`, `AdapterFails`, `AdapterRejected`, `AdapterFinishes` |
| crashes from outside | `ClientDies`, `RunnerCrashes`, `AdapterKilled` |

SIGTERM meets a handler only between the guard's installation and its removal, and
kills the runner at any other time. A runner whose parent died before it looked may
see init or a subreaper as its parent (`parentSeen`).

### `SqlPolicy`, `Framing`, `ResultRows`, composed in `QueryPath`
The pure functions of the query path, and one query through all of them.

* `SqlPolicy`: statements are sequences of lexemes. `Tokens`, `Significant` and
  `Depth` are what `tokenizeSql` leaves; `Denied` are the phrases that are refused;
  `PrepareManual` and `PrepareTableData` put in the limit, the probe and the order.
* `Framing`: `ExtractFrame`, `ParseSession` and `ReadPacket` take a parser and a
  chunk to the next parser. The markers share symbols with each other and with the
  rows.
* `ResultRows`: `ParseXml` over a sequence of tags and texts, `UniqueNames`, and
  `MapMetadata` from the catalog's rows to tables and keys.
* `QueryPath`: prepare, execute, bytes in chunks of any size through a marker parser
  and, for a session, a packet, then the XML parser. `Evaluate` is what MySQL makes of
  the clauses the policy touches (external). The output may be cut between two
  rows, with or without an error status.

The reference definitions are independent of the code: `ShownAreTheQuerys` evaluates
the *user's* statement over the whole table, `PageIsKeyOrdered` sorts the table by
the catalog's key and takes the page.

### `MC*` and `*_proofs`
`MCx` extends `x` with the symmetry sets or the values of its runs (manager, start-up
and one-shot runner need none); `x_proofs` extends `x` with its theorems
(`QueryPolicy_proofs` is a second one of `QueryPath`). Operators marked as mutants (`HeldCurrentOnly`, `StatLockTrusting`,
...) are what a plausible bug would make of the definition after them; no
specification uses them. Each checked property is violated by one of them.

## 3. The runs

`tlc -config X.cfg M`; all states are covered, none is a simulation.

| Run | Instance | Shows |
|---|---|---|
| `SessionSafety` | 3 queries, 2 pieces of XML, limit 1 | `NothingLost`, `ResultIsOwn`, `InOrder`, `AbandonedEndsSession`, `OneDeadline`, `ImplementsService` |
| `SessionLiveness` | 2 queries, fair | `EveryQuerySettles`, `NoOrphanAdapter` |
| `SessionTimeout` | 2 queries | **violated**: `TimeoutWasBegun` |
| `Manager` | 3 queries, 2 names, 2 fingerprints, 3 session objects, fair | `MapIsLive`, `RunsAsLoaded`, `IdleSessionEnds` |
| `Startup` | 3 clients; failures, crashes, stops; fair | `LockHasOwner`, `OneStarter`, `EveryClientConnects`, `StaleLockGoes` |
| `StartupTwice` | 2 clients | **violated**: `OneBroker` |
| `ConnectionSafety` | 3 clients, 2 profiles, deadline and grace 1, prompt | `HeldForSomeone`, `CountIsExact`, `WatchdogIsBackstop` |
| `ConnectionLiveness` | 2 clients, 1 profile, slow or prompt, fair | `EveryRunSettles`, `DisconnectReachesSession`, `ShutdownEnds` |
| `ConnectionGone` | 2 clients, 2 profiles | **violated**: `CancelSparesOthers` |
| `Driver` (`MCDriver`) | 2 handles with one key, both with an inline profile, one of which cannot be removed, and one with an earlier structure; 2 calls, one of which may be a query; 2 versions of the schema, 1 row; fair | `RefreshIsRead`, `StreamProtocol`, `AbandonedIsNotRunning`, `HandleNeverBack`, `FailureIsNotKept`, `EveryCallReturns` |
| `OneShot` (`OneShotRunner`) | one query, no bound; fair | `SuccessIsComplete`, `CategoryIsTrue`, `RunnerOutlivesAdapter`, `EveryRunSettles`, `NoProcessLeft` |
| `QueryPath` (`MCQueryPath`) | two visible rows and the probe; about 80 statements, 30 pages each with and without a range, 6 tables of up to 4 rows, 6 catalogs; chunks of 1 to 5 symbols; 23 symbols of result | `ShownAreTheQuerys`, `ReadIsBounded`, `StaysValid`, `PageIsKeyOrdered`, `ChunkingIrrelevant`, `PacketIntact`, `OneReadIsRun`, `HarmlessRuns` |

**Bounds.** Three queries give a current one, one that waits and one that waits
behind that or arrives later: enough for every order the queue can produce and for
a cancelled query between two others. Two pieces of XML against a limit of one
reach both sides of the limit. Three session objects let a fingerprint have an
old, a current and a next session. Two clients meet at every step of the start-up;
the third arrives in the middle of their meeting. Three clients on the connection
give a session a current and two waiting queries, two profiles a session that has
nothing to do with a failure.
Two calls on two handles of one key are a load and somebody who joins it, comes after
it, or queries while it runs; two versions let either be the older one (the proofs
cover the rest). One row is enough to tell columns that come first from columns that
come late, no row and one that fails from a result. The tables have fewer rows, as many, one more and two more than are
shown; the result limit is met exactly by some results and passed by one symbol by
others, with the end marker in the same chunk or not. Statements combine four
heads (plain, repeated column names, a subquery with a limit of its own, an order of
its own), four limits and four endings, and one for each rule of the policy.

**Deadlock** is checked for the manager and for `QueryPath` (whose end is the step
`Ended`): a session ends, connected clients and calls stop, and a broker that is down
stays down.

**Fairness.** *Session*: an armed timer fires, and the SIGTERM/SIGKILL pair ends the
child; nothing is assumed of adapter, MySQL or callers. *Manager*: time passes and
the interval runs until it is cleared. *Start-up*: a process that can run runs, for
all file-system calls are synchronous, and a spawned broker gets to `listen`;
`StaleLockGoes` allows for the crash of the client it speaks of. *Connection*: time
passes, the client's timer fires, the broker's event loop delivers `close` events
and the callback of `server.close`; nothing is assumed of sessions. *Driver*: promise
callbacks run (`Microtask`), and a run of the runner client settles (`RunSettles`), which the `EveryRunSettles` of
`BrokerConnection` and of `OneShotRunner` say. *One-shot*: timers fire and events are
delivered in client and runner; nothing is assumed of the adapter, which may hang in
any dialogue, or of a runner reading its stdin.

**Where code and documents disagree** (the violated runs):

* `TimeoutWasBegun`. When a query's deadline ends the session, the queries behind
  it are rejected as timed out too, although their own deadlines have not begun.
* `OneBroker`. Although nothing fails, a client whose first connection failed may take the lock after its
  predecessor released it, remove the socket of the predecessor's broker, and start
  a second one.
* `CancelSparesOthers`. A cancellation that coincides with the answer can end the
  broker, and with it every other session.

## 4. The proofs

`tlapm M_proofs.tla` proves each from nothing; no step is left open, and the only
assumptions are the named ones on the constants, and those that are hypotheses of a
theorem and are explained with it.

* `PersistentSession_proofs`. `TypeCorrect` is inductive by itself. `SessionCorrect`
  proves `SessionInv`, the strengthening behind `NothingIsLost`,
  `AbandonedQueryEndsSession` and `OnlyDeadline`: `QueueInv` (queue, current item
  and `begun` are disjoint parts of what was accepted, nothing is queued twice),
  `ItemInv` (the listener and timer sets are those of the held items, and only
  settled items are cancelled) and the properties themselves. `NothingLost` alone is
  not inductive: that a failing session settles everybody needs to know that
  `cancelled` items are settled, and that a result settles its own item needs
  queue and current to be disjoint. The lemmas follow the code: `PumpInv` and
  `FailInv` once, cited by every handler that pumps or fails.
  `QueriesBeginInOrder` proves `InOrder` on top of it. What is inductive is
  `OrderInv`: nothing is accepted twice, and the queue has its items in the order of
  `accepted`. With `SessionInv`'s "what is neither begun nor cancelled is in the
  queue" it follows that the item `pump` takes has only begun and cancelled ones
  before it (`PumpOrder`); `EnterOrder` says what a push adds.
  `SessionIsAService` proves the refinement: `TakeMaps`,
  `SettleMaps` and `CloseMaps` say what taking a query, settling one and failing are
  in `QueryService`, `Unseen` what stutters, and every handler is one of the four. It
  rests on `SessionInv`: that a failing session answers *all* that is pending needs
  the pending queries to be exactly those the session holds.
  `ResultsAreOwn` is about both ends of two pipes. `ResultIsOwn` speaks of settled
  queries only; what is inductive is `PipeInv`. `LiveInv` says that the output a live
  session has consumed of its current query, followed by what is on the pipe,
  is the transcript of what MySQL has printed for that query, that nothing has been
  printed for a query that was not sent, and that outside a query both pipes hold
  nothing of one; `WorkInv` that the adapter serves what was written last. That an
  abandoned query ends the session is what keeps this invariant: a session that went on
  would read the rest of the abandoned transcript.
* `SessionManager_proofs`. `ManagerInv` is `TypeOK`, `MapIsLive`, `RunsAsLoaded`, that
  only a live session holds queries, and that a live session's key is its profile's;
  `KillInv` serves death, cleanup and close. `CloseEndsEverySession` (of `CloseEndsAll`,
  which no run checks) is an action property from it: every live session is an entry, and
  close kills the entries.
* `BrokerStartup_proofs`. `LockIsOwned` needs the descriptors to belong to running
  clients, and that a crashed one takes no step; `OneStarterAtATime` adds that until
  a crash no lock file gets old, so nobody takes one over. Steps are grouped by what
  they do to the lock (`LockStep`), not one by one.

* `OneShotRunner_proofs`. `AnswerAfterAdapter`, `SuccessMeansComplete` and
  `CategoriesAreTrue` follow the value that is reported backwards through the three
  processes: `AdapterInv` (where the script is tells how much it has written),
  `ResultInv` (a runner that reports XML has read all of it from an adapter that
  exited well, and ran the whole statement, for the client writes all or dies), and
  `TrueInv` (every category held anywhere, the adapter's exit status, `forced`,
  `report`, has happened). None of the three properties is inductive: each is about
  the client, who knows only what was passed on to it.
* `Driver_proofs`. `DriverInv` orders the versions: `LoadsInv` and `InflightInv` (an
  active load is the one in the map under its key, and waited for under the same key), `ReadInv`
  (what a load has read is no older than the entry it replaces and than the call
  that began it), `AnswerInv` (what somebody has been answered with and not assigned
  yet is still the entry, because the key's next load cannot have been sent before
  he is resumed), `RefreshInv`. From it `HandlesNeverGoBack`, `EntriesNeverGoBack`,
  `LoadsNeverOverlap`, `RefreshesAreReads` and `FailuresAreNotKept` hold for any
  number of handles, keys, calls and versions. That `snapshot` alone is
  not inductive is the point: without `Quiet`, the rule that microtasks precede
  other processes' events, a handle could be overwritten by an answer that was
  overtaken.

* `BrokerConnection_proofs`. `ConnectionsAreCounted` and `SessionsServeConnections`
  need `QueueInv` (a query is in one place of one session's queue, and no session is idle
  while queries wait for it) and `ConnInv`. `WatchdogComesLast` is proved from
  `Prompt`, without which it is false: the clock of a client that did not have to wait
  is not ahead of the session's, so the deadline comes due `Grace` before the watchdog,
  and a tick does not pass before what is due has been handled (`WatchdogInv`).
  `OneSessionEnds` complements the refuted `CancelSparesOthers`: no step
  ends two sessions unless it ends the broker, so the unhandled `error` is the only way
  a cancellation reaches others.
* `QueryPath_proofs`, for every body, limit, size of chunk and way to cut the stream.
  `Held` is the invariant of a parser that was given the first *k* symbols: it waits for
  the start marker, or has flushed *b* symbols of the body and keeps at most two, or
  keeps the status line from one of two places on, or is finished, or has met the limit.
  `ParseStep` shows that a chunk of any length takes `Held` at *k* to `Held` at
  *k + n*, also when it holds a whole marker and what follows. `ChunkingNeverMatters` and
  `PacketsStayIntact` follow. They assume `[]Unmarked`: the end marker does not
  stand in the body, or across its end, before it is written (in the code it ends in 16
  random bytes, `runner/remote-script.js`; every state of `QueryPath`'s instance
  satisfies it). The second also assumes `NumeralsDiffer`, that the TLC module's
  `ToString`, which has no useful definition, gives different numbers different
  numerals.
* `QueryPolicy_proofs`, for every set of statements, pages, catalogs and tables, and every
  maximum of rows. `OneReadIsSent`, `PreparedStaysValid` and `ReadStaysBounded` hold of
  `prepared` from `Prepare` on (`PolicyInv`); the work is in what the policy and MySQL make of a
  sequence of words. Both look at the words at some of its places: `At` is proved
  to give those words, each place once, in order, so that a statement with
  a probe or an order in it (`Spliced`) is read as the statement was, up to the place
  and from there on (`Inserts`, `SyntaxIs`). Why the probe bounds a read is not obvious
  from the code. A `SELECT` with a `LIMIT` of its own gets none, if `readTopLevelLimit` finds
  that `LIMIT` at depth 0 with a tail of one or three words. But the tail is filtered:
  words at other depths, comments and semicolons are not in it. `PlainTail` proves that the
  filter hides no parenthesis there: the first one after the `LIMIT` would be an opening
  one at depth 0, hence in the tail, where no numeral, comma or `OFFSET` is one. So MySQL
  reads the number that the policy reads. Where a probe is appended it is MySQL's last
  clause, before any comment. These are inductions over numbers, which the prover allows for
  a *set* of numbers (`Induct`, from `WFMin` of the library), so recursive functions as
  `InOrder` can be reasoned about.

  `RowsAreTheQuerys` joins the whole path: what is shown to a statement of the editor is
  what the statement itself reads. Four arguments meet in it. (1) `ParseXml` inverts `Xml`:
  `Leads` says that a sequence of symbols takes the parser from one state to another, and
  is composed from a symbol to a text (`TextLeads`), a field, a row (`RowLeads`) and the
  document (`DocumentIs`), with the first `max` rows kept and `truncated` set by the next
  one. (2) A document that was cut, with or without the end of its line, leaves the
  parser outside `"after"`, hence is not `Parsed` (`CutIsOpen`). (3) The names that
  `makeUniqueColumnNames` gives are all different (`NamesAreUnique`): of one suffix more
  than there are names, one is free (`SuffixIsFree`), so a row object keeps every column. (4)
  A probe adds one clause at the end and moves no ORDER (`ProbeExtends`, `OrderExtends`), so
  MySQL's rows are the statement's own, or the first `PROBE_ROW_COUNT` of them
  (`ManualRows`), and of those the first `MAX_VISIBLE_ROWS` are shown either way
  (`WindowRows`). `ShownInv` carries this from `Execute` to `Parse`, where the bytes are
  the body by `ParserInv` and `PacketInv`. It also needs that a session reads the category
  that was written (`TookStatus`): an error cannot come back as `OK`. The theorem assumes
  `[]Unmarked` and `NumeralsDiffer` as above.

  Assumptions on the constants are needed, and TLC evaluates them with the values
  of the run. `NumeralAssumption`: different numbers have different numerals, and a numeral
  is not a word (TLAPS knows nothing of `ToString`). `StatementsAssumption`: a `--` comment
  is the last lexeme, as the lexer makes it, and a clause stands between parentheses
  only in a subquery that is the whole of FROM and whose one clause is a `LIMIT` of one
  number; an ORDER names a column and does not end in a comma. That is how far the module gives SQL a meaning; other statements are outside the
  theorems. `CatalogsAssumption`: a column's name is none of the words the policy looks
  for, as `escapeIdentifier` (`pk-order.js:17`) puts it in quotes. `TablesAssumption`: a
  table is a sequence of rows. `NamesAssumption`: a tag of a field has one name and is none
  of the other tags. `TextsAssumption`: the text of a field is no tag, as `mysql --xml`
  escapes what it writes. `ColumnsAssumption`: the parser knows the names of the columns,
  and `name__2` differs from `name__3`.
* `Driver_proofs` also proves two things of streams. `AbandonedNeverRuns`: by `AbortInv`
  a call whose signal has fired has been taken out of the run if it was listening, and
  cannot enter one, for `Sends` looks at the signal. `StreamsAreOrderly`: `ToldInv` says
  for each position what the consumer has been given there (`TellsAt`): while the parser
  runs, the columns first if it has them, and then the call is `headed`; before the
  end, columns or an error; after it, one end. `StreamProtocol` alone is not inductive,
  because that `Announce` gives no columns twice needs the flag to be set exactly when they
  were given, and that a failure after the columns may follow anything needs the
  sequence to be open. A step that gives something extends the sequence by one
  (`GivesTold`), whose effect on each part is `GivesOne`.

The proofs also changed the model in one place. Where the code asks one condition after
another, `Framing`, `ResultRows` and `SqlPolicy` had a `CASE` with arms that overlap,
of which TLA+ may take any and TLC takes the first; `ParseStep` could not be proved of
it. They are `IF ... ELSE` chains now, with the same reachable states.

Also for the proofs, filters that were `SelectSeq` are `At` a set of places, and the sort
of an ORDER BY is the row that comes *k*-th (`Ranked`), and the folds of `ResultRows`, which take an
operator that the prover does not unfold, are recursive functions over the places of a
document or a list of names; the run finds the same states.

Only model-checked: all liveness (`EveryQuerySettles`, `NoOrphanAdapter`,
`IdleSessionEnds`, `EveryClientConnects`, `StaleLockGoes`, `EveryRunSettles`,
`DisconnectReachesSession`, `ShutdownEnds`, `EveryCallReturns`, `NoProcessLeft`), which
is outside what the prover does with fairness;
and of `QueryPath` `PageIsKeyOrdered`: it needs that rows sorted twice are sorted
once, which is about the order of all rows and not about one place of a sequence.
`HarmlessRuns` is about the statements of the run.

## 5. Not modelled, and the plan

* The frontend driver (a declarative form), build, packaging and installation
  scripts: they keep no state and take no part in a query.
* Inside a lexeme: how characters form strings, quoted names, numbers and comments in
  `tokenizeSql`, so also its limits of length and its errors for what is unterminated.
  `QueryPath` has one representative of each rule of the policy.
* Encodings: base64 frames of the codecs, JSON of packet headers, UTF-8 and entity
  decoding, NULL fields, the XML library. A symbol stands for a byte or a tag.
* The validation of a profile's fields and of file ownership and modes; environment
  variables and arguments.
* `clear`, `invalidate` and `peekLastSuccessful` of the cache have no caller. A handle
  without a database and a system database never reach the cache.
* A query that was begun before its handle was closed is sent even when the connection
  is there only after the close (`query-executor.js:24`, `broker-client.js:157-219`); the
  model does the same. No document says otherwise, so no property speaks of it.
* The 250 ms after which the runner kills its adapter against the 400 ms after which
  it is killed itself: `OneShotRunner` has no durations, and `NoProcessLeft` exempts an
  adapter whose runner was killed.
* In `parseBaseTable` and `findTable` (`pk-order.js:21-74`): a third qualifier, the
  preference for a table of the schema that is named, that none of several tables of one
  name is taken, and names that differ in case only. `BaseTable` and `KeyColumns` have one qualifier and a
  snapshot without equal names.
* A table that is read to its end by `readQuery` is not ordered, for it is given no range
  (`driver.js:172`): `Prepare` has both (`ranged`), `PageIsKeyOrdered` speaks of pages only.
* The inline profile file that stays behind when its removal fails or DbGate is
  killed: no code tries again.
* A one-shot run of the beginning of a statement whose writer died: the runner does run
  it (`ReadStdin`), but there is nobody left to see the result.

Next, in this order:

1. Proofs: `PageIsKeyOrdered`, from lemmas about `Ranked`; that `ExtractFrame` and
   `ParseSession` of one chunk are those of its parts in turn; the invariants of
   `MetadataCache` stated without `Driver`.
2. The login dialogue of the session adapter with its frames, to the detail
   that `OneShotRunner` has of the other script.
