# A verification project for pdu-session-sim

`pdu-session-sim` simulates the control plane of a 5G core: an AMF, an SMF, a
UDM and a UPF, written in Go, which establish PDU sessions under load.  This
directory holds TLA+ models of the program, the TLC runs that check them and
the TLAPS proofs about them.  All paths below are relative to the repository
root (`src/` in `PROJECT.json`).

- [1. The system](#1-the-system)
- [2. The modules and the code](#2-the-modules-and-the-code)
- [3. The runs](#3-the-runs)
- [4. The proofs](#4-the-proofs)
- [5. What the code does that its documentation does not say](#5-what-the-code-does-that-its-documentation-does-not-say)
- [6. What is not modelled](#6-what-is-not-modelled)
- [7. Plan](#7-plan)

## 1. The system

One PDU session establishment goes through these steps (the numbers are those
of the 3GPP call flow, which the code's log lines use too):

```
 UE/simulator      AMF                     SMF                  UDM     UPF
     | POST /trigger |                       |                    |       |
     |-------------->| 3 CreateSMContext     |                    |       |
     |               |---------------------->| EnqueueJob         |       |
     |               |<----------------------| 5: 201 or 503      |       |
     |<--------------| store IMSI -> ref     |                    |       |
     |               |                 worker: save the row       |       |
     |               |                       |- query profile --->|       |
     |               |                       |- 10a PFCP establishment -->|
     |               |                       |<- 10b cause 1 -------------|
     |               |                 worker: row becomes ACTIVE |       |
     |               |<----------------------| 11 N1N2 ACTIVE     |       |
     |               | 200, goroutine        |                    |       |
     |               |- 15 UpdateSMContext ->|                    |       |
     |               |<-- 16 200 ------------|                    |       |
     |               | 17 "established"      |                    |       |
```

When a step of the worker fails, the worker marks the row `FAILED` with a
reason and sends the AMF a second N1N2 transfer with status `FAILED`.

### Components

| Component | Code | State | Operations | Talks to |
|---|---|---|---|---|
| AMF | `internal/amf/handler.go` | map IMSI -> smContextRef under an `RWMutex` | `TriggerEstablishment`, `ReceiveN1N2Callback`, `triggerUpdateSMContext` (a goroutine, after 50 ms) | SMF (HTTP, 5 s timeout) |
| SMF, SBI handlers | `internal/smf/handler.go` | a counter for references | `CreateSMContext` (accept or shed), `UpdateSMContext` (a stub that accepts any ref), `GetStats`, `GetSessions`, `TriggerProxy` | orchestrator, repository, AMF |
| SMF, orchestrator | `internal/smf/service.go` | buffered channel `jobQueue`, worker goroutines, address counter, success / failure / throughput counters | `EnqueueJob`, `AllocateIP`, `worker`, `processEstablishment`, `NotifyAMFSessionFailure`, `metricsReporter`, `Stop` | repository, UDM, UPF, AMF, dashboard |
| SMF, repository | `internal/smf/db.go` | one row per session, in a map under an `RWMutex` or in PostgreSQL behind a pool of 40 connections | `SaveSession`, `UpdateSessionStatusAndIP`, `UpdateSessionStatusWithReason`, `GetSession`, `GetAllSessions`, two counts | |
| SMF, PFCP client | `internal/smf/pfcp_client.go` | sequence counter, map sequence number -> one-place channel under an `RWMutex`, one goroutine reading, one per answer | `SendSessionEstablishmentRequest`, `listen`, `handleResponse` | UPF (UDP) |
| SMF, dashboard hub | `internal/smf/dashboard.go` | set of client channels, broadcast channel | register, unregister, broadcast, `ServeHTTP` | browsers (server-sent events) |
| UPF | `internal/upf/server.go` | map sequence number -> session | `handlePacket` in a goroutine per datagram | SMF (UDP) |
| UDM | `internal/udm` | a read-only table | `GetSubscriptionData` | PostgreSQL |
| Codec, configuration, wire types | `pkg/` | none | `EncodeRequest`, `DecodeRequest`, ..., `Load` | |
| Mains | `cmd/` | the repository a process has chosen | start, signal, orderly stop | |
| Load tester | `run_load.go` | counters, the last statistics | fires triggers in batches, polls until it takes the campaign for complete | AMF, SMF |
| Simulator | `cmd/simulator/main.go` | process groups, pending kills | starts the functions, checks their health, triggers one session, kills what it started | all |

### What is hard about it

*Concurrency.* HTTP handlers, workers, the receive goroutine, one goroutine per
PFCP answer, one per Step 15, the hub and the reporter all run at once.  The
queue, the AMF's map and the PFCP client's map are shared between them, and
each is read, unlocked and acted on later.

*Ordering.* The SMF offers the job to the queue before it writes the answer to
Step 3.  Nothing orders the worker's Step 11 after the AMF's handling of Step 5.

*Failure.* Every call out has a timeout (5 s for HTTP, 2 s for PFCP) and no
retry, and what timed out may still have been done: the UPF has no deletion, so
a session it installed after the SMF gave up stays.  A database statement may
fail, applied or not, and most of its errors are ignored.

*Restart.* Sequence numbers and addresses start from a constant in every
process; the queue, the AMF's map and the UPF's sessions are in memory only, and
no program reads anything back when it starts.

*Limits.* The queue is bounded and sheds load; sequence numbers and addresses
wrap around; dashboard channels drop events.

`PROJECT.json` lists these hazards one by one, each at its line, with the
properties that would catch it; where the code has nothing against a hazard, or a
property covers only a part of it, the entry says so.

### What makes each component correct

- **PFCP client and UPF.**  A call that succeeds has its session in the UPF and
  keeps it; no answer is taken for another call's; registrations do not leak; a
  call always returns.
- **Queue and workers.**  An accepted job is done by one worker, once, and is
  worked off whatever the peers do; a shed one leaves no trace.
- **Pipeline and failure path.**  Nobody hears of a session that the UPF does
  not hold; the recorded reason says what may be left in the UPF; an accepted
  session ends active and confirmed or failed and notified; a failed session
  never comes back.
- **AMF.**  Its entry of a subscriber is that subscriber's, and one the SMF has
  accepted; what it logs as established is active (it is not, see section 5).
- **Repository.**  Calls of many goroutines behave like calls on one table that
  happen one at a time, whatever fails; every call returns, and no connection of
  the pool is lost.
- **Identifiers.**  A reference is never made twice, not even after a restart; an
  address only when all of them have been used.
- **UPF server.**  Every request read is stored under its own number; nothing is
  stored or answered that no request asked for.
- **Crashes.**  A crash concerns only the jobs that were open in the SMF at the
  time, and the database knows of every session the UPF may hold.
- **Dashboard.**  It never delays the workers nor another dashboard, and what it
  delivers is in order.
- **Metrics.**  Reported throughputs never run ahead of the outcomes beside them
  by more than the jobs in hand, nor of the latencies they are divided into.
- **Start.**  SMF and UDM work on the same database, and a process that fell back
  to memory keeps no connections to one.
- **Load tester.**  What it counts as done is done (though it may report before
  the campaign is, see section 5), the breakdown explains every failure it
  reports unless its query was cut short, and it comes to an end if the accepted
  sessions do.
- **Simulator.**  It leaves nothing running unless it was interrupted.
- **Stop.**  Accepted jobs are worked off before the PFCP client is closed, and
  nothing is sent to a closed queue.

## 2. The modules and the code

```
 N4Transaction  <-- implements -- N4Session          (PFCP client, UDP, UPF)
      ^
      | used by
 Sbi <- Udm <- Smf --+
  ^                  +--> Establishment -- implements --> SessionLifecycle
  +--- Amf ----------+         ^                                 ^
                               | extended by                     | used by
                            Recovery                         LoadTester

 SessionRows <- SessionTable <-- implements -- MemoryRepository
                             <-- implements -- PostgresRepository

 PfcpWire <- UpfServer (codec, UDP server)   Identifiers (references, addresses)
 SmfProcess (main, HTTP server, queue, pool) Startup     (configuration, mains)
 Metrics    (counters, reporter)             Dashboard   (hub, streams)
 Simulator  (the interactive simulator)
```

The modules below the two diagrams look at parts that the pipeline touches
through one call each, or that run before or beside it.  They repeat the little
of the pipeline they need, at the level of detail their question needs.

- **`N4Transaction`** is the promise of the N4 layer to a worker: a call returns
  once, and successfully only if the UPF holds the session of that very call.
- **`N4Session`** is how the layer is built: `SendSessionEstablishmentRequest`
  split at every point where another goroutine can come in between (allocate
  the number, register the channel, write, wait, unregister), `handleResponse`
  split at its unlock (`RouteResponse`, `DeliverResponse`), and the UPF's
  `handlePacket`.  Datagrams written stay available: one can be handled late,
  out of order, twice or never.  A channel with one place is a Boolean, since
  every answer the UPF sends has cause 1.  `Smf` is a set of clients, so that
  two pods, or a pod before and after a restart, can be expressed.
- **`Sbi`** has the HTTP exchanges AMF and SMF share: `CreateSMContext` and its
  answer, and the N1N2 transfers.  The caller gives up on its own; the callee
  may handle the request all the same.
- **`Udm`** is a constant table, with the SMF's comparison of the answer.
- **`Amf`** has one action per outcome of `TriggerEstablishment`, the two kinds
  of callback, and the goroutine of Step 15, whose ref is the copy of the map's
  entry taken when the callback was handled.
- **`Smf`** has `CreateSMContext` with `EnqueueJob` (accept, hand over, shed)
  and the worker.  A send to the queue gives the job to a waiting worker directly,
  whatever its size, or takes a place, or the request is shed.  A worker's action
  is what it does between two calls that leave the goroutine; `pc[w]` names the next call.  `repo` is the session
  table: `status`, whether the address is set, `reason`.  `cause` is the reason
  the worker derives from the text of the error (`service.go:133-142`).
- **`SessionLifecycle`** is what the SMF promises about a session to those who
  read its database and its answers.
- **`Establishment`** composes them and holds the properties.
- **`Recovery`** extends it with crashes of SMF, UPF and AMF, each with the start
  that follows.  Every step of `Establishment` is taken over unchanged
  (`ProgramStep`) and given the sequence number it uses: the PFCP client counts
  from 1 again after a restart, and the UPF keys its sessions by number alone, so
  `sessions`, what the UPF holds, comes apart from `installed`, what it has
  answered for.  Exchanges on the wire survive the crash of the caller.
- **`SessionRows`**, **`SessionTable`**: the rows, the calls of
  `SessionRepository` and what they promise.  A write takes place at one moment
  between call and return, or not at all; a read answers with rows of one moment
  and may leave some out (`LIMIT`, a broken connection).
- **`MemoryRepository`** splits each call at lock, unlock and every assignment
  and copy between; **`PostgresRepository`** at taking a connection, the
  statement, every row of the answer and giving the connection back, with the
  ways out of each.  In the refinement of the first, a write takes place in the
  abstract table when the lock is taken: `TableNow` is the map as it will be when
  the writer is done, which is what everybody after it sees.
- **`Identifiers`**: the parts of a reference (clock, counter) and of an address
  (counter), read and advanced in separate steps by many handlers, over restarts.
  A byte has `Base` values.
- **`PfcpWire`** writes and reads the four messages byte by byte; **`UpfServer`**
  is the server around them: one buffer, a copy and a goroutine per datagram,
  both kinds of request, and datagrams that are none.  `N4Session` has the same
  server with its client, with numbers for datagrams.
- **`Startup`**: `Load` as the defaults, the file over them and the environment
  over both; the choice of the repository; the order in which `main` builds its
  parts.  SMF and UDM start side by side while the database and the UPF's name
  come and go.
- **`LoadTester`** uses of the SMF only the promise, `SessionLifecycle`.  The
  statistics are two queries, each of which sees one state of the table.
- **`Simulator`**: starting, sleeping, health checks, the trigger, the deferred
  kills in reverse order, an interrupt at any moment and the next run, whose
  functions find the ports of those left over taken.
- **`SmfProcess`** is `cmd/smf/main.go` from the first request to the exit.
  `main` has a program counter: `serving`, `shutdown` (inside
  `server.Shutdown`), `stop` and `wait` (the deferred `Orc.Stop`), `close` (the
  deferred `pfcpClient.Close`), `exited`.  `Shutdown` may always return with
  `timedOut`, since the five seconds may pass whatever else happens.  A handler
  that outlives it still runs, and a send to the closed queue panics, in its own
  goroutine, where `net/http` recovers it.  What a job does is one step here.
- **`Dashboard`** is the hub.  `register` and `unregister` have no buffer, so
  each is one step of hub and handler together, possible only when the hub is
  at its `select`; the loop over the clients is one step per client, in any
  order.  An event is its number in the order of `BroadcastEvent`.
  `pc[c] = "writing"` is a handler inside `Write` or `Flush`, for as long as its
  browser likes.
- **`Metrics`** has one action for each access to a counter.  Each job adds one
  unit of latency, so that a sum says whose latencies are in it.
- The theorems are in **`EstablishmentProofs`**, **`RecoveryProofs`**,
  **`N4SessionProofs`** (with `UpfServer` and the codec), **`SmfProcessProofs`**
  (with `Startup`), **`MemoryRepositoryProofs`**, **`RepositoryProofs`**
  (PostgreSQL and `Identifiers`), **`MonitoringProofs`** (`Metrics` and
  `Dashboard`) and **`ClientsProofs`** (`LoadTester` and `Simulator`).
- **`MC...`** extend the modules they check and give the constants their values
  for TLC.  `MCN4Session`, `MCSmfProcess`, `MCMonitoring`, `MCRepository` and
  `MCClients` put parts beside each other that share no variable: in a behaviour one of them moves, the others
  stay where they begin.  A property of a part that is checked there is a
  property of the part alone, since its own initial states and steps are all
  there, and no other part's step changes its variables.

Operators whose comment says *Mutant* are variants of the operation after them
with a plausible mistake; each is there to show that a property notices it.

Abstractions worth knowing about:

- Outside `Identifiers` a request, its `smContextRef` and its address are one
  value.  `RefsAreUnique` is why that is sound within one pod.  Two pods read two
  clocks and count separately; nothing says that their references differ, or
  their addresses, and `Identifiers` does not claim it.
- The reason is derived in the code from the error's text with
  `strings.Contains`-like tests, in a certain order (`Classify`).  In the model
  the text of an error is the set of those words in it: the prefix the pipeline
  gives it (`ReturnError`), and possibly `timeout` and `db` of the cause it wraps.
  It assumes that no subscriber identity contains a word that is looked for.
- In the model, as in the code, a database error of the update to `ACTIVE` and
  of the failure record is ignored, and a statement that reports an error may
  have been applied (`DbMayFail`, PostgreSQL).  The in-memory repository never
  fails.
- A UPF answer is always cause 1 (`server.go:113`), and the address the SMF
  sends always parses, so those two error branches are unreachable and absent.
- `NotifyAMFJobFailure`, `failSession`, `UpdateSessionStatus` and
  `SendSessionModificationRequest` are never called in the program and are not
  modelled; the UPF's answer to a modification is in `UpfServer`.  `failSession`
  would be the only sender of `session_update`, so metrics are the only events
  the dashboards ever get.
- AMF and SMF speak HTTP/1.1 to each other (both clients have a plain
  `http.Transport`), so every request is on a connection `server.Shutdown` waits
  for.  The SMF would also accept h2c; `Shutdown` does not wait for such
  connections, no component opens one, and none is modelled.
- The queue of `SmfProcess` has at least one place.

## 3. The runs

All instances are exhaustive.  Deadlock checking is off, because an instance
has a fixed number of requests, calls or events, after which the system rightly
rests; that nothing gets stuck before that is what the liveness properties say.
Of the connection pool in `smf_process`, whose calls never end,
`EveryStatementReturns` says it.

| Run | Instance | Shows |
|---|---|---|
| `n4_session` | one client, three calls, sequence numbers mod 4; beside it the UPF's server with three goroutines and eight datagrams | client, network and UPF implement `N4Transaction`; `AcceptedIsInstalled`, `PendingIsOpen`, and every call returns; the server stores each request it reads under its own number and invents nothing |
| `establishment` | three requests: two of one subscriber, one with a profile its subscriber lacks; queue of one place, two workers, in-memory repository | the safety properties of the composition: one worker per job, nobody hears of a session the UPF lacks, reasons that are true whatever words the error holds, recorded orphans, settled ends, adding counters, own mappings |
| `establishment_postgres` | two requests of one subscriber, queue of one place, one worker, any statement may fail, applied or not | sessions follow `SessionLifecycle`; every accepted job is worked off, also one that waits in the queue for the worker |
| `recovery` | two requests of one subscriber, one worker, queue of one place; SMF, UPF and AMF each crash once, at any moment | every session the UPF answered for has a row; requests that were not open at a crash of the SMF settle; a session leaves the UPF only by a restart, its own or the SMF's |
| `smf_process` | every combination of file and environment at the start; then three requests, one dashboard stream, two workers, one queue place, the signal at any moment; beside them three goroutines that share one PostgreSQL connection, any number of calls | SMF and UDM use one database, and no process keeps a pool it does not use; accepted jobs are worked off before the exit, with the PFCP client open; a handler meets a closed queue only after the five seconds; the process ends whatever its clients do; every goroutine gets the connection in its turn and returns from its call |
| `monitoring` | two workers, three jobs, one shed request; two browsers, three events, broadcast channel of one place, client channels of two | reported throughputs keep to the outcomes beside them and to the latencies taken, though each is accessed by itself; no send to a closed channel, streams in order, and a browser that does not read keeps nobody from being let in or let go |
| `repository` | in memory: three goroutines, two references, three calls; PostgreSQL: two goroutines, two connections, listings of two rows, three calls; identifiers: three requests, bytes of two values, an address counter two short of its end, a clock of three values, two restarts | both repositories implement `SessionTable`, also when a listing is cut short; no connection is lost; references differ over restarts, addresses until all have been used |
| `clients` | three triggers in batches of one, so any number of batches up to three; one row of an earlier campaign; queries may fail or be cut short; two runs of the simulator, the first perhaps interrupted | what the load tester counts as done is done, the breakdown covers what failed, it comes to an end once the accepted sessions have an outcome; the simulator leaves nothing running |
| `n4_two_pods` | two clients, one call each | `AcceptedIsInstalled` is violated (section 5) |
| `callback_race` | one request, one worker | `CallbackFindsContext` is violated (section 5) |
| `established_inactive` | two requests of one subscriber | `EstablishedIsActive` is violated (section 5) |
| `campaign_incomplete` | two triggers in batches of one, a repository that does not fail | `CampaignIsComplete` is violated (section 5) |

The largest are `establishment` (2.7 million states), `recovery` (2.1 million) and
`clients` (2.0 million); each ends within a few minutes.

**Why these bounds are enough.**

- *N4.*  Three calls on one client let an answer of one arrive while a second
  waits and a third registers, with one spare number so that no number is given
  out twice; wrap-around is excluded there on purpose (`EnoughNumbers` in the
  proof says where the line is).  Eight datagrams are both kinds of request,
  with equal and with different numbers, and datagrams that are too short or of
  no known type; three goroutines run while the buffer is used for the next.
- *Establishment.*  With three requests and two workers, one queue place is
  enough for a job to be handed to a waiting worker, to wait, for a request to be
  shed, and for two sessions of
  one subscriber to be in progress at once, which is what the AMF's map is
  sensitive to; the third request takes the branch of the wrong profile.
  `Worker` is symmetric.  With PostgreSQL there are two requests because every
  statement has up to three outcomes, and one worker, so that the second request
  waits in the queue while the first is worked on.  What the proofs add is any
  number, and `QUEUE_SIZE=0`.
- *Recovery.*  One crash of each, in any order and at any step, with one session
  in the hands of the worker and one in the queue.  The number of a session
  given to the UPF twice needs one request before the crash of the SMF and one
  after it.
- *Process.*  One request is in a worker, one in the queue and one is shed or
  arrives late, with the second worker idle.  Of the three goroutines at the database one
  uses the connection while two wait for it, which is what more workers (50) than
  connections (40) come to.
- *Monitoring.*  Each channel can be full: an event is dropped at either, and
  later ones follow.  The reporter ticks any number of times, which stops
  changing anything once the jobs are done.
- *Repositories.*  Three goroutines are two that use the store and one that
  waits, a reader and two writers or the other way round; two references
  distinguish the row written from another, and let a listing of two rows be cut
  short after the first while the second goroutine writes to the other.
- *Identifiers.*  Requests of one life share a clock value or do not; requests
  are in progress at a restart; the third address is past the end of the counter.
- *Clients.*  Three batches follow each other until the timer fires; a trigger may
  be accepted, shed, or time out after it was accepted, while others of its
  campaign are done, in the queue or not yet sent.

**Fairness.**  Of the SMF only goroutines are assumed to run: weak fairness of the
steps of each worker, and of each call of the PFCP client.  The runtime
schedules every goroutine that can run, and each wait has a timer of its own:
the UDM and AMF calls time out after 5 s, the PFCP call after 2 s.  A database
statement is taken to return, with an error if need be; the code passes
`context.Background()`, so this is an assumption about the database driver, not
something the code enforces.  Nothing is assumed of the AMF, the UPF or the
network: they may never take a step.

- In `smf_process`, `main` and the workers are weakly fair (a worker's job
  always ends, by the above); nothing is assumed of the handlers.  `Startup`
  claims no liveness.  Of the goroutines at the database each next step is weakly
  fair; a step of PostgreSQL is its answer or the loss of the connection, which
  is the assumption about the driver again.  Getting a connection is strongly
  fair: `pgxpool` serves those who wait in their order.
- In `monitoring` the hub is weakly fair, since it never waits, and registering,
  unregistering and leaving are strongly fair: they compete in a `select` with
  cases that may be ready again and again, and Go's `select` picks uniformly
  among the ready ones.  A write is assumed to return only once its connection
  is closed.
- `repository` and `recovery` check safety only and assume nothing.
- In `clients` the tester's own steps are weakly fair, and so are its timers
  (10 s on every request).  Nothing is assumed of the SMF: a failing database may
  leave an accepted session without a row or its row `CREATING` for good, and
  then the tester may poll for ever.  `TesterEnds` names the condition instead:
  once every accepted session of the campaign has an outcome.  `RunQuery` is
  strongly fair at the first query: a database that is asked over and over does
  not fail every time.  The simulator claims no liveness.

## 4. The proofs

TLAPS proves, for every value of the constants:

| Theorem | From |
|---|---|
| `N4SessionProofs`: `TypeCorrect` | `N4Assumption` |
| `N4SessionProofs`: `RegistrationsAreOpen` | and `EnoughNumbers`: no client makes as many calls as there are sequence numbers |
| `N4SessionProofs`: `AcceptedStaysInstalled`, `Refinement` | and `OneClient`: all calls are made by one client |
| `EstablishmentProofs`: `TypeCorrect`, `JobsAreDoneOnce`, `ActiveStaysInstalled`, `ReasonsAreTrue`, `AcceptedIsSettled`, `OrphansAreRecorded`, `ShedCostsNothing`, `MappingsStayOwn`, `KeepsLifecycle` | the assumptions on the constants (`SbiAssumption`, `UdmAssumption`, `NoRefAssumption`, `SmfAssumption`) |
| `EstablishmentProofs`: `EveryRequestIsCounted` | and that `Req` and `Worker` are finite, since it counts them |
| `RecoveryProofs`: `RecoveryTypeCorrect`, `CrashesLeaveRows`, `SurvivorsSettle`, `SessionsLeaveByRestart` | and `RecoveryAssumption` |
| `SmfProcessProofs`: `TypeCorrect`, `PfcpOutlivesWorkers`, `PanicsNeedTimeout` | `ProcessAssumption` |
| `SmfProcessProofs`: `StopWorksOff` | and `Worker # {}`: with `MAX_WORKERS=0` the stop leaves the queue as it is |
| `SmfProcessProofs`: `StartInvariant`, `BothUseTheDatabase`, `PoolsAreUsed` | nothing; files and environments are arbitrary |
| `MonitoringProofs`: `HubTypeCorrect`, `HubSendsToOpenChannels`, `StreamsAreInOrder` | `DashboardAssumption` |
| `MonitoringProofs`: `MetricsTypeCorrect`, `NoJobIsLost`, `LatencyIsComplete`, `ReportsAreConsistent` | `MetricsAssumption` (the pool is finite) |
| `MemoryRepositoryProofs`: `MemoryInvariant`, `MemoryIsTable` | `MemoryAssumption` |
| `RepositoryProofs`: `PgInvariant`, `NoConnIsLost`, `PostgresIsTable` | `PostgresAssumption` (the limits are numbers) |
| `RepositoryProofs`: `IdentifiersInvariant`, `IdentifiersTypeCorrect`, `RefsUnique`, `AddressesUnique` | `IdentifierAssumption` |
| `N4SessionProofs`: `UpfInvariant`, `ReadIsStored`, `NothingIsInvented` | `UpfAssumption`: a datagram is a sequence of bytes |
| `N4SessionProofs`: `RequestSurvives`, `AnswerSurvives` | nothing; they are about every sequence number of 32 bits |
| `ClientsProofs`: `TesterInvariant`, `DoneIsDone`, `BreakdownIsComplete` | `TesterAssumption` (the sessions are finitely many, since they are counted) |
| `ClientsProofs`: `SimulatorInvariant`, `SimulatorCleansUp` | `SimAssumption` |

**N4.**  None of the properties is inductive.  The invariant adds that the number
of a call in progress is between 1 and its client's counter, that two calls of
a client have different numbers, that a channel held by a routing goroutine or
filled belongs to a call whose answer was sent, and that an answer is sent only
for a session that is stored.  Distinct numbers need `EnoughNumbers`, an upper
bound on how many calls the counter has served; with a wrap the invariant, and
the property, fail.  `Refinement` proves the initial condition and one step per
action; the abstract `Install` is the UPF's `HandlePacket`, and it is there that
`OneClient` is needed: otherwise `HandlePacket` also *un*-installs.

**Establishment.**  `IInv` has one part per idea: where a request is determines
what has happened to it.  `Untouched` says that a request no worker has had has
no row, no UPF session and no transfer; `StageOf` ties the state of the N4 call,
the row and the transfers to the `pc` of the worker that holds the job;
`SettledBut` says what holds of a job that is over; `TriggerInv` relates AMF and
SMF; `PlaneInv`, `JobInv`, `StepInv` carry the facts about single requests and
workers that the actions disturb.  `SettledBut` is why `OverIsSettled` and
`OrphanIsRecorded` need `StageOf`: when a worker finishes, only the history
kept in its stage says which outcomes are left.  Each lemma is about one action
and the parts it can disturb.

`IInv(E)` and `SettledBut(E)` take the set of requests that are excused from
being settled: none for `Establishment`, and for `Recovery` the requests lost in a crash.
`InvStep` is the one proof for both.

`EveryRequestIsCounted` has a second invariant, `CountInv`: the two counters, the
queue and the workers that have not yet added to a counter are together as many as
the requests answered, where a shed one is in the failure counter at once.  Each
action adds or takes one member of one of these finite sets.
`KeepsLifecycle` proves that a step changes the phase of at most one session,
and that every such change is a step of `SessionLifecycle`.

**Recovery.**  The invariant is `IInv(lost)`, where `lost` are the requests that
were open at a crash of the SMF, together with `NumberInv` (the counter never
exceeds the number of requests asked, and as long as the SMF has not crashed no
two requests have one number) and `HoldInv` (what the UPF holds under a number
was asked for with it).  A crash makes worker, queue and counters those of a start;
the requests it takes out of them are exactly those it adds to `lost`, so that
nothing else has to be settled.

**Memory repository.**  The invariant is that the lock is owned by who is inside
it, by one writer alone or by readers, that doing the rest of a write in
progress once more changes nothing, and that what a reader has copied is what
the map holds.  With it the moment of the lock is the moment the
write takes place in `SessionTable`, and every other step stutters or is a call
or a return.

**PostgreSQL repository.**  `PgInv` has three parts.  `ConnInv` says that the free
connections and the goroutines that hold one are together the pool; every way
out of a call passes `Close`, which is why `NoConnIsLost` holds with any number of
goroutines.  `PgDataInv` says what a goroutine has of its answer so far: nothing
before the statement, and then only rows the database sent, unchanged, and
nothing at all after an error.  In the refinement the statement is the moment at
which the call takes place in `SessionTable`, an error before it is a call that
never takes place, and the rows that are read later are those of that moment.
The lemmas about rows and calls are the ones of the repository in memory.

**Identifiers.**  A reference is the time and the counter; the counter a handler
has got is not above the pod's counter, no two handlers of one life got the same,
and what a later life stamps is later, since a restart takes time.
For the addresses `AddressInv` numbers the requests of one process in the order in
which they took the counter: `InSequence` says that such a numbering exists, in
which the request numbered n got the address `First + n` modulo the number of
addresses, and `CounterAt` that the counter stands at the number of requests
served.  As long as those are no more than there are addresses, two numbers are
different modulo it, and two values of the counter have different bytes.  The lemmas
on quotients and remainders (`OneQuotient`, `DividedSo`, `WrapsOn`) hold for any
base, so that 256 plays no part in it.

**UPF server.**  That a goroutine has the datagram that was read for it
(`CopyIsRead`) holds only because the copy is made before the buffer is read into
again, so `UInv` also has the moment between: what is in the buffer has
been read.  `NoneIsLost` says where a request is on its way to the table, and
`StoredIsAsked` and `AnswersAreTrue` name the datagram a row and an answer go back to.

**Codec.**  `Prefix` are the eight bytes that both kinds of message begin with,
`HeaderIs` that the header is read back from them.  It needs that four
bytes and the number they stand for determine each other (`WrittenAgain`,
`HasBytes`).  The sequence number is what ties an answer to its call, so this is
what `N4Session` takes for granted when it has numbers for datagrams.

**Start.**  `StartInv` follows the two processes through their stages: which
configuration a process works with, whether the repository is chosen, and that one
that works in memory although a database was named has seen it down.  A process
has its pool from the moment it opens it to the ping that fails; on the two ways
to memory that never open one, and on the one that closes it, it has none.

**Load tester.**  What an answer of the SMF counted stays true, because a session
that is over stays over, so that the counts of `SessionLifecycle` only grow; the second
query of an answer is later than its first, whose count of failures is
`FailedIsTrue` until then.  A query that was cut short has counted some of its
groups or none, which keeps `TotalDoneIsTrue`; `BreakdownCoversFailed` is about
answers whose second query was not.

**Simulator.**  `KillIsPending`: in a run that was not interrupted, every function
that was started has its kill pending, and the kills end with the run.

**SmfProcess.**  The invariant says what each stage of `main` has already
ensured: from `stop` on either no handler is running or the time-out is
recorded, the queue is closed from `wait` on, the workers are gone from `close`
on; and that an accepted request is in the queue, in a worker or done, where a
worker that has ended saw the queue empty, which stays so once it is closed.

**Dashboard.**  `RegisteredIsOpen` is nearly inductive by itself.  The order of a
stream follows from one increasing line: what a client was shown, its channel,
the event in the hub's hand if it has not been offered yet, the hub's channel,
the events to come.

**Metrics.**  Two balances, of throughputs and of latencies, with the number of
workers between two additions as the difference; the theorems follow by
cardinalities of those sets.

**Proved and not in a run.**  `ShedCostsNothing`, `NoJobIsLost` and the type
invariants were checked by TLC while the proofs were made; the theorems say the
same of every instance.  `RequestSurvives` and `AnswerSurvives` are about
operators alone.

**Only model-checked.**  The liveness properties `CallReturns`,
`AcceptedIsWorkedOff`, `SignalEndsProcess`, `NewIsAdmitted`, `GoneIsReleased`,
`EveryStatementReturns` and `TesterEnds`: liveness under fairness, and `ENABLED`,
are out of the prover's reach.  Every safety property and
every refinement that a passing run checks is also a theorem.

## 5. What the code does that its documentation does not say

Four runs end in a counterexample.

1. **`callback_race`.**  The SMF queues a job before it answers 201
   (`internal/smf/handler.go:49-75`), and the AMF stores its mapping after it
   has read that answer (`internal/amf/handler.go:133-136`).  A fast worker's
   Step 11 finds no entry and is answered 404; the SMF records `N1N2_FAILED` for
   a session that the UPF holds.  `report.md` (66-81) draws Step 5 before Step
   11 and Step 11 answered 200.
2. **`established_inactive`.**  An ACTIVE callback starts Step 15 for the ref in
   the AMF's map, which has one entry per subscriber, and the SMF acknowledges
   any ref.  With two sessions of one subscriber the AMF logs as established one
   that the SMF has not activated; the same happens to a session whose Step 11
   the SMF gave up after five seconds.
3. **`n4_two_pods`.**  The UPF keys sessions by sequence number alone and every
   PFCP client counts from 1.  A second pod, which `k8s/smf.yaml` (58, 59)
   allows, or a restarted one replaces sessions reported as established.
4. **`campaign_incomplete`.**  The load tester says that it waits for the workers
   to end the whole flow (`run_load.go:131`), and takes the campaign for complete
   when something is done and nothing is `CREATING` (`run_load.go:159`).  Jobs
   that were accepted and still wait in the queue have no row, so they are in no
   count, and its report may come before they have begun.

Three more came up in the modelling; no run is spent on them.

- `report.md` (143, 144) says that a session dropped because the queue is full is
  marked `FAILED` in the database.  It is answered 503 and counted, but never
  stored; that a shed request leaves nothing behind is the theorem
  `ShedCostsNothing`.
- `report.md` (86-93) has Step 15 lead to an N4 modification.  `UpdateSMContext`
  sends none, so Step 17 may be announced for a session that the UPF has lost
  in a restart; only the modification would have put it back
  (`internal/upf/server.go:144-150`).
- The simulator prints `SUCCESS: PDU Session established successfully!`
  (`cmd/simulator/main.go:109`) on the answer 201 of the AMF, which is given
  before a worker has taken the job up.

## 6. What is not modelled

- The monitor script, the logger, the web page, the schema, the deployment files
  and the reports: sequential input and output, or data.  The mains of AMF and
  UPF, which are those of SMF and UDM with fewer parts.
- `TriggerProxy`, which passes a request on and keeps nothing; `failSession` and
  the other functions without a caller (section 2).
- HTTP and JSON, beyond who has heard what, and requests with a malformed body,
  which are refused before they change anything.
- Time, beyond the fact that a timer may fire at any moment.  The reporter reads
  the global `Hub` before `main` has assigned it only in theory: its first tick
  is a second later.
- PostgreSQL itself, beyond the outcomes of a statement and the rows of an answer.
  The repository does not look at `rows.Err()`, so a list that a broken
  connection cut short is taken for a short list; `SessionTable` allows it.
- The preference of an `RWMutex` for a waiting writer.  It decides who goes first,
  and no property depends on it.
- Two SMF pods outside `N4Session`.  References and addresses of two pods are not
  claimed to differ.
- An SMF and a UDM that found the database at different times: with it down, each
  falls back to what it has in memory, and the two may work on different stores.
  `OneDatabase` is about a start during which it was up.
- `MAX_WORKERS` of zero or less in the composition: every accepted job stays in
  the queue.  `Startup` has such a start; `StopWorksOff` says where the number
  matters.
- What becomes of failures the database causes: the row that stays `CREATING`
  after an ignored error (`service.go:236`), the AMF that is not notified because
  the row cannot be read back (`service.go:282`), the `ACTIVE` rows of sessions
  lost in a restart of the UPF, the addresses given again after a restart, the
  functions an interrupted simulator leaves.  The models have all of them; the
  code does nothing against them, and the properties are stated around them.
- What the numbers of a report are used for; a tick without throughput reports
  an average latency of 0 and drops the latency it took, which `Metrics` shows
  as latency taken in excess of throughput.  The percentiles and rates the load
  tester prints.

## 7. Plan

Every invariant, action property and refinement is proved.  What is left:

1. The safety half of the liveness arguments: for each waiting place of the PFCP
   client, the workers and the stop, that what is waited for is still to come
   (a timer, a statement, a job), as invariants that reduce `CallReturns`,
   `AcceptedIsWorkedOff` and `SignalEndsProcess` to fairness.
2. `Recovery` with the tables of `SessionTable` in place of the one-step rows of
   `Smf`, should the SMF ever read anything back when it starts.
3. The mains of AMF and UPF, should they ever do more than start and stop.
