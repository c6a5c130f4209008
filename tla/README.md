# TLA+ verification of TG-Proxy-Relay

TG-Proxy-Relay is a Go server that lets the clients of an owner reach Telegram's
data centres through a WebSocket. This directory holds TLA+ modules that model the parts of
it in which concurrency, crashes and retries matter, the TLC configurations that check
them on small instances, and proofs (TLAPS) of the properties that matter most for
every instance. Every definition is translated from the Go source; `PROJECT.json`
("map") names the lines.

Contents: [1 the system](#1-the-system) · [2 modules](#2-modules-and-their-correspondence-with-the-code) ·
[3 runs](#3-runs) · [4 bounds](#4-bounds) · [5 fairness](#5-fairness) · [6 proofs](#6-proofs) ·
[7 findings](#7-what-the-runs-found) · [8 limits](#8-what-is-not-modelled) · [9 plan](#9-plan)

## 1. The system

### Components, state, operations

| component (source under `src/`) | state | operations |
|---|---|---|
| **control plane** (`internal/relay/control_plane.go`) | under one mutex: configured and added tokens, revoked hashes, tombstones of deleted tokens, tracked devices, blocked devices, the registry of open sessions, the dirty flag and flush timer, the geolocation cache and its busy set; the state file | `newControlPlane`/`load`/`prepareIdentity`, `authorizeClient`, `deviceBlocked`, `registerSession` and the `unregister` closure it returns, `createToken`, `deleteToken`, `disconnectDevice`, `setDeviceBlocked`, `flushClientState` (timer callback), `resolveLocation` (goroutine), `shutdown`, `overview` (read only) |
| **session limiter** (`internal/relay/upstream_pool.go:191-255`) | three counters under a mutex, and the reservation of each handler | `reserve`, `upstreamDialDone`, `release` |
| **upstream pool** (`internal/relay/upstream_pool.go:21-189`) | per endpoint: failures, time of the next try, probe lease; a rotation cursor; per dial: a result channel and a goroutine per endpoint | `ordered`, `succeeded`, `failed`, `dialTelegramRoute`, `dialEndpointWave`, `closeLateEndpointConnections` |
| **topology manager** (`internal/relay/topology_manager.go`, `internal/topology/bundle.go`) | the snapshot in force (RWMutex), `refreshMu`, `onDemandMu`, the time of the last on-demand refresh; the last-known-good file | `newTopologyManager`, the refresh loop, `refresh`, `ensureRoute`, `addresses`, `persistTopologySnapshot`; `Verify` |
| **WebSocket handler** (`internal/relay/websocket.go:35-127`) | one goroutine per client | block check → on-demand route → reservation → dial → hijack → registration → bridge → unregister, release |
| **bridge** (`internal/relay/websocket.go:129-322`) | two connections, three atomics, a write mutex, a `done` channel | copier, reader, heartbeat, idle watchdog, `closeBoth` |
| **frame reader** (`internal/relay/websocket.go:324-503`) | the fragments of a message | `nextEvent`, `readClientFrame`, close-code validation |
| **HTTP server** (`internal/relay/server.go`) | lifecycle | `ListenAndServeContext`, authentication, informational handlers |
| **route report** (`internal/relay/server.go:277-448`) | two slices filled by up to six workers | `checkRoutes`, `formatRouteReport` |
| **owner API** (`internal/relay/owner_http.go`) | none | decodes requests and calls the control plane |
| **configuration** (`internal/config/config.go`) | none after start | loading, defaults, validation |
| **commands** (`cmd/*`) | none | the relay's `main`, the offline signer of topology bundles |

### Interactions

A client's handler passes through four components, and *gives up every lock between
them*: the control plane authorizes it (lock), tests the block (lock), the topology
manager may fetch a new bundle (two mutexes, up to 20 s), the limiter reserves a slot
(lock), the pool dials Telegram (up to the connect timeout), and only then the control
plane registers the session (lock). The owner's handlers change tokens and blocks in the
meantime, collect the close functions of sessions under the lock and call them after it.
Timer callbacks and lookup goroutines take the same lock later. The control plane and the
topology manager each own a file that a restart reads back and trusts.

### What is hard, and what correctness means

* **Stale decisions.** Authorization is seconds old when a session registers. Correct: no
  session of a deleted token, of a blocked device or of a stopping relay escapes being
  closed (`RevokedSessionsClose`, `BlockedSessionsClose`, `StoppedSessionsClose`), also when
  a device is renamed meanwhile; a deleted token's connections end for good (`DeletedTokenEnds`).
* **Durability.** An owner's change is on disk when it is reported and fully undone when the
  write fails (`OwnerChangesDurable`); revocations, tombstones and the identity survive every
  crash (`RevocationIsForever`); a retry never revives a deleted token
  (`DeletedStaysDeleted`); no legal sequence of calls produces a file the next start refuses
  (`DiskLoadable`, `StartsAgain`).
* **Coalesced writes.** Metadata is written later by a timer that other writes stop. Correct:
  nothing dirty is forgotten (`FlushScheduled`, `FlushesEventually`), nothing is marked clean
  that is not written (`CleanMeansDurable`), shutdown writes all (`ShutdownFlushes`).
* **Devices.** Migration and pruning rewrite keys under open sessions
  (`SessionsHaveDevices`, `BlocksOutliveMigration`); one lookup per address (`BusyMatchesLookups`).
* **Admission.** The counters are exact, the limits bound the real connections, nothing leaks on
  any path of a handler, a busy relay is not busy for ever (`CountersExact`,
  `ConnectionsWithinLimits`, `NothingLeaks`, `BusyIsTemporary`).
* **The dial race.** Whatever the order of results, context end and drainer, exactly the
  returned connection stays open (`OnlyWinnerStaysOpen`), all goroutines end (`DialsSettle`),
  no wave is skipped (`GivesUpLast`), healthy endpoints go first (`HealthyFirst`), backoff is
  bounded (`CooldownBounded`).
* **The bridge.** Four goroutines end each other: when one ends, all do, although each may be in
  a read, a write, a lock or a timer (`BridgeEnds`, `IdleTunnelEnds`). Two atomics that are
  written one after the other decide whether the client is dead (`AckNotLost`,
  `OnlyExpectedPongCounts`).
* **Frames.** Fragments, control frames between them, three encodings of a length and a size
  limit: the messages arrive whole and in order, nothing is collected beyond the limit, and
  every error ends with its close code (`MessagesIntact`, `FragmentsBounded`, `RightCloseCode`).
* **Shutdown.** Hijacked connections are unknown to `http.Server`: the relay has to end
  them itself, and return even if it cannot (`ShutdownEnds`).
* **Topology.** The generation in force only grows, across racing refreshes, replays, crashes
  and restarts (`GenerationsOnlyGrow`, `PublishedOnDisk`, `StartsAgain`); the two mutexes
  never deadlock (`LocksMatchSteps`, `RequestsAnswered`).
* **Routes and their report.** The relay connects only where the file or the bundle in force
  lets it (`RoutesAsConfigured`). The workers of the report write results without a lock, and a
  nil error reads as OK: no result may be shared or left unwritten (`ResultsNotShared`,
  `ReportTrue`, `ReportReturns`).

`PROJECT.json` ("hazards") lists these per source line, and those no property covers.

## 2. Modules and their correspondence with the code

| module | role |
|---|---|
| `SessionLimiter` | the limiter; each method is a step, the handler's calls interleave |
| `ControlPlane` | the control plane, its file, its timers, goroutines and clients |
| `UpstreamPool` | the endpoint health map and the dial race |
| `TopologyManager` | the topology manager and its file |
| `GenerationHistory` | abstract: a generation that only grows while the relay is up, and what a power loss may take back of it; implemented by `TopologyManager` |
| `TokenStore` | abstract: tokens created and deleted whole, one at a time; implemented by `ControlPlane` |
| `Relay` | composition: handlers from request to return over `SessionLimiter`, with token deletion and the life of the server |
| `FrameReader` | the frame reader as pure operators |
| `Bridge` | one session: four goroutines, which step through `FrameReader` |
| `Routes` | the config file's routes, `AddressesForRoute`, `addresses`, `configuredDCs` as pure operators |
| `RouteReport` | the dispatcher and the workers of the route report, over `Routes` |
| `MC…` | definitions for TLC (sets of offers, headers, bundles, frames, config files) |
| `ControlPlaneProofs`, `ControlPlaneSessions`, `TopologyManagerProofs`, `RelayProofs` (with the limiter), `BridgeProofs`, `UpstreamPoolProofs`, `RouteReportProofs` | theorems and proofs |
| `SequenceLemmas` | lemmas about numbers, finite sets of numbers and concatenation, used by the proofs about frames and routes |

**Atomicity.** What the code does while it holds `c.mu` (or the limiter's mutex) is one step,
including the write of the file. What happens after an unlock is a step of its own: running
a collected close function (`runCloser`, `closeSession`), the upstream dial between `deviceBlocked`
and `registerSession`, timer callbacks (a timer that expired waits in `fired`, where `Stop`
does not reach it), and the three critical sections of `resolveLocation`. Each access to an
atomic of the bridge, and each wait of it (a read, a write, the writer's mutex, a timer) is a step.

**ControlPlane.** `state` is `c.state`; `AddedTokens` is a set whose elements carry their
position; timestamps are kept only where they decide something (`seen`, for pruning). Device
metadata is one value; text, sanitizing and formatting are left out. The IP-derived legacy
device identifier is the address itself. `c.active` is the set of requests whose step is
`open`, each with the key its `trackedSession` is filed under (`key`, rewritten by a
migration) and the key its `unregister` closure captured (`own`).
`disk` is the file as the operating system shows it, `platter` as a power loss leaves it:
they differ after a directory fsync that failed and was only logged, and after several of
these the platter may hold any of the versions since. `persistLocked` is
written once and used by every writer, with all its outcomes; `crash(disk)` kills the process,
`crash(platter)` is a power loss. While the process is down, `state` is what the next
start will read.

**TokenStore.** What the owner API promises about tokens, without files, timers or restarts: one
token is created or deleted per step, whole, and an identifier that was deleted is not created
again. `ControlPlane` implements it with `active <- allTokens(state)` and
`gone <- DeletedIDs(state)` (`TokensAtomic`): a write that fails, a flush, a crash and a restart
are stutters. An added token whose hash an earlier one has, or is revoked, is in neither set.

**UpstreamPool.** A dial is one call of `dialTelegramRoute`; `racer` is the state of the
goroutine of each endpoint, `open` the connections nobody has closed, `late` the results its
drainer still waits for. The result channel never blocks (its capacity is the size of the
wave), so computing a result and sending it are one step.

**TopologyManager.** `step` says where each caller of `refresh` is (`wait` and `lock` wait for
`onDemandMu` and `refreshMu`). Fetching and applying are two steps, so a bundle verified
earlier may be applied after a newer one. The source may serve every bundle that was ever
signed, at any time. `apply` compares, writes the file and publishes in one step because the
code does so under the write lock. `disk` and `platter` are those of `ControlPlane`; here a directory
fsync that fails is an error, after which the new file is there and not in force.

**GenerationHistory.** `generation` is what the relay routes by, or would route by if it were
started; `sure` is the part of it that no power loss takes back. A publication is sure at
once; a start puts in force what is there, sure or not; a stop takes back at most what is not
sure. `TopologyManager` implements it with `InForce` and `Sure` (`GenerationsOnlyGrow`).

**Relay.** `EXTENDS SessionLimiter` and uses its variables and operations as they are; `step`
is the position of each handler in `handleWebSocket`, from the authorization to the deferred
`release`. `conn` is its connection to Telegram, `sock` the client's hijacked connection,
`sessions` the registry, `closing` the close functions collected and not yet run. The dial, the
bridge and the registration are one step each, ending in any of the outcomes that the modules
that detail them allow. `server` follows `ListenAndServeContext`: `Shutdown` waits for handlers
that have not hijacked, gives up after its timeout, then `controlPlane.shutdown` closes what is
registered. `managed` is whether there is an admin token: without one nothing is ever registered.

**FrameReader, Bridge.** A frame is a record of the header fields that decide something and the
payload as a sequence; the sizes of a byte and of the length fields are constants.
`nextEvent` is one frame's worth of the loop in the code ("none" goes round it again), `fragments`
what it leaves collected. In `Bridge`, `step` is what each goroutine is about to do and `job` the
frame or message it does it with. `disconnect` is the close function that the control
plane got: it closes both connections and leaves `done` to `closeBoth`. A read, a write or a
forward on an open connection may fail at any time, and fails at once on a closed one. `age`
is the time since the last application activity.

**Routes, RouteReport.** A route table maps a DC to an address (`dcMap`) or to endpoints with
roles (`dcOptions`). `Config` is what `LoadFile` makes of a file whose members are absent, null
or maps; `addresses` and `configuredDCs` read the snapshot in force. In `RouteReport` each read
of the snapshot is a step, so that a refresh may come between the main and the media
route of one DC. `failed` and `completed` are the two slices that the workers fill.

Operators named `Mut…` are variants of the operator that follows them with a plausible bug
(a lost guard, a rollback that forgets something, an off-by-one); substituting one breaks the
property it is paired with in `PROJECT.json`.

## 3. Runs

Passing:

| run (`cfg`) | properties | distinct states | the question |
|---|---|---|---|
| owner_state (`CPOwner`) | TokensAtomic, DeletedStaysDeleted, DiskLoadable, OwnerChangesDurable, RevocationIsForever, CleanMeansDurable, ShutdownFlushes, FlushesEventually | 283,118 | creations with and without keys, replays, conflicts, deletions at the limits, beside a session whose metadata is flushed by timers that fire while they are stopped; failing writes, crashes, restarts; under `FairSpec` |
| sessions (`CPSessions`) | RevokedSessionsClose, StoppedSessionsClose | 458,121 | two requests against revocation, blocks, disconnects, shutdown, crashes and power losses, on storage whose directory fsync may fail |
| devices (`CPDevices`) | BlockedSessionsClose, SessionsHaveDevices, BlocksOutliveMigration | 765,650 | one phone under three identities, at the limit of tracked devices |
| geo (`CPGeo`) | BusyMatchesLookups | 701,951 | lookups, expiry, eviction, moving devices, without an atomic rename |
| up_waves (`UpWaves`) | OnlyWinnerStaysOpen, GivesUpLast, HealthyFirst, DialsSettle | 520,071 | one dial, three endpoints, waves of two |
| topology (`MCTopologyManager`) | TypeOK, PublishedOnDisk, StartsAgain, GenerationsOnlyGrow, RequestsAnswered | 121,532 | loop and two requests, three bundles, failing writes, directories that cannot be synced, crashes, power losses; under `FairSpec` |
| relay (`MCRelay`) | CountersExact, NothingLeaks, ConnectionsWithinLimits, BusyIsTemporary, DeletedTokenEnds, ShutdownEnds | 243,162 | three handlers, an owner who deletes a token, a server that shuts down; under `RelaySpec` |
| bridge (`Bridge`) | AckNotLost, OnlyExpectedPongCounts, BridgeEnds, IdleTunnelEnds | 380,657 | four goroutines, peers that send, fall silent, break, or ping and pong for ever; with and without an idle timeout; under `FairSpec` |
| frames (`Frames`) | MessagesIntact, FragmentsBounded, RightCloseCode | 70,018 | every stream of up to three frames out of 25, against what RFC 6455 makes of it |
| routes (`MCRouteReport`) | ReportTrue, ResultsNotShared, RoutesAsConfigured, ReportReturns | 279,616 | the report with two workers over many config files, while a bundle replaces the routes and the deadline passes; under `FairSpec` |

The two runs that end in a counterexample (`reused_secret`, `power_loss`) are described in
[section 7](#7-what-the-runs-found).

Deadlock is checked except in `Bridge`, `Frames`, `MCRelay` and `MCRouteReport`, where the
session, the stream, the server or the request really ends (and in `CPSharedSecrets`, where a
file that the next start refuses ends it). In the others `tick` and the
environment's free actions keep the models from stopping, so the liveness properties, not
deadlock freedom, are what shows that nothing waits for ever.

Six more configurations ask questions that the runs above answer only in part:

| `cfg` (module) | properties | |
|---|---|---|
| `MCSessionLimiter` (`MCSessionLimiter`) | TypeOK, CountersExact, WithinLimits, BusyIsTemporary | the limiter by itself, where `release` may come before the end of the dial; 1,881 states |
| `UpShared` (`MCUpstreamPool`) | TypeOK, CooldownBounded | two dials share the health map; 1,679,577 states |
| `CPTokens` (`MCControlPlane`) | TypeOK, TokensAtomic, DiskLoadable, OwnerChangesDurable, DeletedStaysDeleted, RevocationIsForever | two identities: a file that names another `instanceId`; 924 states |
| `CPFlush` (`MCControlPlane`) | CleanMeansDurable, ShutdownFlushes, FlushesEventually | three timers; 113,300 states |
| `CPSharedSecrets` (`MCControlPlane`) | DeletedStaysDeleted, SessionsHaveDevices, TokensAtomic | secrets used again, also that of a configured token: what holds nevertheless; 60,752 states |
| `CPRecreatedSecret` (`MCControlPlane`) | RevokedSessionsClose | ends in the counterexample that section 7 describes |

## 4. Bounds

* `MaxNow` bounds the clock, `MaxStamp` the positions ever used in `AddedTokens`, `Timers` the
  number of timers that exist at a time: an action that would need one more waits. A timer that
  fires while it is stopped and the new one need two timers (`CPOwner`); a late callback
  together with a stopped timer and a new one needs three (`CPFlush`). In the
  other configurations fewer suffice because their properties do not look at timers.
* Slots (`Requests`, `Handlers`, `Dials`) are reused, so the number of sessions over time is
  not bounded. Two requests are enough for one to be open while the other registers,
  migrates or prunes.
* The limits of the code (1024 tokens, 2048 revocations and tombstones, 4096 devices, 512
  locations, six failures, waves of three, 30 s) are constants and are given values at which
  they are reached: `CPOwner` reaches the limits on tokens, revocations and tombstones,
  `CPDevices` that on devices, `CPGeo` that on cached locations, `UpWaves` has a last
  wave that is shorter than the others.
* `CPDevices` has one record more than sessions: the code admits 1024 sessions and tracks 4096
  devices, so an idle device exists whenever the limit is reached. `TrackingAssumption`
  states that (`Cardinality(Requests) < MaxClients`).
* `UpWaves` has one dial because the race is local to a dial; `UpShared` has two, since the
  health map is what dials share.
* `MCRelay`: three handlers and two tokens under limits of two sessions, one per token and one
  pending. The limit of a token and that of pending dials refuse by themselves; the global one is
  reached, but refuses nobody whom the limit of the token would admit. It refuses by itself in
  `MCSessionLimiter`, and `RelayConnectionsWithinLimits` covers every combination. The owner deletes
  one token (`MaxDeletions`), the other one's handlers show that they are left alone.
* `Bridge`: the first two frames of the client are recorded; after them it goes on with pings and
  pongs for ever, so that `IdleTunnelEnds` has to hold against a client that never falls silent.
  One read of Telegram, two pings of the heartbeat (a stale pong needs two), idle timeouts 0 and 1. `Frames`: no data of Telegram and no pings; a byte has four values,
  short lengths end at 2, extended ones have two and four bytes, a message has at most 17, so
  that the three encodings and the size limit have their edges within reach, and the
  25 frames stand on both sides of each. Three frames make a message of three fragments, a
  control frame between two, and a frame after an unfinished message.
* `MCRouteReport`: two workers (the code starts up to six, fewer than routes). Requests hold no DC and four DCs (both refused, as
  `MaxRequested` is three), two DCs of which one is named twice, and three: these are more jobs than
  workers, so jobs wait for workers and workers for jobs. One refresh, which may come between any two lookups.
* Requests are interchangeable, so `CPSessions`, `CPDevices` and `CPGeo`, which check no
  liveness, use the symmetry of `Requests`.
* Three bundles are one that expires, one that brings a new DC and one that is not active
  yet at the start.
* The clock does not step back.

## 5. Fairness

* `SessionLimiter!Spec`: only the end of the dial phase is fair (the dial runs under a context
  with a timeout). Sessions may stay open for ever.
* `RelaySpec`: every step of a handler that waits for nobody, or for a dial with a deadline, is
  fair; a bridge is fair only once its client's connection is closed (that is `BridgeEnds` of
  `Bridge`); collected close functions run; the waits of the shutdown are bounded by timers.
  Requests, deletions and the shutdown itself are free.
* `Bridge!FairSpec`: the peers owe nothing. A read on a closed connection returns, a write ends
  at its deadline, timers fire, code between two waits goes on; the writer's mutex is strongly
  fair, since Go's mutexes do not starve a waiter.
* `ControlPlane!FairSpec`: collected close functions are called (`runCloser`, weak), the
  deferred `unregister` runs once the bridge has returned (strong: a crash or restart between
  may disable it), timers expire, callbacks get the mutex, and a write that is attempted again
  and again succeeds at some point (strong fairness of a flush with a successful write). Owners,
  clients, crashes and lookups are not fair.
* `UpstreamPool!Spec`: goroutines, receiver and drainer make progress, and the connect timeout
  of the handler comes (`parentEnds(d, "expired")`), upon which `DialContext` returns.
* `TopologyManager!FairSpec`: strong fairness of taking a mutex; a fetch ends (the HTTP client
  has a timeout of 20 s), and applying and answering are plain code. `tick`, `wake`, `start` and
  `crash` are free.
* `RouteReport!FairSpec`: the request's deadline passes, a dial ends with it at the latest, and the
  dispatcher and the workers go on when they can.

## 6. Proofs

| theorem | property | assumptions beyond those of the module |
|---|---|---|
| `LimiterTypeOK`, `LimiterExact`, `LimiterBounded` | TypeOK, CountersExact, WithinLimits | none |
| `RelayTypeCorrect` | RelayTypeOK | none |
| `RelayUsesLimiter`, `RelayCountersExact` | the relay implements the limiter; CountersExact | none |
| `RelayNothingLeaks`, `RelayConnectionsWithinLimits` | NothingLeaks, ConnectionsWithinLimits | none |
| `ControlPlaneTypeOK`, `ControlPlaneFlushScheduled` | TypeOK, FlushScheduled | none |
| `ControlPlaneCleanMeansDurable`, `ControlPlaneOwnerChangesDurable`, `ControlPlaneShutdownFlushes` | CleanMeansDurable, OwnerChangesDurable, ShutdownFlushes | the rename is atomic (`~Windows`) |
| `ControlPlaneRevocationIsForever` | RevocationIsForever | also: directories can be opened and synced (`~DirSyncMayFail`) |
| `ControlPlaneImplementsTokenStore` | TokensAtomic (refinement of `TokenStore`) | the same |
| `ControlPlaneDeletedStaysDeleted` | DeletedStaysDeleted | none |
| `ControlPlaneDiskLoadable` | DiskLoadable | a secret is used for one identifier (`OneIDPerSecret`) |
| `ControlPlaneStoppedSessionsClose`, `ControlPlaneBlockedSessionsClose` | StoppedSessionsClose, BlockedSessionsClose | none |
| `ControlPlaneRevokedSessionsClose` | RevokedSessionsClose | `OneIDPerSecret` |
| `ControlPlaneSessionsHaveDevices`, `ControlPlaneBlocksOutliveMigration`, `ControlPlaneBusyMatchesLookups` | SessionsHaveDevices, BlocksOutliveMigration, BusyMatchesLookups | none |
| `PoolOnlyWinnerStaysOpen`, `PoolGivesUpLast`, `PoolHealthyFirst` | OnlyWinnerStaysOpen, GivesUpLast, HealthyFirst | none |
| `PoolTypeOK`, `PoolCooldownBounded` | TypeOK, CooldownBounded | none |
| `TopologyTypeOK`, `TopologyLocks`, `TopologyStartsAgain` | TypeOK, LocksMatchSteps, StartsAgain | none |
| `TopologyOnDisk` | PublishedOnDisk | the rename is atomic |
| `TopologyImplementsHistory` | GenerationsOnlyGrow (refinement of `GenerationHistory`) | also: the directory can be opened (`DirOpens`); it need not be possible to sync it |
| `BridgeAckNotLost`, `BridgeOnlyExpectedPongCounts` | AckNotLost, OnlyExpectedPongCounts | none |
| `BridgeMessagesIntact`, `BridgeFragmentsBounded`, `BridgeRightCloseCode` | MessagesIntact, FragmentsBounded, RightCloseCode | none |
| `RouteReportTrue`, `RouteReportResultsNotShared` | ReportTrue, ResultsNotShared | none |
| `RouteReportRoutesAsConfigured` | RoutesAsConfigured | none |
| `RouteReportInvariant`, `TopologyInvariant` | the inductive invariants of the report and of the routes in force | none |

None of these assumptions is idle. Without `OneIDPerSecret`, `CPRecreatedSecret` and `reused_secret`
(section 7) are the counterexamples to `RevokedSessionsClose` and `DiskLoadable`; the
theorems without it hold for secrets that are used again as well, which `CPSharedSecrets`
shows on an instance. With `Windows = TRUE` TLC finds counterexamples to `CleanMeansDurable` and
`PublishedOnDisk` (a write that removed the file and could not rename the new one), and with
directories that cannot be synced to `RevocationIsForever` (`power_loss`). With `DirOpens = FALSE`
`refresh` publishes what nobody has synced, and `GenerationsOnlyGrow` has a counterexample.

The assumptions of the modules say what the code or its callers guarantee: the limits are positive,
the health counter is capped at six (`PoolAssumption`), the config file and signed bundles give
tables of the right shape (`RoutesAssumption`), a control frame is never above `maxMessageBytes`,
which the configuration bounds from below by 65536 (`FrameAssumption`), a frame has as many
bytes as its header says, since `io.ReadFull` returns all or fails; where the header is refused
for its length, nothing is assumed of the rest (`FramesAssumption`). TLC evaluates them in the runs.

The arguments:

* **Limiter.** The inductive invariant (`IInv`) is the type invariant and `CountersExact` with
  the fact that a released reservation has ended its dial, and the limits. Every step adds
  or removes one element of the sets `Open`, `Dialing` and `OpenOf(t)`; the lemmas `AddOne`
  and `DropOne` relate that to their cardinalities. Without "released implies dial done",
  `upstreamDialDone` after `release` could not be shown to keep `pending` right.
* **Control plane, types.** `TypeInv` says that memory, both images of the file, the timers,
  the requests and the lookups have their types. The work is in the operators that
  rebuild a state (`migrateClientIdentity`, `Deleted`, `Forget`, `Registered`), each with a
  lemma of its own.
* **Flush.** `FlushInv` adds that the pointer `flush` names an armed or a fired timer. This
  is what makes `FlushScheduled` inductive: scheduling does nothing when the pointer is set,
  so the pointer must never name a timer that is gone. The late callback that clears the
  pointer of a newer timer is harmless because it either writes, and then nothing is dirty,
  or arms a new one.
* **Durability.** `DurableInv` adds `CleanMeansDurable` and `OwnerChangesDurable`; they depend
  on each other. Client steps change only the part of the state the owner does not own
  (`MigrateKeepsOwnerPart`, `RegisterKeepsOwnerPart`) and mark it dirty; owner steps write
  everything or restore everything. For `RevocationIsForever` every state that a step writes
  `Grows` from the one in the file (revocations and tombstones are only added, the identity
  stays), and `Synced` (disk and platter are the same) makes a power loss a plain crash.
* **Files and what they say.** `StateSound` says of a state what holds whichever secrets are used
  twice: identifiers are unique, tombstones and revocations agree on what is deleted, the limits
  hold, every block has its device. `FilesSound` says it of memory, the file and the platter at
  once, so that a restart, from either, starts from such a state; `DeletedStaysDeleted` follows.
  `StateRight` and `FilesRight` add what `validateStateAgainstConfig` demands of the file, that no two
  tokens share a hash among it, which a creation keeps only if the secret is new: that is
  `OneIDPerSecret`.
* **The token store.** Two facts make every step of the control plane a step of `TokenStore` or a
  stutter. `DownReads`: while the process is down, `state` is the empty state or what the file says,
  and since every owner's change reaches the file before it is reported, a restart finds the tokens
  that were in force. And a deletion uncovers nothing: it removes every added token
  of its hash and revokes the hash of a configured one, so no token that was hidden behind it comes to
  light (`DeleteStep`). A creation whose secret is already in use is a stutter (`CreateStep`).
* **Sessions.** `KeepsSessions` says what every step but a registration guarantees to the open
  sessions: none appears, and none that was ending stops ending. A block is preserved
  backwards along migration (a key blocked afterwards was blocked, or came from one
  that was). For revocation the identifier and the hash of a request must stay those of
  an issued token (`RequestsIssued`), since the recheck goes by hash and the collection by
  identifier.
* **Devices.** `DeviceInv` adds that the key of a session carries its token. A token's
  identifier is never given to another one while a request carries it (`RequestsKnown`:
  it is configured, in force or deleted, and `createToken` gives out only identifiers that are none
  of these), so deleting another token spares the session's record. Pruning is a counting
  argument (`PruneSparesSessions`): it leaves `MaxClients - 1` records, idle ones go first, and
  there are at most as many sessions, as the one that registers has none yet
  (`TrackingAssumption`).
* **Topology.** `HasBundle` (who is about to apply holds a bundle), `DownIdle` and the lock
  invariant; then `Gen(current) <= Gen(disk)` is preserved because only `apply` writes, under
  the comparison with `current`.
  The refinement maps the generation in force (`InForce`) to the abstract one, and as much of it as
  the platter holds to `sure`. A step of `apply` is a `Publish`, whose write has reached the platter
  (`ApplyMaps`), or a failed one: it leaves `current` alone, and what it leaves of the platter is
  the old file, the new one or one between them, hence a stutter or a `Settle`. A crash falls back to the disk or the
  platter, neither of which is behind `sure` (`SureBounds`, `CrashMaps`). A bundle on disk, or about to be written, has begun to be
  valid (`BegunInv`), and the clock does not step back, so `start` never finds one too early.
* **Relay.** The step of a handler determines its reservation, and bounds what it may hold: that
  is `RInv` (between `reserve` and `release` the slot is open, before the end of the dial it is
  pending, a connection exists only between dial and release, a session entry only between
  registration and `unregister`). Hence every step of the relay is a step of
  the limiter under the identity mapping, `LimiterExact` and `LimiterBounded` carry over, and
  the connections, a subset of the open slots, obey their limits.
* **Dial race.** `PoolInv` holds of each call by itself: only goroutines of the current wave are
  under way; open are exactly the connections in the channel and the winner's; the drainer
  waits for exactly the results not yet received (`Unreceived`); earlier waves are through. A
  wave is started only when its predecessor is received, which is why giving up is last.
  `HealthInv` bounds the failures by their cap and every `nextAttempt` by the longest delay, a power of
  two with a capped exponent, and says that an endpoint that is tracked has a time of the next try, which
  orders it behind those that are not (`HealthyFirst`).
* **Pongs.** `PongInv`: neither atomic is ahead of `sequence`, and while a ping is outstanding
  its number is expected, or acknowledged, or the reader is between the store and the
  compare-and-swap, which may only clear the number it has stored before.
* **Messages.** `MessageInv` relates what the reader has collected to the stream it has read: while
  the reader lives, the messages of the stream are those forwarded and the one it holds, and
  an open reader holds the pieces of the unfinished message. The reference is a concatenation
  over the stream, the reader's own a running one, so the step needs that a stream with one frame
  more has one message more or none (`MessagesAppend`).
* **Close codes.** `ReaderInv` says that an open reader is one whose stream is within a message
  (`Unfinished`); with `MessageInv` every test of the reader is then one of the reference
  (`VerdictIs`). The header is the harder half: the loop that reads a long length starts from the
  field value 127 and wraps at 64 bits, the reference writes a length as digits. `LoopReads`
  shows that the loop returns the number whose digits it reads, as the start value is shifted
  out, and `EncodingIs` that the header checks accept exactly the shortest encoding, for every
  base and width.
* **Route report.** `ReportInv` says who is responsible for an index: the dispatcher from `next` on,
  exactly one worker while it is checked, nobody once it is completed; and that its
  results are untouched, decided for the main route, or decided, accordingly.
  For `RoutesAsConfigured` the merged table of a file is compared with its two tables: `appendRole`
  adds exactly the addresses of its role, each once and behind the others (`AppendRole`).

The library's induction theorems take an operator, which the provers cannot instantiate. Where a proof
needs induction over data (concatenation, digits of a length, endpoints of a role, lists in order) it goes by least
counterexample: `LeastNumber`, from the library's theorem that `<` on the naturals is
well-founded, gives a least place where the claim fails, and the place before it a
contradiction. That is how functions defined by recursion over a sequence get their value.

Only model-checked: liveness (`BusyIsTemporary`, `FlushesEventually`, `DialsSettle`,
`RequestsAnswered`, `DeletedTokenEnds`, `ShutdownEnds`, `BridgeEnds`, `IdleTunnelEnds`,
`ReportReturns`), which the prover does not handle under fairness.

## 7. What the runs found

| run | what happens |
|---|---|
| `reused_secret` | `createToken` does not test whether a hash is in use. One secret under two idempotency keys gives two tokens of one hash in the file, which `validateStateAgainstConfig` refuses at the next start. |
| `power_loss` | `DeletionsLast`: the relay has started and its file is durable. The owner deletes a token; the file with the revocation is renamed into place, the fsync of the directory fails, which is only logged, and the deletion is reported as done. The power fails: the file that comes back is the old one, without the revocation, and the next start accepts the deleted token. |

The passing run `owner_state` states `DiskLoadable` and, with `RevocationIsForever`, more than
`DeletionsLast`; it differs in the constant that the counterexample needs: offers that share no
secret, and `DirSyncMayFail = FALSE`.

More behaviours of the code are visible in the models and are not runs:

* A token is deleted and the same secret created under another key while a client of the first
  one dials (`CPRecreatedSecret`). The recheck of `registerSession` goes by hash and passes; the
  session is filed under the deleted identifier, and a deletion of the new token does not end it.
* At the limit of tracked devices the least recently seen idle device is forgotten, its block
  included (`control_plane.go:1279`). A blocked device has no session, so it is the first
  to go. `BlocksOutliveMigration` therefore excuses the steps taken at that limit.
* On Windows the file is removed before the rename (`control_plane.go:1094-1101`,
  `topology_manager.go:373-380`): if the rename fails and the process ends before the next
  write, nothing is left of the state, or of the last-known-good topology.
* A start publishes the file it finds without syncing it (`topology_manager.go:60-71`): if the
  directory fsync of its write had failed (382-386), a power loss takes back a generation that
  was in force. `GenerationHistory` allows exactly this (`Stop` may take back what is not `sure`), and
  for a refresh it does not.
* A directory that cannot be opened is not an error (`topology_manager.go:382`): `refresh` then
  publishes a bundle that a power loss can take back.
* `unregister` looks up the key its session registered under (`control_plane.go:703`). If a
  migration has renamed the record meanwhile, its `LastSeen` stays that of the migration, which
  makes an idle device look older than it is when the limit is reached. No property speaks of it.
* When the listener fails, `ListenAndServeContext` returns without `controlPlane.shutdown`
  (`server.go:130`): nothing closes the sessions and metadata that is still dirty is not
  written. To the file this is a crash, which the runs of `ControlPlane` contain.
* `resetExplicitTelegramMaps` looks for the exact key `"dcMap"`, while `encoding/json` accepts
  it in any case: a file that says `"dcmap"` is merged with the embedded routes, which the
  comment at `config.go:135-137` excludes. `Routes` takes keys to be spelled as documented.
* A DC that has only media endpoints is advertised by `/capabilities` and served on its media
  route, while its main route is answered by "unknown dc". `RoutesAsConfigured` states what
  the advertisement does mean.
* Without an admin token no session is registered, so a shutdown closes none:
  `ShutdownEnds` promises closed connections only when there is one.

## 8. What is not modelled

* `overview` and the other read-only views; HTTP decoding, status codes, the connect page;
  the HTTP geolocation resolver (its answer, failure or timeout is a choice).
* Device headers that are neither `dev_…` nor `dev2_…`: such a device has its own record and is never
  the previous identity of another one. Requests without a remote address share one legacy identifier.
* The blocks of devices in `Relay`: there a registration may be refused for one at any time, while
  shutdown and deleted tokens are variables of the module. `ControlPlane` has the blocks.
* The error of `Close` on a connection that the route report opened: it counts as a failed dial
  (`server.go:420`).
* Text: sanitizing, header rules of `clientRemoteIP`, JSON, the lines of the route report, the
  reasons of close frames. The 8 MiB limit of `load` depends on the size of the text.
* The masking of payloads, the handshake's key and the syntax of requests and responses.
* `ListenAndServeContext` when the listener itself fails: in `Relay` the server only ends by
  its context; in `ControlPlane` it is the crash it amounts to.
* In `Relay`, the release of a slot before the end of its dial: `handleWebSocket` never
  calls in that order. `SessionLimiter` has it, and the theorems about it cover it.
* Relays without an owner API or without a state path: the methods do nothing or write
  nothing there. The configured `instanceId` only restricts which file is accepted.
* Cryptography: SHA-256 is taken to be injective and a signed bundle cannot be forged.
* `config.go` apart from the routes: sequential validation without state; what the models need
  of it is in their assumptions (`TokensAssumption`, `PoolAssumption`, `TopologyAssumption`).
* The dialer of the topology source, and how long the refresh loop waits between two refreshes.
* The commands under `cmd/`: flags, signals and one pass over files.

## 9. Plan

Done: all components that keep state have their module and run, the abstract specifications are
implemented, and every safety and action property of a passing run is proved
(section 6). Left: `Relay` over `ControlPlane` instead of its own `deleted` and `sessions`, on an
instance small enough to check: devices, blocks and crashes would then meet the limiter's slots.
