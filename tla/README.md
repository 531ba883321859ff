# Verification of the IoT API server

TLA+ models of `iot-api`, a Go server that registers devices, ingests their
telemetry over HTTP and MQTT, keeps it in memory or in MongoDB, raises alerts,
caches device status in Redis and pushes events to WebSocket clients. Paths such
as `service.go:193` are under `src/internal/` unless they begin with `cmd/`.

`PROJECT.json` lists the components, runs, hazards, findings and theorems, and
gives the source lines behind every definition.

    tlc -workers 2 -config WorkerPool.cfg WorkerPool    # one run
    tlapm WorkerPoolProofs.tla                          # one module's proofs

## 1. Inventory

| Component | State | Operations | Talks to |
|---|---|---|---|
| Worker pool, `worker/pool.go` | bounded job channel, context, wait group, two counters | `Start`, `Submit` (blocks), `TrySubmit`, `Stop`, the loop `run` | called by the service; its jobs are closures of the service |
| Event hub, `realtime/hub.go`, and `api/handlers.go: websocket` | set of subscriber channels under an RWMutex; one handler and one reader goroutine per client | `Subscribe`, `Unsubscribe`, `Broadcast` (drops on a full buffer) | publishers: service or Redis subscriber; readers: handlers |
| In-memory store, `store/store.go` | maps of devices, series, alerts under one mutex | create, update, status, delete, add telemetry (capped), add alert | service |
| MongoDB store, `store/mongo*.go` | five collections | the same methods, several database operations each, no transaction | service, accounts |
| Device service and reconciler, `service/service.go` | none of its own: every method is a sequence of store, cache and publisher calls | register, update, delete, ingest, `processTelemetry`, `ReconcileStatuses` | store, cache, pool, hub/Redis |
| Status cache, `cache/redis.go` | entries with a TTL | set, get | service |
| Event bus, `cache/redis.go` | Redis channel | `Broadcast`, `Subscribe` | service, hub of every instance |
| Accounts and sessions, `auth/service.go`, `store/memory_users.go`, `store/mongo_users.go` | users, refresh tokens | create, seed, update, delete, login, refresh, logout | HTTP API |
| Access tokens and RBAC, `auth/auth.go`, `auth/middleware.go` | none on the server: a token is a signed claim with an expiry | sign, verify, role check | HTTP API |
| HTTP API, `api/handlers.go` | none | one handler per route | service, accounts, hub |
| MQTT bridge, `mqtt/mqtt.go` | broker connection | `onMessage` | service |
| Alert engine, `alerts/alerts.go` | rules, fixed at start-up | `Evaluate` | service |
| Analytics, `analytics/analytics.go` | none | aggregates | HTTP API |
| Server lifecycle, `cmd/server/main.go` | the process | start-up, signal, deferred calls | all |
| Configuration, `config/config.go` | none | reads the environment once | main |

### What is hard here

* Every HTTP request, MQTT callback, pool worker, WebSocket client and the
  reconciler is a goroutine. The in-memory store makes one *call* atomic, never a
  *method of the service*: a job is five or more calls, and deletions,
  registrations and reconciler passes fall between them.
* The service decides on values it read earlier: the reconciler on a snapshot of
  the devices, the HTTP handler on a device that existed, `UpdateUser` on a record
  read before a slow bcrypt, `trimHistory` on a count.
* The pool, the hub and the history have limits, and each treats its limit
  differently: `Submit` blocks, `Broadcast` drops, `AddTelemetry` trims.
* Cache writes, publishes and most MongoDB errors are logged or ignored, also where
  they leave a refresh token behind.
* An event published to Redis may be lost, executed twice or executed late, and a
  subscription may break; WebSocket clients of all instances still have to agree.
* An access token carries its owner's roles and cannot be taken back; a handler behind
  the role check runs when the role may be gone.
* Closing a channel, stopping workers and closing clients must each come after the
  last use by somebody else.

### What makes each component correct

* Pool: a job accepted while the pool runs is run once, in order, unless `Stop` comes
  first; `Stop` returns, and only when everything begun is finished; nobody waits for
  ever. (A stopped pool should refuse, and does not always: finding 4.)
* Hub: no send on a closed channel; a slow client costs nobody but itself, and
  only events that found its buffer full; clients see each publisher's order.
* Event bus: all instances see messages in the order of Redis; a gap has an outage as its
  cause; a publish that was answered counts once; nobody is held in `Broadcast` for good.
* Stores: the series is the newest points under the cap; in memory it does not outlive
  its device, over MongoDB only points of jobs that the deletion overtook do, or what an
  ignored error left; queries answer the newest points, and statistics fit the series.
* Service: nothing is announced that is not stored; a device is unknown until it
  reports and offline in the end when it stops; the cache heals; every breach gets
  its alert.
* Accounts: usernames unique; a refresh token is not valid together with one it was
  exchanged for, unless its deletion failed (concurrent `Refresh` calls of one token may
  each get a pair); no request that begins after the deletion of an account gets tokens
  for it; a revocation that succeeds ends every session of an older password but those
  whose `Login` or `Refresh` was under way.
* Access: a lost role opens nothing once the token lifetime has passed; authority comes
  from authority.
* Server: the shutdown ends, and a job that has begun finds its store open until it is
  finished (its events may be lost: the Redis client is closed before the pool stops).

## 2. Modules

| Module | Models | Abstraction |
|---|---|---|
| `JobExecutor` | what a pool promises: decided once, runs at most once, nothing after closing; one exception, `AcceptTooLate`, marks where the pool breaks its word | abstract specification |
| `WorkerPool` | `pool.go`, all of it | a job is an identity; a select with two ready cases is two enabled actions |
| `Hub` | `hub.go`, the WebSocket handler and Go's RWMutex (external: a waiting writer holds back new readers) | an event is its publisher and number |
| `EventBus` | `redis.go`'s `Broadcast` and `Subscribe` on several instances, over Redis and its client library (external) | a message is a publisher, the number of its event and the attempt; the hub behind an instance is the sequence it is offered |
| `MemoryStore` | `store.go`'s methods that change devices, series and alerts, and `GetTelemetry` | descriptive fields are one value; a sample is a timestamp and a tag |
| `MongoStore` | `mongo.go`: device creation and deletion, `AddTelemetry`, `trimHistory`, `AddAlert`, one action per database operation; each may fail, and a write that failed may be executed all the same, then or later | a device is present or not; a document is the call that inserted it |
| `Queries` | `GetTelemetry` of `mongo.go`, `analytics.go` and the handlers that use them, over `MongoStore` | an operation is the set of answers it may give (equal timestamps sort in any order); one metric |
| `DeviceService` | `service.go` over `MemoryStore`, with the status cache, the alert engine, the HTTP device check and the MQTT path | the pool is "an accepted job may begin at any time", which is `JobExecutor` |
| `AuthSessions` | `auth/service.go` over `memory_users.go` or `mongo_users.go` (constant `Mongo`); operations may fail, and an update that failed may be executed later | a password is its hash, a token its hash; new tokens and IDs are fresh |
| `Access` | `auth.go`, `middleware.go` and the account routes of `handlers.go` over the whole of `AuthSessions` | a token is whose it is, roles and expiry; the clock is a counter |
| `Server` | `main.go` over the whole of `WorkerPool` | a job is "store, then publish"; clients work while they are open |
| `MC*` | symmetry sets, rules, payloads, query windows and named bounds for TLC; in `MCHub` the stream of broadcasts that does not end | |
| `SequenceFacts`, `*Proofs` | lemmas and theorems | |

`DeviceService` extends `MemoryStore`, `Server` extends `WorkerPool`, `Queries` extends
`MongoStore` and `Access` extends `AuthSessions`, so that each composition runs on the
very definitions that are proved about. `EventBus` and `Hub` meet at `Broadcast`: the
subscriber goroutine is then the hub's only publisher, and `offered` of an instance is
the sequence of its events, so `OneOrder` and `PerPublisherOrder` together give one
order of *messages* for the clients of all instances. An event that Redis executed twice
is two messages, and two clients that each missed one of them may place it differently.

**Failing operations.** A write to MongoDB that returns an error may have been executed,
may be executed later (its timeout has passed, the command has not been withdrawn) or
never. `MongoStore` keeps what is outstanding in `lateInserts`, `lateDeletes` and the
`ids` of a trim whose call has returned (`InsertLate`, `DeleteLate`, `TrimLate`), and
`AuthSessions` in `late` (`WriteLate`); a deletion of tokens behind an error is a
`Logout`, and what is inserted behind one is the same action taken later. A cursor that
fails on the way leaves a shorter list of points to trim (`TrimFind`).

**Correspondence.** Actions are named for the method and the point in it:
`SubmitCall`, `SubmitEnqueue`, `SubmitReject` are entry and the two cases of
`Submit`'s select; `JobStore`, `JobStatus`, `JobCache`, `JobPublish`, `JobAlert`,
`JobAlertPublish` are the calls of `processTelemetry` in order. What `Evaluate` returns
is the set of rules breached, and `NextAlert` takes them in the order of the list; the
deferred calls of `main` are a sequence (`Defers`), in the order in which they run. Early returns are
disjuncts or missing actions (a method that returns an error before it has changed
anything is a step that is not taken, unless its caller goes on). Program counters
are `worker`, `call`, `stop` (pool), `pub`, `handler`, `reader` (hub), `job`, `reg`, `update`,
`rec` (service), `pub`, `sub` (bus), `req`, `upd`, `del` (accounts), `admitted` (access),
`add`, `del` (MongoDB), `main`, `handler` (server). Variables commented as history are not in the code and are
read by properties only.

## 3. Runs

| Run | Instance | Shows |
|---|---|---|
| `pool` | 2 workers, queue of 2, 4 jobs, 2 callers of `Stop` | `FirstInFirstOut`, `StopDrainsInFlight`, `PoolInv` (bookkeeping), `ImplementsExecutor` (refinement), and under fairness `AcceptedJobRuns`, `BlockedSubmitReturns`, `StopTerminates` |
| `hub` | buffer of 1, 2 publishers, 2 handlers, 2 events told apart at a time over both publishers, in a stream without an end (`StreamSpec`) | `SendsOnlyToOpenChannels`, `PerPublisherOrder`, `NoSilentLoss`, and under fairness `BroadcastReturns`, `SubscribeReturns`, `DisconnectReleases` |
| `event_bus` | 2 instances, 1 publisher with 2 events of 2 attempts, channel of 1, 1 outage, drop or message that is no event | `OneOrder`, `NoUnexplainedGap`, `AnsweredOnceInOrder`, and under fairness `PublishReturns`, `ReceivedIsOffered` |
| `mongo_store` | 1 device, cap of 1, 3 jobs with 3 timestamps or with 2 of the earliest (`FewSamples`; the middle one is without the metric), operations that fail or are executed late, 2 query windows | `CapRestored`, `LoneTrimsKeepNewest`, `OnlyOvertakenPointsRemain`, `NewestPointsLast`, `StatsMatchSeries` |
| `service` | 1 device, caps of 1 and 2, 2 samples, one without a timestamp (`TwoSamples`), main's 3 rules with payloads at and beyond thresholds, failing cache, 4 clock values | `NoOrphanTelemetry`, `SeriesIsNewestArrivals`, `UnknownUntilSeen`, `EventsAreBacked`, `BreachesAreAlerted`, and under fairness `SilentDevicesEndOffline`, `CacheHeals` |
| `auth_sessions` | MongoDB store with operations that fail or are executed late, 2 users of 1 name, 2 passwords, 2 tokens, 2 requests, 1 updater (`Bounds`) | `UniqueUsernames`, `RotationReplaces`, `NoPairForDeletedUser`, `SessionsMatchPassword` |
| `access` | MongoDB store, 2 accounts, 2 roles, 2 tokens of lifetime 2, 1 request, 1 handler of admin routes, no failures, refresh tokens that do not expire (`NoneExpired`) | `StaleAccessDiesOut`, `NoAuthorityFromNothing` |
| `server_shutdown` | 1 worker, queue of 1, 2 HTTP and 2 MQTT samples, everything configured | `JobsFindTheStoreOpen`, `ExitLosesOnlyQueued`, `ShutdownCompletes`, `RequestsAreAnswered` |
| `service_stale_offline` | 1 device, 2 samples with 2 timestamps, no rules | finding: `OfflineOnlyWhenSilent` fails |
| `mongo_overtrim` | cap of 2, 3 jobs, no failures | finding: `TrimRemovesOnlyExcess` fails |
| `auth_update_roles` | 1 user, 2 updaters | finding: `NilRolesKeepsRoles` fails |
| `pool_late_accept` | 2 workers, queue of 2, 1 job, 1 caller of `Stop` | finding: `StoppedRefuses` fails |

**Why the bounds are enough.** Each is the least at which the case in question
happens: a queue of two orders jobs and four jobs fill it behind two busy workers;
a buffer of one overflows with the second event; an event that is on its way to nobody
may be forgotten, so that two events told apart make a stream that could keep a writer
waiting for ever; three concurrent `AddTelemetry`
calls against a cap of one let a trim be overtaken by another trim and by an
insert; two samples for one device race each other, the reconciler and the
deletion, a sample without a timestamp is stamped on arrival, before or behind the other
one's, and with a cap of two a series has an order and a window cuts it; a rule
whose metric is missing between two that are breached is what the loop over rules can
get wrong; two users of one name are what a duplicate needs, two
requests present one token at once, and one write that is executed late overtakes or is
overtaken by the revocation of the next update; a worker, a queued job and two more samples
leave a handler blocked in `Submit` when the signal arrives; a second event and a
second attempt let a late command arrive behind a later event, and a channel of one
lets an outage cut off what lies behind it; two tokens let a session be refreshed and
two clock ticks let the first token expire. Devices and accounts
do not interact except through usernames, so one or two of each suffice. The
bounds that cut behaviour off are named in the modules (`MaxEvents`,
`MaxAttempts`, `MaxFaults`, `MaxTime`, `Windows`, `Payloads`, the sets of
jobs, calls and tokens; in the MC modules `FewSamples`, `TwoSamples`, `Bounds`,
`NoneExpired`). In `service` the clock stops at a `MaxTime` at which every sample is
outside the offline window already. `Bounds` of `auth_sessions` lets one failed write
wait at a time, of the first account, one valid token be expired at a time, and an account
be created while no `Login` or `Refresh` is under way: those hold IDs, not names, and the
theorems of `AuthProofs` are without these bounds.

Deadlock checking is off where a finite supply of jobs, events or calls, or the end
of the process, lets the system stop (both `pool` runs, `hub`, `event_bus`, both `mongo`
runs, `server_shutdown`), and on elsewhere.

**Fairness.** Weak fairness of a goroutine that can run is what Go's scheduler
gives: workers, callers inside `Submit` and `Stop`, publishers inside `Broadcast`,
handlers, a job that has begun, `main` after the signal. RWMutex promises that a
waiting writer gets in. In the service the ticker fires again and again, time
passes and Redis expires entries. A WebSocket write has no
deadline, so it is fair only once the connection is gone: a connected client may
stall its handler for ever, which `BroadcastReturns` shows costs nobody else
anything. Go's select picks at random among ready cases, so a handler that finds
`closed` ready again and again takes it in the end (strong fairness of `SeeClosed`).
On the bus only the end of an attempt without an answer and the handling of a message that
waits are fair: go-redis ends an attempt with its read timeout (the context of
`Broadcast` is looked at between attempts only) and makes a limited number of them, while
Redis and the network owe nothing. Nobody is obliged to submit, publish, connect, register, delete or send a
signal. In `Server`, `srv.Shutdown` returns after at most ten seconds, so its
return is fair without a condition on the handlers.

The type invariants (`TypeOK`, `StoreTypeOK`, `AccessTypeOK`, `ServerTypeOK`) stand in
the modules and, where a theorem needs them, are proved; no run spends time on them.

**Crashes.** Only MongoDB survives one. A crash in the middle of `UpdateUser`,
`DeleteUser`, `Login` or `Refresh` leaves the collections as an operation that fails, or
is executed behind an error, does, which `CallsMayFail` covers for every operation; likewise for `AddTelemetry` and
`DeleteDevice` in `MongoStore` (an insert without its trim, a deletion without its
second operation). Seeding the administrator again at the next start is a `CreateUser`;
`NoAuthorityFromNothing` speaks of one life of the process.

Each property has a mutant in `PROJECT.json`: a definition of the model changed the
way a plausible bug would change the code, under which TLC finds the property
violated. They stand in the modules, marked as mutants, before the definition they
replace.

## 4. Theorems

Proved with TLAPS for every number of workers, jobs, publishers, clients, users and
requests, and every capacity; the assumptions are the named `ASSUME`s of the
modules (types of the constants, placeholders that are not ordinary values,
`Jobs` and `Calls` finite).

* `WorkerPoolProofs`: `TypeCorrect`, `OrderPreserved`, `BookkeepingAgrees`,
  `StopDrains`, `PoolImplementsExecutor`. The inductive invariant is
  `TypeOK /\ FirstInFirstOut /\ PoolInv`. `FirstInFirstOut` alone does not say that
  a job is begun once: that needs that a job enters the channel once
  (`CallsMatchChannel`) and that held and finished jobs are the begun ones
  (`HoldersMatchHistory`). `CountMatchesBusy` counts the jobs between the end of
  their function and the increment of `processed`, and closes `StopDrains` because
  no worker is busy when all have exited. Each action of the pool maps to a step of
  `JobExecutor` or to a stutter; an acceptance after `Stop` maps to `AcceptTooLate`.
  Over the server process: `ServerRunsPool` (every step of `Server` is a step of the
  pool or a stutter, so all of the above holds in it), `ServerTypeCorrect`,
  `StoreOutlivesJobs` and `ShutdownLosesOnlyQueued`, for every subset of clients that
  is configured. `ShutdownOrder` says that among the deferred calls still to run the
  pool's comes before the store's and the last `cancel`, that the store is open until
  the pool's has run, and that it has run only when `Stop` has returned. A job under
  way then finds its store open, because `Stop` has not returned (`StopBehindWorkers`
  of the pool). `JobsAreStored` carries that on to the exit: what is finished is
  stored, and what was accepted is finished or queued (`StopDrains`,
  `OrderPreserved`).
* `HubProofs`: `TypeCorrect`, `NoSendOnClosedChannel`, `ClientsSeeOrder`,
  `NothingLostSilently`.
  `SendsOnlyToOpenChannels` is inductive with `TypeOK`: `Unsubscribe` closes a
  channel only when no `Broadcast` holds the read lock. `PerPublisherOrder` is not:
  `HubInv` adds that the publishers' counters agree with the loops in progress
  (`PublisherCounts`), that an event is in hand only while it is written
  (`InHandWhileWriting`), and that the event on its way to a handler is newer than
  all it has received from that publisher (`ReceivedUpToSent`). `NoSilentLoss` counts;
  its invariant `LossInv` says the same event by event: a handler that serves has got
  (written, in hand, buffered or dropped) an event exactly if it was numbered after the
  handler joined and the loop of its `Broadcast` has passed the handler.
* `EventBusProofs`: `TypeCorrect`, `BusOrder`, `GapsAreOutages`, `AnsweredInOrder`, for
  any number of instances, publishers, attempts and outages and any channel size.
  `OneOrder` needs that what is on its way lies behind what was offered and increases
  too (`PositionsIncrease`). `AnsweredOnceInOrder` needs that an attempt is made and
  executed at most once, and that an answered event has no
  other attempt under way (`AttemptsAreSpent`): `Broadcast` is idle before the next
  event begins, so nothing later can be in front of an answered one.
* `AuthProofs`: `TypeCorrect`, `UsernamesUnique`, `RotationSound`, `DeletionFinal`,
  `SessionsFollowPassword`, for both stores and any failures. `AuthInv` adds that a record an `UpdateUser` is about to
  write back carries its user's name (`StaleRecordsKeepNames`: usernames never change,
  so a stale record cannot introduce a duplicate), that the parent of an issued or
  pending token is no longer in the store unless its deletion failed
  (`ParentsAreSpent`), and that deleted users stay deleted (`DeletedStayDeleted`).
  `SessionsFollowPassword` has no hypothesis on the updates: they may overlap, fail and be
  executed late. `unrevoked` holds the users whose stored password has changed since their
  tokens were last revoked, and nothing is claimed of them: an update that writes an old
  record back (finding 3) or is executed behind its error changes the password without a
  revocation. `PasswordInv` follows each session, and each request that may still store a
  token, back to its login: the login carries the stored password, or its user is in
  `unrevoked`, or the request was under way when the tokens were revoked. The step that
  needs care is the revocation itself (`RevocationFits`): it takes the user out of
  `unrevoked`, deletes the tokens that no longer fit and marks the requests it cannot see.
* `AccessProofs`: `AccessImplementsSessions` (every step of `Access` is a step of
  `AuthSessions` or a stutter, so the theorems above hold behind the middleware),
  `AccessTypeCorrect`, `StaleAccessDies`, `AuthorityFromAuthority`. The invariant
  `ClaimsFollow` says that a token issued while its roles were current can only name
  roles that its owner still has or has lost since it was issued, and that no expiry
  lies further ahead than the lifetime. `NoAuthorityFromNothing` is an action property
  and goes through the actions one by one: only a handler that was let through, a
  record about to be written, at once or late, or a token about to be signed could make an
  administrator, and each of them counts as authority.
* `MongoProofs`: `TypeCorrect`, `DeletionLeavesOnlyOvertaken`, `CapHolds`,
  `LoneTrimsAreExact`, for any pattern of operations that fail or are executed late.
  `DeletionInv` adds that
  data is only deleted behind the device document, and that the property holds from the
  deletion of the series on, not only when the whole call is over: a point inserted in
  between belongs to a call that finds its device gone. `CapInv` says that a series over
  its cap has a call that will pay for it, by counting again or by a plan that is large
  enough; an insertion may spoil every plan, but is itself by a call that will count.
  `NewestInv` says, for a device whose trims have not overlapped, that every
  point that is no longer stored, and every point the one trim under way is about to
  delete, has at least `MaxHistory` stored points that are as new: points inserted after
  the count can only add to them.
  Over `Queries`: `AnswersAreNewest` and `StatisticsAgree`, for every window, series and
  set of readings. They need no invariant but `TypeOK`, and induction: a sequence whose
  neighbours are in order is in order (`Ascending`), and `StatsOf` holds of the
  statistics after each point of `Aggregate`'s loop.
* `DeviceProofs`: `TypeCorrect`, `DeletedHaveNoTelemetry`, `CapKeepsNewest`,
  `GetTelemetryIsExact`, `UnknownMeansUnseen`, `EventsHaveBacking`,
  `EveryBreachIsAlerted`, over `DeviceService` with `MemoryStore` under it, for any
  devices, samples, rules, cap and clock, with or without a cache. `TypeOK` needs that an
  accepted sample is stamped (`Stamped`). `KeptAreNewest` says that trimming after every
  append is the same as trimming once. `UnknownUntilSeen` needs that an ID is used
  once and that a device in the reconciler's snapshot has been seen or is gone
  (`IdsUsedOnce`): else a stale snapshot could set a new device offline.
  `BackingInv` holds the point and the alert of a job from the moment they are stored
  until its events are out, also if the device is deleted meanwhile; `AlertInv` says of each breached rule that its alert is
  published or left to the job. `GetTelemetryIsExact` follows the loop of
  `GetTelemetry` by induction: after `n` rounds it has picked the points among the first
  `n` that are in the window, each with its rank.
* `SequenceFacts`: lemmas on `Append`, `Tail` and concatenation that the above cite, and
  `SetInduction`.

**Induction.** The library's induction rules take a predicate as a parameter, which the
installed provers cannot instantiate. `SetInduction` takes a set in its place, and is
proved from the well-foundedness of the natural numbers; the loops (`GetTelemetry`
in memory, `Aggregate`) are recursive functions, whose existence is proved with it
(`LoopEnds`, `AggregateEnds`) before what they compute (`LoopPicks`, `AggregateStats`).

Every safety property that a passing run checks is a theorem. Only model-checked is liveness, since
fairness and ENABLED are out of the prover's reach: `AcceptedJobRuns`,
`BlockedSubmitReturns`, `StopTerminates`, `BroadcastReturns`, `SubscribeReturns`,
`DisconnectReleases`, `PublishReturns`, `ReceivedIsOffered`, `SilentDevicesEndOffline`,
`CacheHeals`, `ShutdownCompletes`, `RequestsAreAnswered`.

## 5. Findings and observations

Findings with a run:

1. `service.go:253`: the reconciler marks devices offline from a snapshot; a device
   that has reported since is set offline with a fresh last-seen time
   (`service_stale_offline`). It comes back with its next sample, and
   `SilentDevicesEndOffline` shows that the opposite mistake is not made.
2. `mongo.go:258`: two trims that overlap both remove the excess that each of them
   counted, and points within the cap are lost (`mongo_overtrim`); eight trims of the
   default eight workers that count the same excess each delete as many.
   `LoneTrimsKeepNewest` shows that an overlap is the only cause, a deletion that is
   executed late included, and `CapRestored` that the cap is never left exceeded without a
   failed operation.
3. `auth/service.go:123`: `UpdateUser` writes back the record it read before hashing;
   a password-only update restores roles changed meanwhile (`auth_update_roles`).
4. `worker/pool.go:73`: `Submit` may return true on a stopped pool, since both cases of
   its select are ready, and the job never runs (`pool_late_accept`), although comment
   and `TestSubmitAfterStop` say that it is refused. `BlockedSubmitReturns` and
   `ExitLosesOnlyQueued` show that the caller is not held and that no other job is lost.

Observed while modelling, visible in the models, without a run:

* `TrySubmit` on a stopped pool returns false without counting a drop, or true; its
  comment says that it counts one.
* `IngestTelemetry` speaks of backpressure by rejection, but uses the blocking
  `Submit`: it returns false only when the pool is stopped.
* `Processed()` may lag behind the jobs that have run (`pool.go:65`).
* Jobs that run while `main` stops the pool publish into a Redis client that is
  already closed (`published = "lost"` in `Server`).
* `AddAlert` does not look its device up; a job overtaken by a deletion leaves an
  alert behind. A deleted device's cache entry stays until its TTL.
* Over MongoDB a job that had looked its device up before the deletion inserts its point
  behind it (`overtaken`), and an ignored error leaves the whole series or the alerts
  (`partial`); `mongo.go:209` says that `DeleteDevice` removes "a device and its
  associated data".
* An insert that timed out and was executed is reported as an error, and no trim follows
  it (`InsertLate`): the series is over its cap until the next sample.
* `GetTelemetry` of the in-memory store answers in order of arrival, that of the
  MongoDB store in order of timestamps (`NewestPointsLast`); both are documented as
  "newest last". Over the in-memory store the `last` of an analytics answer can hence
  be the value of an older sample than the last of its series; `StatsMatchSeries` holds
  over the MongoDB store because of its sort.
* A `Subscribe` that fails at start-up is logged and not tried again
  (`SubscribeFails`): this instance's WebSocket clients get no event until a restart.
* The two seconds of `Broadcast`'s context are no bound on its duration: a command in
  flight ends with go-redis' read timeout (three seconds by default). A command given up
  may be executed later, behind events published after it, and a repeated one twice;
  `AnsweredOnceInOrder` says which events are safe from this.
* `Refresh` ignores a failure to delete the presented token (`kept` in `AuthSessions`),
  and `UpdateUser` a failure to revoke: the old sessions then live on until they expire.
* A `Login` or `Refresh` that is under way when the tokens are revoked stores a token of the
  old password behind the revocation (`overtaken` in `AuthSessions`), and that session can
  be refreshed for ever; `auth/service.go:103`, `:127` and `README.md:141` speak of *all*
  of the user's refresh tokens. A write of a new password that is executed behind an error
  is followed by no revocation at all (`unrevoked`).
* Two `Refresh` calls that present one token at the same time both get a pair.
* A token signed after a role was taken away, by a request that had read the account
  before, lives a full lifetime from its signing (`late` in `Access`).
* `UpdateUser` accepts an empty, non-nil list of roles and leaves an account without
  any, while `CreateUser` makes it a viewer.

## 6. Not modelled

* Configuration and failures at start-up: the environment is read once, and
  `log.Fatalf` ends the process before it serves.
* The rest of the HTTP layer: decoding, status codes, and the device routes, which call
  one modelled method of the service; `extractToken`, `parseSince` and
  `deviceIDFromTopic` take strings apart, and everything behind them starts from what
  they return.
* Operation without a secret: there is no manager, every device route is open and the
  account routes answer 404.
* `UpdateDevice`, `UpdateDeviceStatus` and the listings of the MongoDB store (one
  operation each), its indexes, and the conversion between documents and structs. The
  service is composed with the in-memory store only.
* `AddRule` and `Rules` of the alert engine, which only tests call; `Avg`, which is
  `Sum / Count` in floating point.
* Connecting to Redis and to the MQTT broker.

bcrypt, SHA-256, JWT signatures, the MQTT and MongoDB drivers and Redis are external:
they appear by what the code relies on.

## 7. Plan

Done: pool and its abstract specification, hub, event bus, in-memory store, service,
alert engine and reconciler, accounts over both stores, access tokens and account
routes, MongoDB telemetry, queries and analytics, shutdown; every safety property of
the runs proved.

Next, in this order:

1. The composition that section 2 argues in words: a hub whose only publisher is the
   subscriber goroutine sees the order of the bus.
2. The steps that the liveness properties rest on, as safety: what keeps an action
   enabled until it is taken (no worker leaves before the cancellation, an expired entry
   is not written again without a store write).
3. An abstract specification of the telemetry store that both stores implement as long
   as their trims do not overlap.
