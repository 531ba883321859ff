--------------------------- MODULE DeviceService ---------------------------
(***************************************************************************)
(* internal/service/service.go over the in-memory store: registration,     *)
(* ingestion, deletion, updates and the status reconciler, together with   *)
(* the optional status cache of internal/cache/redis.go.  Each call of the *)
(* store or of the cache is one step, and steps of different goroutines    *)
(* interleave.                                                             *)
(*                                                                         *)
(* The worker pool appears as its abstract specification JobExecutor: a    *)
(* submitted job is accepted or refused, and an accepted job may begin at  *)
(* any time.  Publishing (the hub or Redis) is recorded in events.         *)
(***************************************************************************)
EXTENDS MemoryStore

CONSTANTS
  OfflineAfterArg,  \* New's offlineAfter argument, in clock units
  MaxTime,          \* bound: the clock stops here
  CacheEnabled,     \* a StatusCache is configured
  CacheMayFail,     \* cache writes may fail (timeout, connection)
  RuleList,         \* the alert engine's rules: metric, operator, threshold
  Payloads,         \* bound: the metrics (name -> value) a sample may carry
  NoEntry           \* the cache has no entry for a device

\* New's default of 30 seconds; a clock unit then is a second.
OfflineAfter == IF OfflineAfterArg <= 0 THEN 30 ELSE OfflineAfterArg

Entries == [status : Statuses, seen : Times \union {ZeroTime}]

ASSUME ServiceAssumption ==
  /\ OfflineAfterArg \in Int
  /\ MaxTime \in Nat \ {0}
  /\ Times \subseteq 1 .. MaxTime
  /\ CacheEnabled \in BOOLEAN
  /\ CacheMayFail \in BOOLEAN
  /\ NoEntry \notin Entries
  /\ Len(RuleList) \in Nat
  /\ Rules = 1 .. Len(RuleList)

Samples == Tags

VARIABLES
  clock,    \* time.Now()
  cache,    \* status entries in Redis
  reg,      \* where the RegisterDevice call that creates a device is
  update,   \* where the UpdateDevice call for a device is
  job,      \* where each sample is, from the request to the end of its job
  sample,   \* the data of each sample
  rec,      \* the reconciler goroutine
  events    \* history: events published

svcVars == <<clock, cache, reg, update, job, sample, rec, events>>
vars == <<storeVars, svcVars>>

Running == {"store", "status", "cache", "publish", "alerts", "alertPublish"}
JobStates == {"new", "checked", "pending", "done", "refused"} \union Running

\* What a sample carries: device, timestamp and metrics.  left are the rules
\* it breached whose alerts its job has still to record.
SampleData == [dev : DeviceIDs, ts : Times \union {ZeroTime},
               metrics : Payloads, left : SUBSET Rules]

Init ==
  /\ StoreInit
  /\ clock = 1
  /\ cache = [id \in DeviceIDs |-> NoEntry]
  /\ reg = [id \in DeviceIDs |-> "new"]
  /\ update = [id \in DeviceIDs |-> "idle"]
  /\ job = [s \in Samples |-> "new"]
  /\ sample \in [Samples -> [dev : DeviceIDs, ts : Times \union {ZeroTime},
                             metrics : Payloads, left : {{}}]]
  /\ rec = [pc |-> "idle", due |-> {}, cur |-> {}]
  /\ events = {}

-----------------------------------------------------------------------------
(* The status cache.                                                       *)

\* cacheStatus: an error is logged and forgotten.
CacheStatus(id, status, seen) ==
  \/ /\ CacheEnabled
     /\ cache' = [cache EXCEPT ![id] = [status |-> status, seen |-> seen]]
  \/ /\ ~CacheEnabled \/ CacheMayFail
     /\ UNCHANGED cache

\* Mutant: entries are written without a TTL.
CacheExpireNever(id) ==
  /\ cache[id] # NoEntry
  /\ clock > MaxTime
  /\ cache' = [cache EXCEPT ![id] = NoEntry]
  /\ UNCHANGED <<storeVars, clock, reg, update, job, sample, rec, events>>

\* Redis drops an entry when its TTL has passed.
CacheExpire(id) ==
  /\ cache[id] # NoEntry
  /\ cache' = [cache EXCEPT ![id] = NoEntry]
  /\ UNCHANGED <<storeVars, clock, reg, update, job, sample, rec, events>>

\* GetDevice: the cached status laid over the stored record; the cached
\* last-seen time only if it is not zero.
GetDevice(id) ==
  IF cache[id] = NoEntry THEN devices[id]
  ELSE [devices[id] EXCEPT
          !.status = cache[id].status,
          !.seen = IF cache[id].seen = ZeroTime THEN @ ELSE cache[id].seen]

-----------------------------------------------------------------------------
(* RegisterDevice: CreateDevice, cacheStatus, publish.  The ID is a fresh  *)
(* UUID, so it is registered once.                                         *)

RegisterCreate(id) ==
  /\ reg[id] = "new"
  /\ \E desc \in Descs :
       CreateDevice(id, [status |-> "unknown", seen |-> ZeroTime, desc |-> desc])
  /\ reg' = [reg EXCEPT ![id] = "cache"]
  /\ UNCHANGED <<clock, cache, update, job, sample, rec, events>>

RegisterCache(id) ==
  /\ reg[id] = "cache"
  /\ CacheStatus(id, "unknown", ZeroTime)
  /\ reg' = [reg EXCEPT ![id] = "publish"]
  /\ UNCHANGED <<storeVars, clock, update, job, sample, rec, events>>

RegisterPublish(id) ==
  /\ reg[id] = "publish"
  /\ events' = events \union {[type |-> "device", of |-> id]}
  /\ reg' = [reg EXCEPT ![id] = "done"]
  /\ UNCHANGED <<storeVars, clock, cache, update, job, sample, rec>>

-----------------------------------------------------------------------------
(* DeleteDevice and UpdateDevice.                                          *)

Delete(id) ==
  /\ DeleteDevice(id)
  /\ UNCHANGED svcVars

UpdateStore(id) ==
  /\ update[id] = "idle"
  /\ \E desc \in Descs : UpdateDevice(id, desc)
  /\ update' = [update EXCEPT ![id] = "read"]
  /\ UNCHANGED <<clock, cache, reg, job, sample, rec, events>>

\* UpdateDevice reads the device back, publishes it, or returns an error if
\* it has been deleted meanwhile.
UpdateFinish(id) ==
  /\ update[id] = "read"
  /\ events' = IF Exists(id)
               THEN events \union {[type |-> "device", of |-> id]}
               ELSE events
  /\ update' = [update EXCEPT ![id] = "idle"]
  /\ UNCHANGED <<storeVars, clock, cache, reg, job, sample, rec>>

-----------------------------------------------------------------------------
(* Ingestion: the HTTP handler looks the device up, the MQTT bridge does   *)
(* not; both call IngestTelemetry, which submits the job.                  *)

IngestCheck(s) ==
  /\ job[s] = "new"
  /\ job' = [job EXCEPT ![s] = IF Exists(sample[s].dev) THEN "checked" ELSE "refused"]
  /\ UNCHANGED <<storeVars, clock, cache, reg, update, sample, rec, events>>

\* IngestTelemetry's default timestamp.
Stamp(ts) == IF ts = ZeroTime THEN clock ELSE ts

\* pool.Submit returns true.  Bound: stamps stay in Times.
IngestAccept(s) ==
  /\ job[s] \in {"new", "checked"}
  /\ Stamp(sample[s].ts) \in Times
  /\ sample' = [sample EXCEPT ![s].ts = Stamp(@)]
  /\ job' = [job EXCEPT ![s] = "pending"]
  /\ UNCHANGED <<storeVars, clock, cache, reg, update, rec, events>>

\* pool.Submit returns false.
IngestRefuse(s) ==
  /\ job[s] \in {"new", "checked"}
  /\ job' = [job EXCEPT ![s] = "refused"]
  /\ UNCHANGED <<storeVars, clock, cache, reg, update, sample, rec, events>>

-----------------------------------------------------------------------------
(* processTelemetry on a worker goroutine.                                 *)

Dev(s) == sample[s].dev

\* A worker takes the job.
JobBegin(s) ==
  /\ job[s] = "pending"
  /\ job' = [job EXCEPT ![s] = "store"]
  /\ UNCHANGED <<storeVars, clock, cache, reg, update, sample, rec, events>>

\* Mutant: the job goes on after ErrNotFound (a missing return).
JobStoreGoesOn(s) ==
  /\ job[s] = "store"
  /\ \/ AddTelemetry(Dev(s), [ts |-> sample[s].ts, tag |-> s])
     \/ ~Exists(Dev(s)) /\ UNCHANGED storeVars
  /\ job' = [job EXCEPT ![s] = "status"]
  /\ UNCHANGED <<clock, cache, reg, update, sample, rec, events>>

\* AddTelemetry; an unknown device ends the job.
JobStore(s) ==
  /\ job[s] = "store"
  /\ \/ /\ AddTelemetry(Dev(s), [ts |-> sample[s].ts, tag |-> s])
        /\ job' = [job EXCEPT ![s] = "status"]
     \/ /\ ~Exists(Dev(s))
        /\ job' = [job EXCEPT ![s] = "done"]
        /\ UNCHANGED storeVars
  /\ UNCHANGED <<clock, cache, reg, update, sample, rec, events>>

\* Mutant: the last-seen time is left as it was.
JobStatusUnseen(s) ==
  /\ job[s] = "status"
  /\ \/ UpdateDeviceStatus(Dev(s), "online", ZeroTime)
     \/ ~Exists(Dev(s)) /\ UNCHANGED storeVars
  /\ job' = [job EXCEPT ![s] = "cache"]
  /\ UNCHANGED <<clock, cache, reg, update, sample, rec, events>>

\* UpdateDeviceStatus; an error is logged and the job goes on.
JobStatus(s) ==
  /\ job[s] = "status"
  /\ \/ UpdateDeviceStatus(Dev(s), "online", sample[s].ts)
     \/ ~Exists(Dev(s)) /\ UNCHANGED storeVars
  /\ job' = [job EXCEPT ![s] = "cache"]
  /\ UNCHANGED <<clock, cache, reg, update, sample, rec, events>>

JobCache(s) ==
  /\ job[s] = "cache"
  /\ CacheStatus(Dev(s), "online", sample[s].ts)
  /\ job' = [job EXCEPT ![s] = "publish"]
  /\ UNCHANGED <<storeVars, clock, reg, update, sample, rec, events>>

\* breached; an unknown operator never is.
Breached(value, operator, threshold) ==
  CASE operator = ">"  -> value > threshold
    [] operator = ">=" -> value >= threshold
    [] operator = "<"  -> value < threshold
    [] operator = "<=" -> value <= threshold
    [] operator = "==" -> value = threshold
    [] OTHER           -> FALSE

\* The sample has the rule's metric, with a value that breaches the rule.
Breaches(metrics, rule) ==
  /\ rule.metric \in DOMAIN metrics
  /\ Breached(metrics[rule.metric], rule.operator, rule.threshold)

\* Mutant: a metric the sample does not have ends the loop over the rules.
EvaluateBreaks(metrics) ==
  {r \in Rules : /\ \A q \in 1 .. r : RuleList[q].metric \in DOMAIN metrics
                 /\ Breaches(metrics, RuleList[r])}

\* Evaluate: the rules breached, one alert for each.
Evaluate(metrics) == {r \in Rules : Breaches(metrics, RuleList[r])}

\* The alerts are in the engine's order.
NextAlert(s) == CHOOSE r \in sample[s].left : \A q \in sample[s].left : r <= q

\* The telemetry event, then Evaluate: one alert for each rule breached.
JobPublish(s) ==
  /\ job[s] = "publish"
  /\ events' = events \union {[type |-> "telemetry", of |-> s]}
  /\ sample' = [sample EXCEPT ![s].left = Evaluate(sample[s].metrics)]
  /\ job' = [job EXCEPT ![s] = "alerts"]
  /\ UNCHANGED <<storeVars, clock, cache, reg, update, rec>>

JobAlert(s) ==
  /\ job[s] = "alerts"
  /\ sample[s].left # {}
  /\ AddAlert(Dev(s), [rule |-> NextAlert(s), tag |-> s])
  /\ job' = [job EXCEPT ![s] = "alertPublish"]
  /\ UNCHANGED <<clock, cache, reg, update, sample, rec, events>>

JobAlertPublish(s) ==
  /\ job[s] = "alertPublish"
  /\ events' = events \union {[type |-> "alert", of |-> s, rule |-> NextAlert(s)]}
  /\ sample' = [sample EXCEPT ![s].left = @ \ {NextAlert(s)}]
  /\ job' = [job EXCEPT ![s] = "alerts"]
  /\ UNCHANGED <<storeVars, clock, cache, reg, update, rec>>

JobEnd(s) ==
  /\ job[s] = "alerts"
  /\ sample[s].left = {}
  /\ job' = [job EXCEPT ![s] = "done"]
  /\ UNCHANGED <<storeVars, clock, cache, reg, update, sample, rec, events>>

-----------------------------------------------------------------------------
(* ReconcileStatuses.  The devices to mark are decided from one reading of *)
(* the clock and one snapshot of the store; each is then marked, cached    *)
(* and published in turn (in registration order; here in any order).  cur  *)
(* is the device in hand (empty or one).                                   *)

Due(now, d) ==
  /\ d.seen # ZeroTime
  /\ now - d.seen > OfflineAfter
  /\ d.status # "offline"

\* The ticker fires.
ReconcileTick ==
  /\ rec.pc = "idle"
  /\ rec' = [pc |-> "scan", cur |-> {},
             due |-> {id \in DeviceIDs : Exists(id) /\ Due(clock, devices[id])}]
  /\ UNCHANGED <<storeVars, clock, cache, reg, update, job, sample, events>>

\* UpdateDeviceStatus with the zero time; a device deleted meanwhile is
\* passed over.
ReconcileMark(id) ==
  /\ rec.pc = "scan"
  /\ id \in rec.due
  /\ \/ /\ UpdateDeviceStatus(id, "offline", ZeroTime)
        /\ rec' = [rec EXCEPT !.pc = "cache", !.due = @ \ {id}, !.cur = {id}]
     \/ /\ ~Exists(id)
        /\ rec' = [rec EXCEPT !.due = @ \ {id}]
        /\ UNCHANGED storeVars
  /\ UNCHANGED <<clock, cache, reg, update, job, sample, events>>

ReconcileCache ==
  /\ rec.pc = "cache"
  /\ \E id \in rec.cur : CacheStatus(id, "offline", ZeroTime)
  /\ rec' = [rec EXCEPT !.pc = "publish"]
  /\ UNCHANGED <<storeVars, clock, reg, update, job, sample, events>>

ReconcilePublish ==
  /\ rec.pc = "publish"
  /\ events' = events \union {[type |-> "status", of |-> id] : id \in rec.cur}
  /\ rec' = [rec EXCEPT !.pc = "scan", !.cur = {}]
  /\ UNCHANGED <<storeVars, clock, cache, reg, update, job, sample>>

\* Mutant: the reconciler returns after one pass.
ReconcileDoneStops ==
  /\ rec.pc = "scan"
  /\ rec.due = {}
  /\ rec' = [rec EXCEPT !.pc = "stopped"]
  /\ UNCHANGED <<storeVars, clock, cache, reg, update, job, sample, events>>

ReconcileDone ==
  /\ rec.pc = "scan"
  /\ rec.due = {}
  /\ rec' = [rec EXCEPT !.pc = "idle"]
  /\ UNCHANGED <<storeVars, clock, cache, reg, update, job, sample, events>>

\* Environment: time passes.
ClockTick ==
  /\ clock < MaxTime
  /\ clock' = clock + 1
  /\ UNCHANGED <<storeVars, cache, reg, update, job, sample, rec, events>>

-----------------------------------------------------------------------------
Register(id) == RegisterCreate(id) \/ RegisterCache(id) \/ RegisterPublish(id)
Ingest(s)    == IngestCheck(s) \/ IngestAccept(s) \/ IngestRefuse(s)
JobStep(s) == \/ JobStore(s) \/ JobStatus(s) \/ JobCache(s) \/ JobPublish(s)
              \/ JobAlert(s) \/ JobAlertPublish(s) \/ JobEnd(s)
ReconcileStep == \/ ReconcileTick \/ (\E id \in DeviceIDs : ReconcileMark(id))
                 \/ ReconcileCache \/ ReconcilePublish \/ ReconcileDone

Next ==
  \/ \E id \in DeviceIDs : \/ Register(id) \/ Delete(id) \/ CacheExpire(id)
                           \/ UpdateStore(id) \/ UpdateFinish(id)
  \/ \E s \in Samples : Ingest(s) \/ JobBegin(s) \/ JobStep(s)
  \/ ReconcileStep
  \/ ClockTick

Spec == Init /\ [][Next]_vars

\* A job that a worker has begun and the reconciler goroutine keep running,
\* the ticker keeps firing, time passes, and Redis expires entries.  Nobody
\* is obliged to register, update or delete a device or to send a sample, and
\* an accepted job may stay in the queue.
Fairness ==
  /\ \A s \in Samples : WF_vars(JobStep(s))
  /\ \A id \in DeviceIDs : WF_vars(CacheExpire(id))
  /\ WF_vars(ReconcileStep)
  /\ WF_vars(ClockTick)

FairSpec == Spec /\ Fairness

-----------------------------------------------------------------------------
(* Properties.                                                             *)

\* Every variable has its type.
TypeOK ==
  /\ StoreTypeOK
  /\ clock \in 1 .. MaxTime
  /\ cache \in [DeviceIDs -> Entries \union {NoEntry}]
  /\ reg \in [DeviceIDs -> {"new", "cache", "publish", "done"}]
  /\ update \in [DeviceIDs -> {"idle", "read"}]
  /\ job \in [Samples -> JobStates]
  /\ sample \in [Samples -> SampleData]
  /\ rec \in [pc : {"idle", "scan", "cache", "publish"},
              due : SUBSET DeviceIDs, cur : SUBSET DeviceIDs]

\* A device is "unknown" exactly until its first sample: whatever order
\* registration, jobs and reconciler run in, no device has a status from a
\* report without a last-seen time, which the reconciler would skip for ever.
UnknownUntilSeen ==
  \A id \in DeviceIDs : Exists(id) =>
    ((devices[id].status = "unknown") <=> (devices[id].seen = ZeroTime))

\* An event is only published for what has been stored before: a telemetry
\* event for a sample that AddTelemetry took, with its timestamp, an alert event
\* for a recorded alert.  A job whose device is deleted before AddTelemetry
\* publishes nothing, and one whose device is deleted later has stored first.
EventsAreBacked ==
  \A s \in Samples :
    /\ [type |-> "telemetry", of |-> s] \in events
         => [ts |-> sample[s].ts, tag |-> s] \in ever
    /\ \A r \in Rules :
         [type |-> "alert", of |-> s, rule |-> r] \in events
           => [rule |-> r, tag |-> s] \in ever

\* A device that has reported and falls silent ends up offline, whatever the
\* races between late jobs, deletions and reconciler passes left behind.
SilentDevicesEndOffline ==
  <>[](\A id \in DeviceIDs :
         (Exists(id) /\ devices[id].seen # ZeroTime)
            => devices[id].status = "offline")

\* Cache and store may disagree for a while, never for ever: in the end
\* GetDevice answers what the store holds, because entries expire.
CacheHeals ==
  <>[](\A id \in DeviceIDs : Exists(id) => GetDevice(id) = devices[id])

\* Every breach is alerted and nothing else is: a job that has published its
\* sample does not end before each rule the sample breaches has its alert
\* published, whatever the other rules of the list make of the sample, and no
\* alert is published for a rule it keeps.  (EventsAreBacked ties the published
\* alerts to recorded ones.)
BreachesAreAlerted ==
  \A s \in Samples, r \in Rules :
    LET alert == [type |-> "alert", of |-> s, rule |-> r]
        due   == Breaches(sample[s].metrics, RuleList[r])
    IN  /\ alert \in events => due
        /\ (job[s] = "done" /\ [type |-> "telemetry", of |-> s] \in events /\ due)
             => alert \in events

-----------------------------------------------------------------------------
(* A statement of the code's comments that the code does not keep.         *)

\* service.go on ReconcileStatuses: "marks devices offline if they have not
\* reported within the offline window".
OfflineOnlyWhenSilent ==
  [][\A id \in DeviceIDs :
       (Exists(id) /\ Exists(id)' /\ devices[id].status # "offline"
          /\ devices'[id].status = "offline")
         => clock - devices[id].seen > OfflineAfter]_vars
=============================================================================
