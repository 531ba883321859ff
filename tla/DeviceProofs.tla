---------------------------- MODULE DeviceProofs ----------------------------
(***************************************************************************)
(* Machine-checked proofs about DeviceService and the MemoryStore under    *)
(* it, for every set of devices and samples, every history cap, every list *)
(* of alert rules and any interleaving of registrations, deletions, jobs   *)
(* and reconciler passes, with or without a cache.                         *)
(***************************************************************************)
EXTENDS DeviceService, SequenceFacts, FiniteSetTheorems, TLAPS

-----------------------------------------------------------------------------
(* The operators of the model.                                             *)

(* The alert that processTelemetry records next is one of those left.      *)
LEMMA NextAlertIsLeft ==
  ASSUME NEW s \in Samples, sample[s].left \subseteq Rules, sample[s].left # {}
  PROVE  NextAlert(s) \in sample[s].left
<1> DEFINE L == sample[s].left
           Less == {ss \in Nat \X Nat : ss[1] < ss[2]}
<1>1. L \subseteq Nat /\ L # {}
  BY ServiceAssumption
<1>2. PICK r \in L : \A q \in L : <<q, r>> \notin Less
  <2>1. IsWellFoundedOn(Less, Nat)
    BY NatLessThanWellFounded DEF OpToRel
  <2> HIDE DEF L, Less
  <2> QED BY <1>1, <2>1, WFMin
<1>3. \A q \in L : ~ (q < r)
  BY <1>1, <1>2
<1>4. \A q \in L : r <= q
  BY <1>1, <1>3
<1> QED BY <1>2, <1>4 DEF NextAlert

(* The last n of a sequence are as many of its elements as there are, n at *)
(* most, counted from its end.                                             *)
LEMMA LastNProperties ==
  ASSUME NEW S, NEW q \in Seq(S), NEW n \in Nat
  PROVE  /\ LastN(q, n) \in Seq(S)
         /\ Len(LastN(q, n)) = IF Len(q) > n THEN n ELSE Len(q)
         /\ \A i \in 1 .. Len(LastN(q, n)) :
              LastN(q, n)[i] = q[Len(q) - Len(LastN(q, n)) + i]
<1>1. Len(q) \in Nat
  BY LenProperties
<1>2. CASE Len(q) > n
  <2>1. /\ SubSeq(q, Len(q) - n + 1, Len(q)) \in Seq(S)
        /\ Len(SubSeq(q, Len(q) - n + 1, Len(q))) = n
        /\ \A i \in 1 .. n : SubSeq(q, Len(q) - n + 1, Len(q))[i] = q[Len(q) - n + i]
    <3> DEFINE m == Len(q) - n + 1
    <3>1. m \in 1 .. Len(q) + 1 /\ Len(q) - m + 1 = n /\ \A i \in 1 .. n : m + i - 1 = Len(q) - n + i
      BY <1>1, <1>2
    <3> HIDE DEF m
    <3>2. /\ SubSeq(q, m, Len(q)) \in Seq(S)
          /\ Len(SubSeq(q, m, Len(q))) = n
          /\ \A i \in 1 .. n : SubSeq(q, m, Len(q))[i] = q[Len(q) - n + i]
      BY <1>1, <3>1, SubSeqProperties
    <3> QED BY <3>2 DEF m
  <2> QED BY <1>1, <1>2, <2>1 DEF LastN
<1>3. CASE Len(q) <= n
  <2>1. LastN(q, n) = q
    BY <1>1, <1>3 DEF LastN
  <2>2. \A i \in 1 .. Len(q) : Len(q) - Len(q) + i = i
    BY <1>1
  <2> QED BY <1>1, <1>3, <2>1, <2>2
<1> QED BY <1>1, <1>2, <1>3

(* Trimming after every append, as AddTelemetry does, keeps what one trim  *)
(* of everything that has arrived would keep.                              *)
LEMMA CapIsIncremental ==
  ASSUME maxHistory \in Int, NEW S, NEW q \in Seq(S), NEW p \in S
  PROVE  Capped(Append(Capped(q), p)) = Capped(Append(q, p))
<1>1. CASE maxHistory > 0
  <2> DEFINE n == maxHistory
             k == LastN(q, n)
             kp == Append(k, p)
             qp == Append(q, p)
             a == LastN(kp, n)
             b == LastN(qp, n)
  <2>1. n \in Nat /\ n > 0
    BY <1>1
  <2>2. Len(q) \in Nat
    BY LenProperties
  <2> HIDE DEF n
  <2>3. /\ k \in Seq(S)
        /\ Len(k) = IF Len(q) > n THEN n ELSE Len(q)
        /\ \A i \in 1 .. Len(k) : k[i] = q[Len(q) - Len(k) + i]
    BY <2>1, LastNProperties
  <2> HIDE DEF k
  <2>4. /\ kp \in Seq(S) /\ Len(kp) = Len(k) + 1
        /\ \A i \in 1 .. Len(k) : kp[i] = k[i]
        /\ kp[Len(k) + 1] = p
    BY <2>3, AppendProperties
  <2>5. /\ qp \in Seq(S) /\ Len(qp) = Len(q) + 1
        /\ \A i \in 1 .. Len(q) : qp[i] = q[i]
        /\ qp[Len(q) + 1] = p
    BY AppendProperties
  <2> HIDE DEF kp, qp
  <2>6. /\ a \in Seq(S)
        /\ Len(a) = IF Len(k) + 1 > n THEN n ELSE Len(k) + 1
        /\ \A i \in 1 .. Len(a) : a[i] = kp[Len(k) + 1 - Len(a) + i]
    <3>1. /\ a \in Seq(S)
          /\ Len(a) = IF Len(kp) > n THEN n ELSE Len(kp)
          /\ \A i \in 1 .. Len(a) : a[i] = kp[Len(kp) - Len(a) + i]
      BY <2>1, <2>4, LastNProperties
    <3> HIDE DEF a
    <3>2. Len(kp) = Len(k) + 1
      BY <2>4
    <3>3. Len(a) = IF Len(k) + 1 > n THEN n ELSE Len(k) + 1
      BY <3>1, <3>2
    <3>4. ASSUME NEW i \in 1 .. Len(a) PROVE a[i] = kp[Len(k) + 1 - Len(a) + i]
      <4>1. a[i] = kp[Len(kp) - Len(a) + i]
        BY <3>1
      <4> QED BY <3>2, <4>1
    <3> QED BY <3>1, <3>3, <3>4
  <2>7. /\ b \in Seq(S)
        /\ Len(b) = IF Len(q) + 1 > n THEN n ELSE Len(q) + 1
        /\ \A i \in 1 .. Len(b) : b[i] = qp[Len(q) + 1 - Len(b) + i]
    <3>1. /\ b \in Seq(S)
          /\ Len(b) = IF Len(qp) > n THEN n ELSE Len(qp)
          /\ \A i \in 1 .. Len(b) : b[i] = qp[Len(qp) - Len(b) + i]
      BY <2>1, <2>5, LastNProperties
    <3> HIDE DEF b
    <3>2. Len(qp) = Len(q) + 1
      BY <2>5
    <3>3. Len(b) = IF Len(q) + 1 > n THEN n ELSE Len(q) + 1
      BY <3>1, <3>2
    <3>4. ASSUME NEW i \in 1 .. Len(b) PROVE b[i] = qp[Len(q) + 1 - Len(b) + i]
      <4>1. b[i] = qp[Len(qp) - Len(b) + i]
        BY <3>1
      <4> QED BY <3>2, <4>1
    <3> QED BY <3>1, <3>3, <3>4
  <2> HIDE DEF a, b
  <2>8. Len(a) = Len(b) /\ Len(a) \in Nat /\ Len(a) > 0 /\ Len(a) <= Len(k) + 1
        /\ Len(k) \in Nat /\ Len(k) <= Len(q)
    BY <2>1, <2>2, <2>3, <2>6, <2>7
  <2>9. \A i \in 1 .. Len(a) : a[i] = b[i]
    <3> SUFFICES ASSUME NEW i \in 1 .. Len(a) PROVE a[i] = b[i]
      OBVIOUS
    <3>1. CASE i = Len(a)
      <4>1. Len(k) + 1 - Len(a) + i = Len(k) + 1 /\ Len(q) + 1 - Len(b) + i = Len(q) + 1
        BY <2>2, <2>8, <3>1
      <4> QED BY <2>4, <2>5, <2>6, <2>7, <2>8, <4>1
    <3>2. CASE i < Len(a)
      <4> DEFINE x == Len(k) + 1 - Len(a) + i
                 y == Len(q) + 1 - Len(b) + i
      <4>1. x \in 1 .. Len(k) /\ y \in 1 .. Len(q) /\ y = Len(q) - Len(k) + x
        BY <2>2, <2>8, <3>2
      <4> HIDE DEF x, y
      <4>2. kp[x] = qp[y]
        BY <2>3, <2>4, <2>5, <4>1
      <4> QED BY <2>6, <2>7, <2>8, <4>2 DEF x, y
    <3> QED BY <2>8, <3>1, <3>2
  <2>10. a = b
    BY <2>6, <2>7, <2>8, <2>9, SeqEqual
  <2> QED BY <1>1, <2>10 DEF Capped, a, b, kp, qp, k, n
<1>2. CASE ~ (maxHistory > 0)
  BY <1>2 DEF Capped
<1> QED BY <1>1, <1>2

-----------------------------------------------------------------------------
(* The inductive invariants.                                               *)

\* A sample that the pool has accepted carries a timestamp.
Stamped ==
  \A s \in Samples : job[s] \in Running \union {"pending", "done"} => sample[s].ts \in Times

\* What a series holds is what one trim of all that has arrived would keep.
KeptAreNewest == \A id \in DeviceIDs : telemetry[id] = Capped(arrived[id])

\* IDs are used once, so that a device the reconciler found silent is never a
\* new one by the time it is marked: either it still has its last-seen time, or
\* it is gone.
IdsUsedOnce ==
  /\ \A id \in DeviceIDs : Exists(id) => reg[id] # "new"
  /\ \A id \in rec.due : reg[id] # "new" /\ (Exists(id) => devices[id].seen # ZeroTime)

TelemetryEvent(s) == [type |-> "telemetry", of |-> s]
AlertEvent(s, r)  == [type |-> "alert", of |-> s, rule |-> r]

\* The job of s has got past AddTelemetry.
StoredStates == {"status", "cache", "publish", "alerts", "alertPublish"}

\* What a job or an event of sample s rests on.
PointStored(s)    == [ts |-> sample[s].ts, tag |-> s] \in ever
AlertStored(s, r) == [rule |-> r, tag |-> s] \in ever

BackingInv ==
  \A s \in Samples :
    /\ (job[s] \in StoredStates \/ TelemetryEvent(s) \in events) => PointStored(s)
    /\ job[s] = "alertPublish" => AlertStored(s, NextAlert(s))
    /\ \A r \in Rules : AlertEvent(s, r) \in events => AlertStored(s, r)

\* The alerts of a sample are published or left; nothing is left when the job
\* has ended, nor published before Evaluate.
AlertInv ==
  \A s \in Samples :
    /\ TelemetryEvent(s) \in events => job[s] \in {"alerts", "alertPublish", "done"}
    /\ job[s] = "alertPublish" => sample[s].left # {}
    /\ job[s] \in {"alerts", "alertPublish"} => sample[s].left \subseteq Evaluate(sample[s].metrics)
    /\ \A r \in Rules : AlertEvent(s, r) \in events => r \in Evaluate(sample[s].metrics)
    /\ (job[s] \in {"alerts", "alertPublish"} \/ (job[s] = "done" /\ TelemetryEvent(s) \in events)) =>
         \A r \in Evaluate(sample[s].metrics) :
           AlertEvent(s, r) \in events \/ (job[s] # "done" /\ r \in sample[s].left)

-----------------------------------------------------------------------------
(* Type correctness.  It is inductive together with Stamped: the points    *)
(* that a job stores have timestamps only because IngestTelemetry has      *)
(* stamped the sample.                                                     *)

(* The methods of the store keep its types.                                *)
LEMMA StoreTypeStep ==
  ASSUME StoreTypeOK, NEW id \in DeviceIDs
  PROVE  /\ \A d \in Devices : CreateDevice(id, d) => StoreTypeOK'
         /\ \A desc \in Descs : UpdateDevice(id, desc) => StoreTypeOK'
         /\ \A status \in Statuses, seen \in Times \union {ZeroTime} :
              UpdateDeviceStatus(id, status, seen) => StoreTypeOK'
         /\ DeleteDevice(id) => StoreTypeOK'
         /\ \A p \in Points : AddTelemetry(id, p) => StoreTypeOK'
         /\ \A a \in Alerts : AddAlert(id, a) => StoreTypeOK'
<1> USE DEF StoreTypeOK
<1>1. ASSUME NEW d \in Devices, CreateDevice(id, d) PROVE StoreTypeOK'
  BY <1>1 DEF CreateDevice
<1>2. ASSUME Exists(id) PROVE devices[id] \in Devices
  BY <1>2 DEF Exists
<1>3. ASSUME NEW desc \in Descs, UpdateDevice(id, desc) PROVE StoreTypeOK'
  <2>1. [devices[id] EXCEPT !.desc = desc] \in Devices
    BY <1>2, <1>3 DEF UpdateDevice, Devices
  <2>2. devices' = [devices EXCEPT ![id] = [devices[id] EXCEPT !.desc = desc]]
    BY <1>3 DEF UpdateDevice
  <2>3. devices' \in [DeviceIDs -> Devices \union {NoDevice}]
    BY <2>1, <2>2
  <2> QED BY <1>3, <2>3 DEF UpdateDevice
<1>4. ASSUME NEW status \in Statuses, NEW seen \in Times \union {ZeroTime},
             UpdateDeviceStatus(id, status, seen)
      PROVE  StoreTypeOK'
  <2> DEFINE d == [devices[id] EXCEPT !.status = status,
                                      !.seen = IF seen = ZeroTime THEN @ ELSE seen]
  <2>1. d \in Devices
    BY <1>2, <1>4 DEF UpdateDeviceStatus, Devices
  <2>2. devices' = [devices EXCEPT ![id] = d]
    BY <1>4 DEF UpdateDeviceStatus
  <2> HIDE DEF d
  <2>3. devices' \in [DeviceIDs -> Devices \union {NoDevice}]
    BY <2>1, <2>2
  <2> QED BY <1>4, <2>3 DEF UpdateDeviceStatus
<1>5. ASSUME DeleteDevice(id) PROVE StoreTypeOK'
  BY <1>5 DEF DeleteDevice
<1>6. ASSUME NEW p \in Points, AddTelemetry(id, p) PROVE StoreTypeOK'
  <2>1. Append(telemetry[id], p) \in Seq(Points) /\ Append(arrived[id], p) \in Seq(Points)
    BY AppendProperties
  <2>2. Capped(Append(telemetry[id], p)) \in Seq(Points)
    <3>1. ASSUME NEW q \in Seq(Points) PROVE Capped(q) \in Seq(Points)
      <4>1. CASE maxHistory > 0
        BY <4>1, StoreAssumption, LastNProperties DEF Capped
      <4>2. CASE ~ (maxHistory > 0)
        BY <4>2 DEF Capped
      <4> QED BY <4>1, <4>2
    <3> QED BY <2>1, <3>1
  <2> QED BY <1>6, <2>1, <2>2 DEF AddTelemetry
<1>7. ASSUME NEW a \in Alerts, AddAlert(id, a) PROVE StoreTypeOK'
  <2>1. Append(alerts[id], a) \in Seq(Alerts)
    BY AppendProperties
  <2> QED BY <1>7, <2>1 DEF AddAlert
<1> QED BY <1>1, <1>3, <1>4, <1>5, <1>6, <1>7

(* So does the cache.                                                      *)
LEMMA CacheTypeStep ==
  ASSUME cache \in [DeviceIDs -> Entries \union {NoEntry}],
         NEW id \in DeviceIDs, NEW status \in Statuses,
         NEW seen \in Times \union {ZeroTime}, CacheStatus(id, status, seen)
  PROVE  cache' \in [DeviceIDs -> Entries \union {NoEntry}]
<1>1. [status |-> status, seen |-> seen] \in Entries
  BY DEF Entries
<1> QED BY <1>1 DEF CacheStatus

(* Init is well typed, and the pool has accepted no sample.                *)
LEMMA TypeInit == Init => TypeOK /\ Stamped
<1> SUFFICES ASSUME Init PROVE TypeOK /\ Stamped
  OBVIOUS
<1>1. StoreTypeOK
  BY DEF Init, StoreInit, StoreTypeOK
<1>2. sample \in [Samples -> SampleData]
  BY DEF Init, SampleData
<1>3. Stamped
  BY DEF Init, Stamped, Running
<1> QED BY <1>1, <1>2, <1>3, ServiceAssumption DEF Init, TypeOK, JobStates

(* Of a sample only the timestamp and the alerts left ever change.         *)
LEMMA SampleStep ==
  ASSUME TypeOK, NEW s \in Samples
  PROVE  /\ \A ts \in Times : [sample EXCEPT ![s].ts = ts] \in [Samples -> SampleData]
         /\ \A L \in SUBSET Rules :
              [sample EXCEPT ![s].left = L] \in [Samples -> SampleData]
<1>1. sample[s] \in SampleData /\ sample \in [Samples -> SampleData]
  BY DEF TypeOK
<1>2. ASSUME NEW ts \in Times PROVE [sample[s] EXCEPT !.ts = ts] \in SampleData
  BY <1>1 DEF SampleData
<1>3. ASSUME NEW L \in SUBSET Rules PROVE [sample[s] EXCEPT !.left = L] \in SampleData
  BY <1>1 DEF SampleData
<1> QED BY <1>1, <1>2, <1>3

(* Every step keeps the state well typed and the accepted samples stamped. *)
LEMMA TypeStep == TypeOK /\ Stamped /\ [Next]_vars => TypeOK' /\ Stamped'
<1> SUFFICES ASSUME TypeOK, Stamped, [Next]_vars
             PROVE  TypeOK' /\ Stamped'
  OBVIOUS
<1>a. /\ StoreTypeOK
      /\ clock \in 1 .. MaxTime
      /\ cache \in [DeviceIDs -> Entries \union {NoEntry}]
      /\ reg \in [DeviceIDs -> {"new", "cache", "publish", "done"}]
      /\ update \in [DeviceIDs -> {"idle", "read"}]
      /\ job \in [Samples -> JobStates]
      /\ sample \in [Samples -> SampleData]
      /\ rec \in [pc : {"idle", "scan", "cache", "publish"},
                  due : SUBSET DeviceIDs, cur : SUBSET DeviceIDs]
  BY DEF TypeOK
\* Most steps change the store, one of the fields, and the place of one job.
<1>b. ASSUME StoreTypeOK', UNCHANGED <<clock, cache, update, job, sample, rec>>,
             reg' \in [DeviceIDs -> {"new", "cache", "publish", "done"}]
      PROVE  TypeOK' /\ Stamped'
  BY <1>a, <1>b DEF TypeOK, Stamped
<1>c. ASSUME NEW s \in Samples, NEW pc \in JobStates, StoreTypeOK',
             job' = [job EXCEPT ![s] = pc], UNCHANGED <<clock, reg, update, rec>>,
             cache' \in [DeviceIDs -> Entries \union {NoEntry}],
             sample' \in [Samples -> SampleData],
             \A q \in Samples : sample'[q].ts = sample[q].ts,
             job[s] \in Running \union {"pending", "done"} \/ pc \in {"checked", "refused"}
      PROVE  TypeOK' /\ Stamped'
  <2>1. TypeOK'
    BY <1>a, <1>c DEF TypeOK
  <2>2. ASSUME NEW q \in Samples, job'[q] \in Running \union {"pending", "done"}
        PROVE  sample'[q].ts \in Times
    <3>1. CASE q = s
      BY <1>a, <1>c, <2>2, <3>1 DEF Stamped, Running
    <3>2. CASE q # s
      BY <1>a, <1>c, <2>2, <3>2 DEF Stamped
    <3> QED BY <3>1, <3>2
  <2> QED BY <2>1, <2>2 DEF Stamped
<1>d. ASSUME UNCHANGED storeVars PROVE StoreTypeOK'
  BY <1>a, <1>d DEF storeVars, StoreTypeOK
<1>1. ASSUME NEW id \in DeviceIDs, Register(id) PROVE TypeOK' /\ Stamped'
  <2>1. CASE RegisterCreate(id)
    <3>1. PICK desc \in Descs :
            CreateDevice(id, [status |-> "unknown", seen |-> ZeroTime, desc |-> desc])
      BY <2>1 DEF RegisterCreate
    <3>2. [status |-> "unknown", seen |-> ZeroTime, desc |-> desc] \in Devices
      BY DEF Devices, Statuses
    <3>3. StoreTypeOK'
      BY <1>a, <3>1, <3>2, StoreTypeStep
    <3> QED BY <1>a, <1>b, <2>1, <3>3 DEF RegisterCreate
  <2>2. CASE RegisterCache(id)
    <3>1. cache' \in [DeviceIDs -> Entries \union {NoEntry}]
      BY <1>a, <2>2, CacheTypeStep DEF RegisterCache, Statuses
    <3>2. reg' \in [DeviceIDs -> {"new", "cache", "publish", "done"}]
          /\ UNCHANGED <<clock, update, job, sample, rec>>
      BY <1>a, <2>2 DEF RegisterCache
    <3>3. StoreTypeOK'
      BY <1>d, <2>2 DEF RegisterCache
    <3> QED BY <1>a, <3>1, <3>2, <3>3 DEF TypeOK, Stamped
  <2>3. CASE RegisterPublish(id)
    BY <1>a, <1>b, <1>d, <2>3 DEF RegisterPublish
  <2> QED BY <1>1, <2>1, <2>2, <2>3 DEF Register
<1>2. ASSUME NEW id \in DeviceIDs, Delete(id) PROVE TypeOK' /\ Stamped'
  <2>1. StoreTypeOK'
    BY <1>a, <1>2, StoreTypeStep DEF Delete
  <2> QED BY <1>a, <1>b, <1>2, <2>1 DEF Delete, svcVars
<1>3. ASSUME NEW id \in DeviceIDs, CacheExpire(id) PROVE TypeOK' /\ Stamped'
  <2>1. StoreTypeOK'
    BY <1>d, <1>3 DEF CacheExpire
  <2> QED BY <1>a, <1>3, <2>1 DEF CacheExpire, TypeOK, Stamped
<1>4. ASSUME NEW id \in DeviceIDs, UpdateStore(id) \/ UpdateFinish(id)
      PROVE  TypeOK' /\ Stamped'
  <2>1. StoreTypeOK'
    BY <1>a, <1>d, <1>4, StoreTypeStep DEF UpdateStore, UpdateFinish
  <2>2. update' \in [DeviceIDs -> {"idle", "read"}]
        /\ UNCHANGED <<clock, cache, reg, job, sample, rec>>
    BY <1>a, <1>4 DEF UpdateStore, UpdateFinish
  <2> QED BY <1>a, <2>1, <2>2 DEF TypeOK, Stamped
<1>5. ASSUME NEW s \in Samples, Ingest(s) PROVE TypeOK' /\ Stamped'
  <2>1. CASE IngestCheck(s) \/ IngestRefuse(s)
    <3>1. PICK pc \in {"checked", "refused"} : job' = [job EXCEPT ![s] = pc]
      BY <2>1 DEF IngestCheck, IngestRefuse
    <3> QED BY <1>a, <1>c, <1>d, <2>1, <3>1 DEF IngestCheck, IngestRefuse, JobStates
  <2>2. CASE IngestAccept(s)
    <3>1. sample' = [sample EXCEPT ![s].ts = Stamp(sample[s].ts)]
          /\ Stamp(sample[s].ts) \in Times
      BY <2>2 DEF IngestAccept
    <3>2. sample' \in [Samples -> SampleData]
      BY <3>1, SampleStep
    <3>3. /\ sample'[s].ts \in Times
          /\ \A q \in Samples : q # s => sample'[q] = sample[q] /\ job'[q] = job[q]
      BY <1>a, <2>2, <3>1 DEF IngestAccept, SampleData
    <3>4. StoreTypeOK'
      BY <1>d, <2>2 DEF IngestAccept
    <3>5. job' \in [Samples -> JobStates] /\ UNCHANGED <<clock, cache, reg, update, rec>>
      BY <1>a, <2>2 DEF IngestAccept, JobStates
    <3>6. TypeOK'
      BY <1>a, <3>2, <3>4, <3>5 DEF TypeOK
    <3>7. Stamped'
      BY <3>3 DEF Stamped
    <3> QED BY <3>6, <3>7
  <2> QED BY <1>5, <2>1, <2>2 DEF Ingest
<1>6. ASSUME NEW s \in Samples, JobBegin(s) PROVE TypeOK' /\ Stamped'
  BY <1>a, <1>c, <1>d, <1>6 DEF JobBegin, JobStates, Running
<1>7. ASSUME NEW s \in Samples, JobStep(s) PROVE TypeOK' /\ Stamped'
  <2>0. Dev(s) \in DeviceIDs /\ sample[s].left \subseteq Rules
        /\ sample[s].ts \in Times \union {ZeroTime}
    BY <1>a DEF Dev, SampleData
  <2>1. CASE JobStore(s)
    <3>1. sample[s].ts \in Times
      BY <2>1 DEF JobStore, Stamped, Running
    <3>2. [ts |-> sample[s].ts, tag |-> s] \in Points
      BY <3>1 DEF Points, Samples
    <3>3. StoreTypeOK'
      BY <1>a, <1>d, <2>0, <2>1, <3>2, StoreTypeStep DEF JobStore
    <3>4. PICK pc \in {"status", "done"} : job' = [job EXCEPT ![s] = pc]
      BY <2>1 DEF JobStore
    <3> QED BY <1>a, <1>c, <2>1, <3>3, <3>4 DEF JobStore, JobStates, Running
  <2>2. CASE JobStatus(s)
    <3>1. StoreTypeOK'
      BY <1>a, <1>d, <2>0, <2>2, StoreTypeStep DEF JobStatus, Statuses
    <3> QED BY <1>a, <1>c, <2>2, <3>1 DEF JobStatus, JobStates, Running
  <2>3. CASE JobCache(s)
    <3>1. cache' \in [DeviceIDs -> Entries \union {NoEntry}]
      BY <1>a, <2>0, <2>3, CacheTypeStep DEF JobCache, Statuses
    <3> QED BY <1>a, <1>c, <1>d, <2>3, <3>1 DEF JobCache, JobStates, Running
  <2>4. CASE JobPublish(s) \/ JobAlertPublish(s)
    <3>1. PICK L \in SUBSET Rules : sample' = [sample EXCEPT ![s].left = L]
      BY <2>0, <2>4 DEF JobPublish, JobAlertPublish, Evaluate
    <3>2. sample' \in [Samples -> SampleData]
      BY <3>1, SampleStep
    <3>3. \A q \in Samples : sample'[q].ts = sample[q].ts
      BY <1>a, <3>1 DEF SampleData
    <3>4. job' = [job EXCEPT ![s] = "alerts"] /\ job[s] \in Running
          /\ UNCHANGED <<clock, cache, reg, update, rec>> /\ UNCHANGED storeVars
      BY <2>4 DEF JobPublish, JobAlertPublish, Running
    <3> QED BY <1>a, <1>c, <1>d, <3>2, <3>3, <3>4 DEF JobStates, Running
  <2>5. CASE JobAlert(s)
    <3>1. NextAlert(s) \in Rules
      BY <2>0, <2>5, NextAlertIsLeft DEF JobAlert
    <3>2. [rule |-> NextAlert(s), tag |-> s] \in Alerts
      BY <3>1 DEF Alerts, Samples
    <3>3. StoreTypeOK'
      BY <1>a, <2>0, <2>5, <3>2, StoreTypeStep DEF JobAlert
    <3> QED BY <1>a, <1>c, <2>5, <3>3 DEF JobAlert, JobStates, Running
  <2>6. CASE JobEnd(s)
    BY <1>a, <1>c, <1>d, <2>6 DEF JobEnd, JobStates, Running
  <2> QED BY <1>7, <2>1, <2>2, <2>3, <2>4, <2>5, <2>6 DEF JobStep
<1>8. ASSUME ReconcileStep PROVE TypeOK' /\ Stamped'
  <2>0. ZeroTime \in Times \union {ZeroTime} /\ "offline" \in Statuses
    BY DEF Statuses
  <2>1. rec' \in [pc : {"idle", "scan", "cache", "publish"},
                  due : SUBSET DeviceIDs, cur : SUBSET DeviceIDs]
    <3>1. CASE ReconcileTick
      BY <3>1 DEF ReconcileTick
    <3>2. CASE ReconcileCache \/ ReconcilePublish \/ ReconcileDone
      BY <1>a, <3>2 DEF ReconcileCache, ReconcilePublish, ReconcileDone
    <3>3. ASSUME NEW id \in DeviceIDs, ReconcileMark(id)
          PROVE  rec' \in [pc : {"idle", "scan", "cache", "publish"},
                           due : SUBSET DeviceIDs, cur : SUBSET DeviceIDs]
      <4>1. CASE rec' = [rec EXCEPT !.pc = "cache", !.due = @ \ {id}, !.cur = {id}]
        BY <1>a, <4>1
      <4>2. CASE rec' = [rec EXCEPT !.due = @ \ {id}]
        BY <1>a, <4>2
      <4> QED BY <3>3, <4>1, <4>2 DEF ReconcileMark
    <3> QED BY <1>8, <3>1, <3>2, <3>3 DEF ReconcileStep
  <2>2. StoreTypeOK'
    BY <1>a, <1>d, <1>8, <2>0, StoreTypeStep
       DEF ReconcileStep, ReconcileTick, ReconcileMark, ReconcileCache,
           ReconcilePublish, ReconcileDone
  <2>3. cache' \in [DeviceIDs -> Entries \union {NoEntry}]
    <3>1. CASE ReconcileCache
      <4>1. PICK id \in rec.cur : CacheStatus(id, "offline", ZeroTime)
        BY <3>1 DEF ReconcileCache
      <4>2. id \in DeviceIDs
        BY <1>a, <4>1
      <4> QED BY <1>a, <2>0, <4>1, <4>2, CacheTypeStep
    <3>2. CASE UNCHANGED cache
      BY <1>a, <3>2
    <3> QED BY <1>8, <3>1, <3>2
            DEF ReconcileStep, ReconcileTick, ReconcileMark, ReconcilePublish, ReconcileDone
  <2>4. UNCHANGED <<clock, reg, update, job, sample>>
    BY <1>8 DEF ReconcileStep, ReconcileTick, ReconcileMark, ReconcileCache,
                ReconcilePublish, ReconcileDone
  <2> QED BY <1>a, <2>1, <2>2, <2>3, <2>4 DEF TypeOK, Stamped
<1>9. CASE ClockTick
  <2>1. clock' \in 1 .. MaxTime /\ UNCHANGED <<cache, reg, update, job, sample, rec>>
    BY <1>a, <1>9, ServiceAssumption DEF ClockTick
  <2>2. StoreTypeOK'
    BY <1>d, <1>9 DEF ClockTick
  <2> QED BY <1>a, <2>1, <2>2 DEF TypeOK, Stamped
<1>10. CASE UNCHANGED vars
  BY <1>a, <1>b, <1>d, <1>10 DEF vars, svcVars
<1> QED
  BY <1>1, <1>2, <1>3, <1>4, <1>5, <1>6, <1>7, <1>8, <1>9, <1>10 DEF Next

(* Every variable of the service and of its store keeps its type: what the *)
(* jobs store are stamped points and alerts of the engine's rules.         *)
THEOREM TypeCorrect == Spec => []TypeOK
<1>1. Spec => [](TypeOK /\ Stamped)
  BY TypeInit, TypeStep, PTL DEF Spec
<1> QED BY <1>1, PTL

-----------------------------------------------------------------------------
(* What the store holds.                                                   *)

\* A call of one of the store's methods for the device.
StoreMethod(id) ==
  \/ reg[id] = "new" /\ \E d \in Devices : CreateDevice(id, d)
  \/ \E desc \in Descs : UpdateDevice(id, desc)
  \/ \E status \in Statuses, seen \in Times \union {ZeroTime} :
       UpdateDeviceStatus(id, status, seen)
  \/ DeleteDevice(id)
  \/ \E p \in Points : AddTelemetry(id, p)
  \/ \E a \in Alerts : AddAlert(id, a)

StoreMoves == UNCHANGED storeVars \/ \E id \in DeviceIDs : StoreMethod(id)

(* Whoever takes a step, the store changes by one of its own methods.      *)
LEMMA StoreMovesByMethods ==
  ASSUME TypeOK, Stamped, [Next]_vars
  PROVE  StoreMoves
<1> USE DEF StoreMoves, StoreMethod
<1>1. ASSUME NEW id \in DeviceIDs, Register(id) PROVE StoreMoves
  <2>1. \A desc \in Descs : [status |-> "unknown", seen |-> ZeroTime, desc |-> desc] \in Devices
    BY DEF Devices, Statuses
  <2> QED BY <1>1, <2>1 DEF Register, RegisterCreate, RegisterCache, RegisterPublish
<1>2. ASSUME NEW id \in DeviceIDs,
             Delete(id) \/ CacheExpire(id) \/ UpdateStore(id) \/ UpdateFinish(id)
      PROVE  StoreMoves
  BY <1>2 DEF Delete, CacheExpire, UpdateStore, UpdateFinish
<1>3. ASSUME NEW s \in Samples, Ingest(s) \/ JobBegin(s) PROVE StoreMoves
  BY <1>3 DEF Ingest, IngestCheck, IngestAccept, IngestRefuse, JobBegin
<1>4. ASSUME NEW s \in Samples, JobStep(s) PROVE StoreMoves
  <2>0. /\ Dev(s) \in DeviceIDs /\ sample[s].left \subseteq Rules
        /\ sample[s].ts \in Times \union {ZeroTime} /\ "online" \in Statuses
    BY DEF TypeOK, Dev, SampleData, Statuses
  <2>1. CASE JobStore(s)
    <3>1. [ts |-> sample[s].ts, tag |-> s] \in Points
      BY <2>1 DEF JobStore, Stamped, Running, Points, Samples
    <3> QED BY <2>0, <2>1, <3>1 DEF JobStore
  <2>2. CASE JobStatus(s)
    BY <2>0, <2>2 DEF JobStatus
  <2>3. CASE JobAlert(s)
    <3>1. [rule |-> NextAlert(s), tag |-> s] \in Alerts
      BY <2>0, <2>3, NextAlertIsLeft DEF JobAlert, Alerts, Samples
    <3> QED BY <2>0, <2>3, <3>1 DEF JobAlert
  <2>4. CASE JobCache(s) \/ JobPublish(s) \/ JobAlertPublish(s) \/ JobEnd(s)
    BY <2>4 DEF JobCache, JobPublish, JobAlertPublish, JobEnd
  <2> QED BY <1>4, <2>1, <2>2, <2>3, <2>4 DEF JobStep
<1>5. ASSUME ReconcileStep PROVE StoreMoves
  <2>1. ZeroTime \in Times \union {ZeroTime} /\ "offline" \in Statuses
    BY DEF Statuses
  <2> QED BY <1>5, <2>1 DEF ReconcileStep, ReconcileTick, ReconcileMark, ReconcileCache,
                            ReconcilePublish, ReconcileDone
<1>6. CASE ClockTick \/ UNCHANGED vars
  BY <1>6 DEF ClockTick, vars
<1> QED
  <2> HIDE DEF StoreMoves, StoreMethod
  <2> QED BY <1>1, <1>2, <1>3, <1>4, <1>5, <1>6 DEF Next

(* Each method of the store keeps what the series hold.                    *)
LEMMA StoreInvStep ==
  ASSUME TypeOK, Stamped, NoOrphanTelemetry, KeptAreNewest, [Next]_vars
  PROVE  NoOrphanTelemetry' /\ KeptAreNewest'
<1>0. /\ telemetry \in [DeviceIDs -> Seq(Points)] /\ arrived \in [DeviceIDs -> Seq(Points)]
      /\ devices \in [DeviceIDs -> Devices \union {NoDevice}]
      /\ maxHistory \in Int
  BY StoreAssumption DEF TypeOK, StoreTypeOK
<1>1. ASSUME UNCHANGED <<maxHistory, telemetry, arrived>>, NEW id \in DeviceIDs, Exists(id)',
             \A o \in DeviceIDs : o # id => devices'[o] = devices[o]
      PROVE  NoOrphanTelemetry' /\ KeptAreNewest'
  BY <1>1 DEF NoOrphanTelemetry, KeptAreNewest, Capped, Exists
<1>2. ASSUME UNCHANGED <<maxHistory, telemetry, arrived, devices>>
      PROVE  NoOrphanTelemetry' /\ KeptAreNewest'
  BY <1>2 DEF NoOrphanTelemetry, KeptAreNewest, Capped, Exists
<1>3. ASSUME NEW id \in DeviceIDs, NEW d \in Devices, CreateDevice(id, d)
      PROVE  NoOrphanTelemetry' /\ KeptAreNewest'
  BY <1>0, <1>1, <1>3, StoreAssumption DEF CreateDevice, Exists
<1>4. ASSUME NEW id \in DeviceIDs, Exists(id), NEW d \in Devices,
             devices' = [devices EXCEPT ![id] = d],
             UNCHANGED <<maxHistory, telemetry, arrived>>
      PROVE  NoOrphanTelemetry' /\ KeptAreNewest'
  BY <1>0, <1>1, <1>4, StoreAssumption DEF Exists
<1>5. ASSUME NEW id \in DeviceIDs, NEW desc \in Descs, UpdateDevice(id, desc)
      PROVE  NoOrphanTelemetry' /\ KeptAreNewest'
  <2>1. [devices[id] EXCEPT !.desc = desc] \in Devices
    BY <1>0, <1>5 DEF UpdateDevice, Exists, Devices
  <2> QED BY <1>4, <1>5, <2>1 DEF UpdateDevice
<1>6. ASSUME NEW id \in DeviceIDs, NEW status \in Statuses,
             NEW seen \in Times \union {ZeroTime}, UpdateDeviceStatus(id, status, seen)
      PROVE  NoOrphanTelemetry' /\ KeptAreNewest'
  <2> DEFINE d == [devices[id] EXCEPT !.status = status,
                                      !.seen = IF seen = ZeroTime THEN @ ELSE seen]
  <2>1. d \in Devices
    BY <1>0, <1>6 DEF UpdateDeviceStatus, Exists, Devices
  <2>2. devices' = [devices EXCEPT ![id] = d]
    BY <1>6 DEF UpdateDeviceStatus
  <2> HIDE DEF d
  <2> QED BY <1>4, <1>6, <2>1, <2>2 DEF UpdateDeviceStatus
<1>7. ASSUME NEW id \in DeviceIDs, DeleteDevice(id)
      PROVE  NoOrphanTelemetry' /\ KeptAreNewest'
  <2>1. Capped(<<>>) = <<>>
    BY <1>0 DEF Capped, LastN
  <2>2. /\ \A o \in DeviceIDs : o # id =>
             telemetry'[o] = telemetry[o] /\ arrived'[o] = arrived[o] /\ devices'[o] = devices[o]
        /\ telemetry'[id] = <<>> /\ arrived'[id] = <<>> /\ UNCHANGED maxHistory
    BY <1>0, <1>7 DEF DeleteDevice
  <2> QED BY <2>1, <2>2 DEF NoOrphanTelemetry, KeptAreNewest, Capped, Exists
<1>8. ASSUME NEW id \in DeviceIDs, NEW p \in Points, AddTelemetry(id, p)
      PROVE  NoOrphanTelemetry' /\ KeptAreNewest'
  <2>1. Capped(Append(telemetry[id], p)) = Capped(Append(arrived[id], p))
    BY <1>0, CapIsIncremental DEF KeptAreNewest
  <2>2. /\ \A o \in DeviceIDs : o # id =>
             telemetry'[o] = telemetry[o] /\ arrived'[o] = arrived[o]
        /\ telemetry'[id] = Capped(Append(telemetry[id], p))
        /\ arrived'[id] = Append(arrived[id], p)
        /\ Exists(id) /\ UNCHANGED <<maxHistory, devices>>
    BY <1>0, <1>8 DEF AddTelemetry
  <2>3. KeptAreNewest'
    BY <2>1, <2>2 DEF KeptAreNewest, Capped
  <2>4. NoOrphanTelemetry'
    BY <2>2 DEF NoOrphanTelemetry, Exists
  <2> QED BY <2>3, <2>4
<1>9. ASSUME NEW id \in DeviceIDs, NEW a \in Alerts, AddAlert(id, a)
      PROVE  NoOrphanTelemetry' /\ KeptAreNewest'
  BY <1>2, <1>9 DEF AddAlert
<1> QED BY StoreMovesByMethods, <1>2, <1>3, <1>5, <1>6, <1>7, <1>8, <1>9
        DEF storeVars, StoreMoves, StoreMethod

(* The empty store holds no telemetry.                                     *)
LEMMA StoreInvInit == Init => NoOrphanTelemetry /\ KeptAreNewest
<1>1. maxHistory \in Int => Capped(<<>>) = <<>>
  BY DEF Capped, LastN
<1>2. Init => maxHistory \in Int
  BY StoreAssumption DEF Init, StoreInit
<1> QED BY <1>1, <1>2 DEF Init, StoreInit, NoOrphanTelemetry, KeptAreNewest

(* DeleteDevice takes the series with the device, and no job that is late  *)
(* adds to it again: a deleted device has no telemetry.                    *)
THEOREM DeletedHaveNoTelemetry == Spec => []NoOrphanTelemetry
<1>1. Spec => [](TypeOK /\ Stamped /\ NoOrphanTelemetry /\ KeptAreNewest)
  BY TypeInit, TypeStep, StoreInvInit, StoreInvStep, PTL DEF Spec
<1> QED BY <1>1, PTL

(* Trimming after every append, AddTelemetry keeps the newest arrivals and *)
(* nothing else, whatever the cap and in whatever order jobs are run.      *)
THEOREM CapKeepsNewest == Spec => []KeptAreNewest
<1>1. Spec => [](TypeOK /\ Stamped /\ NoOrphanTelemetry /\ KeptAreNewest)
  BY TypeInit, TypeStep, StoreInvInit, StoreInvStep, PTL DEF Spec
<1> QED BY <1>1, PTL

-----------------------------------------------------------------------------
(* Statuses.                                                               *)

(* The steps that neither write a device nor move a registration or the    *)
(* reconciler.                                                             *)
LEMMA StatusFrame ==
  ASSUME IdsUsedOnce, UnknownUntilSeen, UNCHANGED <<devices, rec>>,
         \A id \in DeviceIDs : reg'[id] = reg[id] \/ reg'[id] # "new",
         rec.due \subseteq DeviceIDs
  PROVE  IdsUsedOnce' /\ UnknownUntilSeen'
BY DEF IdsUsedOnce, UnknownUntilSeen, Exists

(* Only a device that has been seen gets a status other than "unknown".    *)
LEMMA StatusStep ==
  ASSUME TypeOK, Stamped, IdsUsedOnce, UnknownUntilSeen, [Next]_vars
  PROVE  IdsUsedOnce' /\ UnknownUntilSeen'
<1>0. /\ devices \in [DeviceIDs -> Devices \union {NoDevice}]
      /\ reg \in [DeviceIDs -> {"new", "cache", "publish", "done"}]
      /\ rec \in [pc : {"idle", "scan", "cache", "publish"},
                  due : SUBSET DeviceIDs, cur : SUBSET DeviceIDs]
      /\ rec.due \subseteq DeviceIDs
      /\ NoDevice \notin Devices /\ ZeroTime \notin Times
  BY StoreAssumption DEF TypeOK, StoreTypeOK
\* One device is written; its ID may have been taken off the reconciler's list.
<1>a. ASSUME NEW id \in DeviceIDs, NEW d \in Devices \union {NoDevice},
             devices' = [devices EXCEPT ![id] = d],
             \A o \in DeviceIDs : reg'[o] = reg[o] \/ reg'[o] # "new",
             rec'.due \subseteq rec.due,
             d # NoDevice => /\ reg'[id] # "new"
                             /\ (d.status = "unknown") <=> (d.seen = ZeroTime)
                             /\ id \in rec'.due => d.seen # ZeroTime
      PROVE  IdsUsedOnce' /\ UnknownUntilSeen'
  <2>1. devices'[id] = d /\ \A o \in DeviceIDs : o # id => devices'[o] = devices[o]
    BY <1>0, <1>a
  <2>2. IdsUsedOnce'
    BY <1>0, <1>a, <2>1 DEF IdsUsedOnce, Exists
  <2>3. UnknownUntilSeen'
    BY <1>a, <2>1 DEF UnknownUntilSeen, Exists
  <2> QED BY <2>2, <2>3
<1>1. ASSUME NEW id \in DeviceIDs, RegisterCreate(id)
      PROVE  IdsUsedOnce' /\ UnknownUntilSeen'
  <2>1. PICK desc \in Descs :
          CreateDevice(id, [status |-> "unknown", seen |-> ZeroTime, desc |-> desc])
    BY <1>1 DEF RegisterCreate
  <2> DEFINE d == [status |-> "unknown", seen |-> ZeroTime, desc |-> desc]
  <2>2. d \in Devices /\ d.status = "unknown" /\ d.seen = ZeroTime
    BY DEF Devices, Statuses
  <2>3. devices' = [devices EXCEPT ![id] = d]
    BY <2>1 DEF CreateDevice
  <2> HIDE DEF d
  <2>4. /\ reg[id] = "new" /\ reg' = [reg EXCEPT ![id] = "cache"] /\ rec' = rec
    BY <1>1 DEF RegisterCreate
  <2>5. id \notin rec.due
    BY <2>4 DEF IdsUsedOnce
  <2>6. reg'[id] = "cache" /\ \A o \in DeviceIDs : o # id => reg'[o] = reg[o]
    BY <1>0, <2>4
  <2> QED BY <1>a, <2>2, <2>3, <2>4, <2>5, <2>6
<1>2. ASSUME NEW id \in DeviceIDs, RegisterCache(id) \/ RegisterPublish(id)
      PROVE  IdsUsedOnce' /\ UnknownUntilSeen'
  <2>1. UNCHANGED <<devices, rec>> /\ \A o \in DeviceIDs : reg'[o] = reg[o] \/ reg'[o] # "new"
    BY <1>0, <1>2 DEF RegisterCache, RegisterPublish, storeVars
  <2> QED BY <1>0, <2>1, StatusFrame
<1>3. ASSUME NEW id \in DeviceIDs, Delete(id)
      PROVE  IdsUsedOnce' /\ UnknownUntilSeen'
  BY <1>a, <1>3 DEF Delete, DeleteDevice, svcVars
<1>4. ASSUME NEW id \in DeviceIDs, UpdateStore(id)
      PROVE  IdsUsedOnce' /\ UnknownUntilSeen'
  <2>1. PICK desc \in Descs : UpdateDevice(id, desc)
    BY <1>4 DEF UpdateStore
  <2> DEFINE d == [devices[id] EXCEPT !.desc = desc]
  <2>2. Exists(id) /\ devices[id] \in Devices /\ devices' = [devices EXCEPT ![id] = d]
    BY <1>0, <2>1 DEF UpdateDevice, Exists
  <2>3. d \in Devices /\ d.status = devices[id].status /\ d.seen = devices[id].seen
    BY <2>2 DEF Devices
  <2> HIDE DEF d
  <2>4. UNCHANGED <<reg, rec>>
    BY <1>4 DEF UpdateStore
  <2>5. /\ reg[id] # "new"
        /\ (devices[id].status = "unknown") <=> (devices[id].seen = ZeroTime)
        /\ id \in rec.due => devices[id].seen # ZeroTime
    BY <2>2 DEF IdsUsedOnce, UnknownUntilSeen
  <2> QED BY <1>a, <2>2, <2>3, <2>4, <2>5
<1>5. ASSUME NEW s \in Samples, JobStatus(s)
      PROVE  IdsUsedOnce' /\ UnknownUntilSeen'
  <2>0. Dev(s) \in DeviceIDs /\ sample[s].ts \in Times /\ UNCHANGED <<reg, rec>>
    BY <1>5 DEF TypeOK, Dev, SampleData, JobStatus, Stamped, Running
  <2>1. CASE UpdateDeviceStatus(Dev(s), "online", sample[s].ts)
    <3> DEFINE d == [devices[Dev(s)] EXCEPT
                       !.status = "online",
                       !.seen = IF sample[s].ts = ZeroTime THEN @ ELSE sample[s].ts]
    <3>1. /\ Exists(Dev(s)) /\ devices[Dev(s)] \in Devices
          /\ devices' = [devices EXCEPT ![Dev(s)] = d]
      BY <1>0, <2>0, <2>1 DEF UpdateDeviceStatus, Exists
    <3>2. d \in Devices /\ d.status = "online" /\ d.seen = sample[s].ts
      BY <1>0, <2>0, <3>1 DEF Devices, Statuses
    <3> HIDE DEF d
    <3>3. reg[Dev(s)] # "new"
      BY <2>0, <3>1 DEF IdsUsedOnce
    <3> QED BY <1>0, <1>a, <2>0, <3>1, <3>2, <3>3
  <2>2. CASE UNCHANGED storeVars
    BY <1>0, <2>0, <2>2, StatusFrame DEF storeVars
  <2> QED BY <1>5, <2>1, <2>2 DEF JobStatus
<1>6. ASSUME ReconcileTick PROVE IdsUsedOnce' /\ UnknownUntilSeen'
  <2>1. rec'.due = {id \in DeviceIDs : Exists(id) /\ Due(clock, devices[id])}
        /\ UNCHANGED <<devices, reg>>
    BY <1>6 DEF ReconcileTick, storeVars
  <2>2. \A id \in rec'.due : Exists(id) /\ devices[id].seen # ZeroTime
    BY <2>1 DEF Due
  <2>3. \A id \in rec'.due : reg[id] # "new"
    BY <2>1 DEF IdsUsedOnce
  <2> QED BY <2>1, <2>2, <2>3 DEF IdsUsedOnce, UnknownUntilSeen, Exists
<1>7. ASSUME NEW id \in DeviceIDs, ReconcileMark(id)
      PROVE  IdsUsedOnce' /\ UnknownUntilSeen'
  <2>0. id \in rec.due /\ UNCHANGED reg
    BY <1>7 DEF ReconcileMark
  <2>1. rec'.due = rec.due \ {id}
    <3>1. CASE rec' = [rec EXCEPT !.pc = "cache", !.due = @ \ {id}, !.cur = {id}]
      BY <1>0, <3>1
    <3>2. CASE rec' = [rec EXCEPT !.due = @ \ {id}]
      BY <1>0, <3>2
    <3> QED BY <1>7, <3>1, <3>2 DEF ReconcileMark
  <2>2. CASE UpdateDeviceStatus(id, "offline", ZeroTime)
    <3> DEFINE d == [devices[id] EXCEPT
                       !.status = "offline",
                       !.seen = IF ZeroTime = ZeroTime THEN @ ELSE ZeroTime]
    <3>1. /\ Exists(id) /\ devices[id] \in Devices
          /\ devices' = [devices EXCEPT ![id] = d]
      BY <1>0, <2>2 DEF UpdateDeviceStatus, Exists
    <3>2. d \in Devices /\ d.status = "offline" /\ d.seen = devices[id].seen
      BY <3>1 DEF Devices, Statuses
    <3> HIDE DEF d
    <3>3. reg[id] # "new" /\ devices[id].seen # ZeroTime
      BY <2>0, <3>1 DEF IdsUsedOnce
    <3> QED BY <1>0, <1>a, <2>0, <2>1, <3>1, <3>2, <3>3
  <2>3. CASE UNCHANGED storeVars
    BY <1>0, <2>0, <2>1, <2>3 DEF storeVars, IdsUsedOnce, UnknownUntilSeen, Exists
  <2> QED BY <1>7, <2>2, <2>3 DEF ReconcileMark
<1>8. CASE ReconcileCache \/ ReconcilePublish \/ ReconcileDone
  <2>1. UNCHANGED <<devices, reg>> /\ rec'.due = rec.due
    BY <1>0, <1>8 DEF ReconcileCache, ReconcilePublish, ReconcileDone, storeVars
  <2> QED BY <1>0, <2>1 DEF IdsUsedOnce, UnknownUntilSeen, Exists
<1>9. ASSUME NEW s \in Samples, Ingest(s) \/ JobBegin(s) \/ (JobStep(s) /\ ~JobStatus(s))
      PROVE  IdsUsedOnce' /\ UnknownUntilSeen'
  <2>1. UNCHANGED <<devices, reg, rec>>
    BY <1>9 DEF Ingest, IngestCheck, IngestAccept, IngestRefuse, JobBegin, JobStep,
                JobStore, JobCache, JobPublish, JobAlert, JobAlertPublish, JobEnd,
                AddTelemetry, AddAlert, storeVars
  <2> QED BY <1>0, <2>1, StatusFrame
<1>10. ASSUME NEW id \in DeviceIDs, CacheExpire(id) \/ UpdateFinish(id)
       PROVE  IdsUsedOnce' /\ UnknownUntilSeen'
  BY <1>0, <1>10, StatusFrame DEF CacheExpire, UpdateFinish, storeVars
<1>11. CASE ClockTick \/ UNCHANGED vars
  BY <1>0, <1>11, StatusFrame DEF ClockTick, vars, svcVars, storeVars
<1> QED
  BY <1>1, <1>2, <1>3, <1>4, <1>5, <1>6, <1>7, <1>8, <1>9, <1>10, <1>11
     DEF Next, Register, ReconcileStep

(* No device is registered at the start and the reconciler is idle.        *)
LEMMA StatusInit == Init => IdsUsedOnce /\ UnknownUntilSeen
BY DEF Init, StoreInit, IdsUsedOnce, UnknownUntilSeen, Exists

(* A device is "unknown" exactly until a sample of it has been processed,  *)
(* so that none has a status that the reconciler, which skips devices      *)
(* without a last-seen time, would leave for ever.                         *)
THEOREM UnknownMeansUnseen == Spec => []UnknownUntilSeen
<1>1. Spec => [](TypeOK /\ Stamped /\ IdsUsedOnce /\ UnknownUntilSeen)
  BY TypeInit, TypeStep, StatusInit, StatusStep, PTL DEF Spec
<1> QED BY <1>1, PTL

-----------------------------------------------------------------------------
(* Events.                                                                 *)

(* What becomes of a sample in a step: nothing, or a step of its own.      *)
LEMMA JobMoves ==
  ASSUME TypeOK, [Next]_vars, NEW s \in Samples
  PROVE  /\ Dev(s)' = Dev(s) /\ sample'[s].metrics = sample[s].metrics
         /\ \/ job'[s] = job[s] /\ sample'[s] = sample[s]
            \/ Ingest(s) \/ JobBegin(s) \/ JobStep(s)
<1>0. job \in [Samples -> JobStates] /\ sample \in [Samples -> SampleData]
  BY DEF TypeOK
<1>a. ASSUME UNCHANGED <<job, sample>>
      PROVE  Dev(s)' = Dev(s) /\ job'[s] = job[s] /\ sample'[s] = sample[s]
  BY <1>a DEF Dev
<1>b. ASSUME NEW q \in Samples, NEW pc, job' = [job EXCEPT ![q] = pc],
             \/ UNCHANGED sample
             \/ \E t : sample' = [sample EXCEPT ![q].ts = t]
             \/ \E L : sample' = [sample EXCEPT ![q].left = L]
      PROVE  /\ Dev(s)' = Dev(s) /\ sample'[s].metrics = sample[s].metrics
             /\ s # q => job'[s] = job[s] /\ sample'[s] = sample[s]
  <2>1. CASE s # q
    BY <1>0, <1>b, <2>1 DEF Dev
  <2>2. CASE s = q
    BY <1>0, <1>b, <2>2 DEF Dev, SampleData
  <2> QED BY <2>1, <2>2
<1>1. ASSUME NEW q \in Samples, Ingest(q) \/ JobBegin(q) \/ JobStep(q)
      PROVE  /\ Dev(s)' = Dev(s) /\ sample'[s].metrics = sample[s].metrics
             /\ s # q => job'[s] = job[s] /\ sample'[s] = sample[s]
  <2>1. CASE Ingest(q)
    <3>1. \E pc : job' = [job EXCEPT ![q] = pc]
      BY <2>1 DEF Ingest, IngestCheck, IngestAccept, IngestRefuse
    <3>2. UNCHANGED sample \/ \E t : sample' = [sample EXCEPT ![q].ts = t]
      BY <2>1 DEF Ingest, IngestCheck, IngestAccept, IngestRefuse
    <3> QED BY <1>b, <3>1, <3>2
  <2>2. CASE JobBegin(q)
    BY <1>b, <2>2 DEF JobBegin
  <2>3. CASE JobStep(q)
    <3>1. \E pc : job' = [job EXCEPT ![q] = pc]
      BY <2>3 DEF JobStep, JobStore, JobStatus, JobCache, JobPublish, JobAlert,
                  JobAlertPublish, JobEnd
    <3>2. UNCHANGED sample \/ \E L : sample' = [sample EXCEPT ![q].left = L]
      BY <2>3 DEF JobStep, JobStore, JobStatus, JobCache, JobPublish, JobAlert,
                  JobAlertPublish, JobEnd
    <3> QED BY <1>b, <3>1, <3>2
  <2> QED BY <1>1, <2>1, <2>2, <2>3
<1>2. CASE UNCHANGED <<job, sample>>
  BY <1>a, <1>2
<1>3. ASSUME NEW id \in DeviceIDs,
             Register(id) \/ Delete(id) \/ CacheExpire(id) \/ UpdateStore(id) \/ UpdateFinish(id)
      PROVE  UNCHANGED <<job, sample>>
  BY <1>3 DEF Register, RegisterCreate, RegisterCache, RegisterPublish, Delete, svcVars,
              CacheExpire, UpdateStore, UpdateFinish
<1>4. ASSUME ReconcileStep \/ ClockTick \/ UNCHANGED vars
      PROVE  UNCHANGED <<job, sample>>
  BY <1>4 DEF ReconcileStep, ReconcileTick, ReconcileMark, ReconcileCache,
              ReconcilePublish, ReconcileDone, ClockTick, vars, svcVars
<1> QED BY <1>1, <1>2, <1>3, <1>4 DEF Next

(* Who publishes what.                                                     *)
LEMMA EventsStep ==
  ASSUME [Next]_vars, NEW s \in Samples
  PROVE  /\ events \subseteq events'
         /\ TelemetryEvent(s) \in events' => TelemetryEvent(s) \in events \/ JobPublish(s)
         /\ \A r \in Rules : AlertEvent(s, r) \in events' =>
              AlertEvent(s, r) \in events \/ (JobAlertPublish(s) /\ r = NextAlert(s))
<1>1. CASE UNCHANGED events
  BY <1>1
<1>2. ASSUME NEW q \in Samples, JobPublish(q)
      PROVE  /\ events \subseteq events'
             /\ TelemetryEvent(s) \in events' => TelemetryEvent(s) \in events \/ s = q
             /\ \A r \in Rules : AlertEvent(s, r) \in events' => AlertEvent(s, r) \in events
  <2>1. events' = events \union {TelemetryEvent(q)}
    BY <1>2 DEF JobPublish, TelemetryEvent
  <2>2. TelemetryEvent(s) = TelemetryEvent(q) => s = q
    BY DEF TelemetryEvent
  <2>3. \A r \in Rules : AlertEvent(s, r) # TelemetryEvent(q)
    BY DEF TelemetryEvent, AlertEvent
  <2> QED BY <2>1, <2>2, <2>3
<1>3. ASSUME NEW q \in Samples, JobAlertPublish(q)
      PROVE  /\ events \subseteq events'
             /\ TelemetryEvent(s) \in events' => TelemetryEvent(s) \in events
             /\ \A r \in Rules : AlertEvent(s, r) \in events' =>
                  AlertEvent(s, r) \in events \/ (s = q /\ r = NextAlert(q))
  <2>1. events' = events \union {AlertEvent(q, NextAlert(q))}
    BY <1>3 DEF JobAlertPublish, AlertEvent
  <2>2. \A r \in Rules : AlertEvent(s, r) = AlertEvent(q, NextAlert(q)) =>
                           s = q /\ r = NextAlert(q)
    BY DEF AlertEvent
  <2>3. TelemetryEvent(s) # AlertEvent(q, NextAlert(q))
    BY DEF TelemetryEvent, AlertEvent
  <2> QED BY <2>1, <2>2, <2>3
<1>4. ASSUME events \subseteq events',
             \A e \in events' \ events : e.type \in {"device", "status"}
      PROVE  /\ events \subseteq events'
             /\ TelemetryEvent(s) \in events' => TelemetryEvent(s) \in events
             /\ \A r \in Rules : AlertEvent(s, r) \in events' => AlertEvent(s, r) \in events
  <2>1. TelemetryEvent(s).type = "telemetry" /\ \A r \in Rules : AlertEvent(s, r).type = "alert"
    BY DEF TelemetryEvent, AlertEvent
  <2> QED BY <1>4, <2>1
<1>5. ASSUME NEW id \in DeviceIDs, RegisterPublish(id) \/ UpdateFinish(id)
      PROVE  events \subseteq events' /\ \A e \in events' \ events : e.type \in {"device", "status"}
  BY <1>5 DEF RegisterPublish, UpdateFinish
<1>6. ASSUME ReconcilePublish
      PROVE  events \subseteq events' /\ \A e \in events' \ events : e.type \in {"device", "status"}
  <2>1. \A id \in rec.cur : [type |-> "status", of |-> id].type = "status"
    OBVIOUS
  <2> QED BY <1>6, <2>1 DEF ReconcilePublish
<1>7. ASSUME NEW id \in DeviceIDs,
             RegisterCreate(id) \/ RegisterCache(id) \/ Delete(id) \/ CacheExpire(id)
               \/ UpdateStore(id)
      PROVE  UNCHANGED events
  BY <1>7 DEF RegisterCreate, RegisterCache, Delete, svcVars, CacheExpire, UpdateStore
<1>8. ASSUME NEW q \in Samples,
             Ingest(q) \/ JobBegin(q) \/ JobStore(q) \/ JobStatus(q) \/ JobCache(q)
               \/ JobAlert(q) \/ JobEnd(q)
      PROVE  UNCHANGED events
  BY <1>8 DEF Ingest, IngestCheck, IngestAccept, IngestRefuse, JobBegin, JobStore,
              JobStatus, JobCache, JobAlert, JobEnd
<1>9. ASSUME \/ ReconcileTick \/ ReconcileCache \/ ReconcileDone \/ ClockTick \/ UNCHANGED vars
             \/ \E id \in DeviceIDs : ReconcileMark(id)
      PROVE  UNCHANGED events
  BY <1>9 DEF ReconcileTick, ReconcileMark, ReconcileCache, ReconcileDone, ClockTick,
              vars, svcVars
<1>10. CASE \E id \in DeviceIDs : Register(id) \/ Delete(id) \/ CacheExpire(id)
                                  \/ UpdateStore(id) \/ UpdateFinish(id)
  BY <1>1, <1>4, <1>5, <1>7, <1>10 DEF Register
<1>11. CASE \E q \in Samples : Ingest(q) \/ JobBegin(q) \/ JobStep(q)
  BY <1>1, <1>2, <1>3, <1>8, <1>11 DEF JobStep
<1>12. CASE ReconcileStep \/ ClockTick \/ UNCHANGED vars
  BY <1>1, <1>4, <1>6, <1>9, <1>12 DEF ReconcileStep
<1> QED BY <1>10, <1>11, <1>12 DEF Next

-----------------------------------------------------------------------------
(* Alerts.                                                                 *)

(* A job publishes an alert for each of the rules its sample breaches      *)
(* before it ends, and for no other.                                       *)
LEMMA AlertStep ==
  ASSUME TypeOK, AlertInv, [Next]_vars
  PROVE  AlertInv'
<1> SUFFICES ASSUME NEW s \in Samples
             PROVE  /\ TelemetryEvent(s) \in events' => job'[s] \in {"alerts", "alertPublish", "done"}
                    /\ job'[s] = "alertPublish" => sample'[s].left # {}
                    /\ job'[s] \in {"alerts", "alertPublish"} =>
                         sample'[s].left \subseteq Evaluate(sample'[s].metrics)
                    /\ \A r \in Rules :
                         AlertEvent(s, r) \in events' => r \in Evaluate(sample'[s].metrics)
                    /\ (job'[s] \in {"alerts", "alertPublish"}
                          \/ (job'[s] = "done" /\ TelemetryEvent(s) \in events')) =>
                         \A r \in Evaluate(sample'[s].metrics) :
                           AlertEvent(s, r) \in events' \/ (job'[s] # "done" /\ r \in sample'[s].left)
  BY DEF AlertInv, TelemetryEvent, AlertEvent, Evaluate
<1> DEFINE due == Evaluate(sample[s].metrics)
<1>0. /\ job \in [Samples -> JobStates] /\ sample \in [Samples -> SampleData]
      /\ sample[s] \in SampleData /\ sample[s].left \subseteq Rules /\ due \subseteq Rules
  BY DEF TypeOK, SampleData, Evaluate
<1>1. sample'[s].metrics = sample[s].metrics
  BY JobMoves
<1>2. /\ TelemetryEvent(s) \in events => job[s] \in {"alerts", "alertPublish", "done"}
      /\ job[s] = "alertPublish" => sample[s].left # {}
      /\ job[s] \in {"alerts", "alertPublish"} => sample[s].left \subseteq due
      /\ \A r \in Rules : AlertEvent(s, r) \in events => r \in due
      /\ (job[s] \in {"alerts", "alertPublish"} \/ (job[s] = "done" /\ TelemetryEvent(s) \in events)) =>
           \A r \in due : AlertEvent(s, r) \in events \/ (job[s] # "done" /\ r \in sample[s].left)
  BY DEF AlertInv
<1>3. /\ events \subseteq events'
      /\ TelemetryEvent(s) \in events' => TelemetryEvent(s) \in events \/ JobPublish(s)
      /\ \A r \in Rules : AlertEvent(s, r) \in events' =>
           AlertEvent(s, r) \in events \/ (JobAlertPublish(s) /\ r = NextAlert(s))
  BY EventsStep
<1> DEFINE Goal == /\ TelemetryEvent(s) \in events' => job'[s] \in {"alerts", "alertPublish", "done"}
                   /\ job'[s] = "alertPublish" => sample'[s].left # {}
                   /\ job'[s] \in {"alerts", "alertPublish"} => sample'[s].left \subseteq due
                   /\ \A r \in Rules : AlertEvent(s, r) \in events' => r \in due
                   /\ (job'[s] \in {"alerts", "alertPublish"}
                         \/ (job'[s] = "done" /\ TelemetryEvent(s) \in events')) =>
                        \A r \in due :
                          AlertEvent(s, r) \in events' \/ (job'[s] # "done" /\ r \in sample'[s].left)
<1>4. SUFFICES Goal
  BY <1>1
<1> HIDE DEF due
<1>5. CASE JobPublish(s)
  <2>1. /\ job[s] = "publish" /\ job'[s] = "alerts" /\ sample'[s].left = due
    BY <1>0, <1>5 DEF JobPublish, SampleData, due
  <2> QED BY <1>0, <1>2, <1>3, <2>1 DEF JobAlertPublish
<1>6. CASE JobAlertPublish(s)
  <2>1. /\ job[s] = "alertPublish" /\ job'[s] = "alerts"
        /\ sample'[s].left = sample[s].left \ {NextAlert(s)}
    BY <1>0, <1>6 DEF JobAlertPublish, SampleData
  <2>2. AlertEvent(s, NextAlert(s)) \in events'
    BY <1>6 DEF JobAlertPublish, AlertEvent
  <2>3. NextAlert(s) \in sample[s].left
    BY <1>0, <1>2, <2>1, NextAlertIsLeft
  <2> QED BY <1>0, <1>2, <1>3, <2>1, <2>2, <2>3
<1>7. ASSUME ~JobPublish(s), ~JobAlertPublish(s)
      PROVE  /\ TelemetryEvent(s) \in events' <=> TelemetryEvent(s) \in events
             /\ \A r \in Rules : AlertEvent(s, r) \in events' <=> AlertEvent(s, r) \in events
  BY <1>3, <1>7
<1>8. CASE JobAlert(s)
  <2>1. /\ job[s] = "alerts" /\ job'[s] = "alertPublish" /\ sample'[s].left = sample[s].left
        /\ sample[s].left # {} /\ ~JobPublish(s) /\ ~JobAlertPublish(s)
    BY <1>0, <1>8 DEF JobAlert, JobPublish, JobAlertPublish
  <2> QED BY <1>0, <1>2, <1>7, <2>1
<1>9. CASE JobEnd(s)
  <2>1. /\ job[s] = "alerts" /\ job'[s] = "done" /\ sample[s].left = {}
        /\ ~JobPublish(s) /\ ~JobAlertPublish(s)
    BY <1>0, <1>9 DEF JobEnd, JobPublish, JobAlertPublish
  <2> QED BY <1>0, <1>2, <1>7, <2>1
<1>10. CASE job'[s] = job[s] /\ sample'[s] = sample[s] /\ ~JobPublish(s) /\ ~JobAlertPublish(s)
  BY <1>0, <1>2, <1>7, <1>10
<1>11. CASE Ingest(s) \/ JobBegin(s) \/ JobStore(s) \/ JobStatus(s) \/ JobCache(s)
  <2>1. /\ job[s] \in {"new", "checked", "pending", "store", "status", "cache"}
        /\ job'[s] \in {"checked", "refused", "pending", "store", "status", "done", "cache", "publish"}
        /\ ~JobPublish(s) /\ ~JobAlertPublish(s)
    BY <1>0, <1>11 DEF Ingest, IngestCheck, IngestAccept, IngestRefuse, JobBegin, JobStore,
                       JobStatus, JobCache, JobPublish, JobAlertPublish
  <2> QED BY <1>0, <1>2, <1>7, <2>1
<1> QED BY JobMoves, <1>5, <1>6, <1>8, <1>9, <1>10, <1>11 DEF JobStep

(* No job has evaluated anything at the start.                             *)
LEMMA AlertInit == Init => AlertInv
BY DEF Init, AlertInv

(* Every rule that a published sample breaches has its alert published     *)
(* before the job ends, whatever the other rules make of it, and no alert  *)
(* is published for a rule that it keeps.                                  *)
THEOREM EveryBreachIsAlerted == Spec => []BreachesAreAlerted
<1>1. AlertInv => BreachesAreAlerted
  BY DEF AlertInv, BreachesAreAlerted, TelemetryEvent, AlertEvent, Evaluate
<1>2. Spec => [](TypeOK /\ Stamped /\ AlertInv)
  BY TypeInit, TypeStep, AlertInit, AlertStep, PTL DEF Spec
<1> QED BY <1>1, <1>2, PTL

-----------------------------------------------------------------------------
(* What events rest on.                                                    *)

(* Nothing that was recorded is forgotten, and an accepted sample keeps    *)
(* its timestamp; so what backs a job or an event stays.                   *)
LEMMA BackingStays ==
  ASSUME TypeOK, Stamped, [Next]_vars, NEW s \in Samples
  PROVE  /\ (PointStored(s) /\ job[s] \notin {"new", "checked"}) => PointStored(s)'
         /\ \A r : AlertStored(s, r) => AlertStored(s, r)'
<1>1. ever \subseteq ever'
  BY StoreMovesByMethods
  DEF StoreMoves, StoreMethod, storeVars, CreateDevice, UpdateDevice,
      UpdateDeviceStatus, DeleteDevice, AddTelemetry, AddAlert
<1>2. ASSUME job[s] \notin {"new", "checked"} PROVE sample'[s].ts = sample[s].ts
  <2>1. sample \in [Samples -> SampleData]
    BY DEF TypeOK
  <2>2. ~Ingest(s)
    BY <1>2 DEF Ingest, IngestCheck, IngestAccept, IngestRefuse
  <2>3. JobBegin(s) => sample' = sample
    BY DEF JobBegin
  <2>4. JobStep(s) => sample' = sample \/ \E L : sample' = [sample EXCEPT ![s].left = L]
    BY DEF JobStep, JobStore, JobStatus, JobCache, JobPublish, JobAlert,
           JobAlertPublish, JobEnd
  <2>5. (\E L : sample' = [sample EXCEPT ![s].left = L]) => sample'[s].ts = sample[s].ts
    BY <2>1 DEF SampleData
  <2> QED BY <2>2, <2>3, <2>4, <2>5, JobMoves
<1> QED BY <1>1, <1>2 DEF PointStored, AlertStored

(* The alert in hand does not change while the sample does not.            *)
LEMMA NextAlertStays ==
  ASSUME NEW s \in Samples, sample'[s] = sample[s]
  PROVE  NextAlert(s)' = NextAlert(s)
BY DEF NextAlert

(* A job gets past a store only with what it has stored.                   *)
LEMMA BackingStep ==
  ASSUME TypeOK, Stamped, AlertInv, BackingInv, [Next]_vars
  PROVE  BackingInv'
<1> SUFFICES ASSUME NEW s \in Samples
             PROVE  /\ (job'[s] \in StoredStates \/ TelemetryEvent(s) \in events') => PointStored(s)'
                    /\ job'[s] = "alertPublish" => AlertStored(s, NextAlert(s))'
                    /\ \A r \in Rules : AlertEvent(s, r) \in events' => AlertStored(s, r)'
  BY DEF BackingInv, TelemetryEvent, AlertEvent
<1>0. job \in [Samples -> JobStates]
  BY DEF TypeOK
<1>1. /\ (job[s] \in StoredStates \/ TelemetryEvent(s) \in events) => PointStored(s)'
      /\ job[s] = "alertPublish" => AlertStored(s, NextAlert(s))
      /\ \A r \in Rules : AlertEvent(s, r) \in events => AlertStored(s, r)'
  BY BackingStays DEF BackingInv, AlertInv, StoredStates
<1>2. ASSUME JobStore(s), job'[s] \in StoredStates PROVE PointStored(s)'
  BY <1>0, <1>2 DEF JobStore, AddTelemetry, StoredStates, PointStored
<1>3. ASSUME JobAlert(s) PROVE AlertStored(s, NextAlert(s))'
  <2>1. [rule |-> NextAlert(s), tag |-> s] \in ever' /\ UNCHANGED sample
    BY <1>3 DEF JobAlert, AddAlert
  <2>2. NextAlert(s)' = NextAlert(s)
    BY <2>1, NextAlertStays
  <2> QED BY <2>1, <2>2 DEF AlertStored
<1>4. job'[s] \in StoredStates => job[s] \in StoredStates \/ JobStore(s)
  <2>1. Ingest(s) => job'[s] \in {"checked", "refused", "pending"}
    BY <1>0 DEF Ingest, IngestCheck, IngestAccept, IngestRefuse
  <2>2. JobBegin(s) => job'[s] = "store"
    BY <1>0 DEF JobBegin
  <2>3. JobStep(s) => job[s] \in StoredStates \/ JobStore(s)
    BY DEF JobStep, JobStatus, JobCache, JobPublish, JobAlert, JobAlertPublish, JobEnd,
           StoredStates
  <2> QED BY <2>1, <2>2, <2>3, JobMoves DEF StoredStates
<1>5. job'[s] = "alertPublish" =>
        JobAlert(s) \/ (job[s] = "alertPublish" /\ sample'[s] = sample[s])
  <2>1. Ingest(s) => job'[s] \in {"checked", "refused", "pending"}
    BY <1>0 DEF Ingest, IngestCheck, IngestAccept, IngestRefuse
  <2>2. JobBegin(s) => job'[s] = "store"
    BY <1>0 DEF JobBegin
  <2>3. JobStep(s) => JobAlert(s) \/ job'[s] # "alertPublish"
    BY <1>0 DEF JobStep, JobStore, JobStatus, JobCache, JobPublish, JobAlertPublish, JobEnd
  <2> QED BY <2>1, <2>2, <2>3, JobMoves
<1>6. (job'[s] \in StoredStates \/ TelemetryEvent(s) \in events') => PointStored(s)'
  BY <1>1, <1>2, <1>4, EventsStep DEF JobPublish, StoredStates
<1>7. ASSUME job'[s] = "alertPublish" PROVE AlertStored(s, NextAlert(s))'
  <2>1. CASE JobAlert(s)
    BY <1>3, <2>1
  <2>2. CASE job[s] = "alertPublish" /\ sample'[s] = sample[s]
    <3>1. PICK r : r = NextAlert(s)
      OBVIOUS
    <3>2. AlertStored(s, r)'
      BY <1>1, <2>2, <3>1, BackingStays
    <3>3. NextAlert(s)' = r
      BY <2>2, <3>1, NextAlertStays
    <3> QED BY <3>2, <3>3 DEF AlertStored
  <2> QED BY <1>5, <1>7, <2>1, <2>2
<1>8. ASSUME NEW r \in Rules, AlertEvent(s, r) \in events' PROVE AlertStored(s, r)'
  <2>1. CASE JobAlertPublish(s) /\ r = NextAlert(s)
    <3>1. AlertStored(s, r)
      BY <1>1, <2>1 DEF JobAlertPublish
    <3> QED BY <3>1, BackingStays
  <2> QED BY <1>1, <1>8, <2>1, EventsStep
<1> QED BY <1>6, <1>7, <1>8

(* Nothing has been published at the start.                                *)
LEMMA BackingInit == Init => BackingInv
BY DEF Init, BackingInv, StoredStates

(* An event is published only for what has been stored: a telemetry event  *)
(* stands for a point that AddTelemetry took, with its timestamp, and an   *)
(* alert event for an alert that was recorded, also when the device is     *)
(* deleted before, between or after the steps of the job.                  *)
THEOREM EventsHaveBacking == Spec => []EventsAreBacked
<1>1. BackingInv => EventsAreBacked
  BY DEF BackingInv, EventsAreBacked, PointStored, AlertStored, TelemetryEvent, AlertEvent
<1>2. Spec => [](TypeOK /\ Stamped /\ AlertInv /\ BackingInv)
  BY TypeInit, TypeStep, AlertInit, AlertStep, BackingInit, BackingStep, PTL DEF Spec
<1> QED BY <1>1, <1>2, PTL

-----------------------------------------------------------------------------
(* What GetTelemetry answers.  The loop is a recursive function; what it   *)
(* computes is shown by induction, in the form that a set of numbers which *)
(* has no least number outside it has them all.                            *)

\* One round of the loop, after those that f has the results of.
Round(q, since, f, n) ==
  IF n = 0 THEN <<>>
  ELSE IF since = ZeroTime \/ q[n].ts >= since THEN Append(f[n - 1], q[n]) ELSE f[n - 1]

(* The loop has a result.                                                  *)
LEMMA LoopEnds ==
  ASSUME NEW S, NEW q \in Seq(S), NEW since
  PROVE  \E g : /\ g = [n \in 0 .. Len(q) |-> Round(q, since, g, n)]
                /\ NotBefore(q, since) = g[Len(q)]
<1> DEFINE Ok(n) == \E f : f = [m \in 0 .. n |-> Round(q, since, f, m)]
           T == {n \in 0 .. Len(q) : Ok(n)}
<1>0. Len(q) \in Nat
  BY LenProperties
<1>1. Ok(0)
  <2> DEFINE f == [m \in 0 .. 0 |-> <<>>]
  <2>1. f = [m \in 0 .. 0 |-> Round(q, since, f, m)]
    BY DEF Round
  <2> QED BY <2>1
<1>2. ASSUME NEW n \in 1 .. Len(q), Ok(n - 1) PROVE Ok(n)
  <2>1. PICK f : f = [m \in 0 .. n - 1 |-> Round(q, since, f, m)]
    BY <1>2
  <2> DEFINE h == [m \in 0 .. n |-> IF m < n THEN f[m] ELSE Round(q, since, f, n)]
  <2>2. ASSUME NEW m \in 0 .. n PROVE h[m] = Round(q, since, h, m)
    <3>1. m = 0 \/ (m - 1 \in 0 .. n /\ m - 1 < n)
      BY <1>0
    <3>2. Round(q, since, h, m) = Round(q, since, f, m)
      BY <3>1 DEF Round
    <3>3. m < n => m \in 0 .. n - 1
      BY <1>0
    <3>4. m < n => f[m] = Round(q, since, f, m)
      BY <2>1, <3>3
    <3> QED BY <1>0, <3>2, <3>4
  <2>3. h = [m \in 0 .. n |-> Round(q, since, h, m)]
    BY <2>2
  <2> QED BY <2>3
<1>3. \A n \in 0 .. Len(q) : n \in T
  <2>1. 0 \in T /\ \A n \in 1 .. Len(q) : n - 1 \in T => n \in T
    BY <1>0, <1>1, <1>2
  <2> HIDE DEF T
  <2> QED BY <1>0, <2>1, SetInduction
<1>4. Ok(Len(q))
  BY <1>0, <1>3
<1> DEFINE g == CHOOSE f : f = [m \in 0 .. Len(q) |-> Round(q, since, f, m)]
<1>5. g = [m \in 0 .. Len(q) |-> Round(q, since, g, m)]
  BY <1>4, Zenon
<1>6. NotBefore(q, since) = g[Len(q)]
  BY DEF NotBefore, Round
<1> QED BY <1>5, <1>6

\* The positions up to n that the loop picks.
Picked(q, since, n) == {i \in 1 .. n : since = ZeroTime \/ q[i].ts >= since}

\* out has the elements of q at the positions in R, or the last of them: each
\* with its rank, counted from the end.
Above(R, i) == {j \in R : j > i}
Ranked(out, q, R) ==
  \A k \in 1 .. Len(out) : \E i \in R :
    out[k] = q[i] /\ Len(out) - k = Cardinality(Above(R, i))

(* It is the points picked, in their order.                                *)
LEMMA LoopPicks ==
  ASSUME NEW S, NEW q \in Seq(S), NEW since
  PROVE  /\ NotBefore(q, since) \in Seq(S)
         /\ Len(NotBefore(q, since)) = Cardinality(Picked(q, since, Len(q)))
         /\ Ranked(NotBefore(q, since), q, Picked(q, since, Len(q)))
<1>0. Len(q) \in Nat
  BY LenProperties
<1>1. PICK g : /\ g = [n \in 0 .. Len(q) |-> Round(q, since, g, n)]
               /\ NotBefore(q, since) = g[Len(q)]
  BY LoopEnds
<1> DEFINE R(n) == Picked(q, since, n)
           Ok(n) == g[n] \in Seq(S) /\ Len(g[n]) = Cardinality(R(n)) /\ Ranked(g[n], q, R(n))
           T == {n \in 0 .. Len(q) : Ok(n)}
<1>2. \A n \in 0 .. Len(q) : IsFiniteSet(R(n)) /\ R(n) \subseteq 1 .. n
  <2> SUFFICES ASSUME NEW n \in 0 .. Len(q) PROVE IsFiniteSet(R(n)) /\ R(n) \subseteq 1 .. n
    OBVIOUS
  <2>1. R(n) \subseteq 1 .. n
    BY DEF Picked
  <2>2. IsFiniteSet(1 .. n)
    BY <1>0, FS_Interval
  <2> HIDE DEF R
  <2> QED BY <2>1, <2>2, FS_Subset
<1>3. Ok(0)
  <2>1. g[0] = <<>>
    BY <1>0, <1>1 DEF Round
  <2>2. R(0) = {}
    BY DEF Picked
  <2>3. <<>> \in Seq(S) /\ Len(<<>>) = 0 /\ Cardinality({}) = 0 /\ 1 .. 0 = {}
    BY FS_EmptySet
  <2> QED BY <2>1, <2>2, <2>3 DEF Ranked
<1>4. ASSUME NEW n \in 1 .. Len(q), Ok(n - 1) PROVE Ok(n)
  <2>0. n - 1 \in 0 .. Len(q) /\ n \in 0 .. Len(q) /\ n # 0
    BY <1>0
  <2>1. CASE since = ZeroTime \/ q[n].ts >= since
    <3> DEFINE w == g[n - 1]
               A == R(n - 1)
               c == Cardinality(A)
    <3>1. g[n] = Append(w, q[n])
      BY <1>1, <2>0, <2>1 DEF Round
    <3>2. R(n) = A \union {n} /\ n \notin A /\ \A i \in A : i < n /\ i \in Int
      BY <2>0, <2>1 DEF Picked
    <3>3. IsFiniteSet(A) /\ Cardinality(R(n)) = c + 1
      BY <1>2, <2>0, <3>2, FS_AddElement
    <3>4. q[n] \in S /\ w \in Seq(S) /\ Len(w) = c /\ Ranked(w, q, A) /\ Len(w) \in Nat
      BY <1>0, <1>4, ElementOfSeq, LenProperties
    <3> HIDE DEF w, A, c
    <3> DEFINE v == Append(w, q[n])
               C == A \union {n}
    <3>5. /\ v \in Seq(S) /\ Len(v) = c + 1
          /\ \A k \in 1 .. c : v[k] = w[k]
          /\ v[c + 1] = q[n]
      BY <3>4, AppendProperties
    <3>a. c \in Nat
      BY <3>4
    <3>b. n \in C /\ A \subseteq C /\ Above(C, n) = {}
      BY <3>2 DEF Above
    <3>c. \A i \in A : Above(C, i) = Above(A, i) \union {n} /\ n \notin Above(A, i)
      BY <3>2 DEF Above
    <3>d. \A i \in A : IsFiniteSet(Above(A, i))
      BY <3>3, FS_Subset DEF Above
    <3> HIDE DEF v, C
    <3>6. ASSUME NEW k \in 1 .. c + 1
          PROVE  \E i \in C : v[k] = q[i] /\ c + 1 - k = Cardinality(Above(C, i))
      <4>1. CASE k = c + 1
        <5>1. c + 1 - k = 0
          BY <3>a, <4>1
        <5>2. Cardinality(Above(C, n)) = c + 1 - k
          BY <3>b, <5>1, FS_EmptySet
        <5>3. v[k] = q[n]
          BY <3>5, <4>1
        <5> QED BY <3>b, <5>2, <5>3
      <4>2. CASE k \in 1 .. c
        <5>1. PICK i \in A : w[k] = q[i] /\ c - k = Cardinality(Above(A, i))
          BY <3>4, <4>2 DEF Ranked
        <5>2. Cardinality(Above(A, i) \union {n}) = Cardinality(Above(A, i)) + 1
          BY <3>c, <3>d, FS_AddElement
        <5>3. c - k + 1 = c + 1 - k
          BY <3>a, <4>2
        <5>4. Cardinality(Above(C, i)) = c + 1 - k
          BY <3>c, <5>1, <5>2, <5>3
        <5>5. i \in C /\ v[k] = q[i]
          BY <3>5, <3>b, <4>2, <5>1
        <5> QED BY <5>4, <5>5
      <4> QED BY <3>a, <4>1, <4>2
    <3>7. Ranked(v, q, C)
      <4> SUFFICES ASSUME NEW k \in 1 .. Len(v)
                   PROVE  \E i \in C : v[k] = q[i] /\ Len(v) - k = Cardinality(Above(C, i))
        BY DEF Ranked
      <4>1. Len(v) = c + 1
        BY <3>5
      <4>2. PICK i \in C : v[k] = q[i] /\ c + 1 - k = Cardinality(Above(C, i))
        BY <3>6, <4>1
      <4> QED BY <3>a, <4>1, <4>2
    <3>8. g[n] = v /\ R(n) = C
      BY <3>1, <3>2 DEF v, C
    <3> QED BY <3>3, <3>5, <3>7, <3>8
  <2>2. CASE ~ (since = ZeroTime \/ q[n].ts >= since)
    <3>1. g[n] = g[n - 1]
      BY <1>1, <2>0, <2>2 DEF Round
    <3>2. R(n) = R(n - 1)
      BY <2>0, <2>2 DEF Picked
    <3> QED BY <1>4, <3>1, <3>2
  <2> QED BY <2>1, <2>2
<1>5. \A n \in 0 .. Len(q) : n \in T
  <2>1. 0 \in T /\ \A n \in 1 .. Len(q) : n - 1 \in T => n \in T
    BY <1>0, <1>3, <1>4
  <2> HIDE DEF T
  <2> QED BY <1>0, <2>1, SetInduction
<1> QED BY <1>0, <1>1, <1>5

(* Counting is the same after a shift.                                     *)
LEMMA ShiftCount ==
  ASSUME NEW A, A \subseteq Int, IsFiniteSet(A), NEW d \in Int
  PROVE  Cardinality({i + d : i \in A}) = Cardinality(A)
<1> DEFINE B == {i + d : i \in A}
           f == [i \in A |-> i + d]
<1>1. f \in Bijection(A, B)
  BY DEF Bijection, Injection, Surjection, IsInjective
<1>2. ExistsBijection(A, B)
  BY <1>1 DEF ExistsBijection
<1> HIDE DEF B
<1>3. Cardinality(B) = Cardinality(A)
  BY <1>2, FS_Bijection
<1> QED BY <1>3 DEF B

(* Where the points of a capped series come from.                          *)
LEMMA CappedPositions ==
  ASSUME maxHistory \in Int, NEW S, NEW a \in Seq(S)
  PROVE  LET all == Len(a)
             n   == IF maxHistory > 0 /\ maxHistory < all THEN maxHistory ELSE all
         IN  /\ all \in Nat /\ n \in 0 .. all
             /\ Capped(a) \in Seq(S) /\ Len(Capped(a)) = n
             /\ \A i \in 1 .. n : Capped(a)[i] = a[all - n + i]
<1>0. Len(a) \in Nat /\ maxHistory \in Int
  BY LenProperties
<1>1. CASE maxHistory > 0
  <2>1. maxHistory \in Nat /\ Capped(a) = LastN(a, maxHistory)
    BY <1>0, <1>1 DEF Capped
  <2>2. /\ Capped(a) \in Seq(S)
        /\ Len(Capped(a)) = IF Len(a) > maxHistory THEN maxHistory ELSE Len(a)
        /\ \A i \in 1 .. Len(Capped(a)) : Capped(a)[i] = a[Len(a) - Len(Capped(a)) + i]
    BY <2>1, LastNProperties
  <2> DEFINE c == Capped(a)
             n == IF maxHistory > 0 /\ maxHistory < Len(a) THEN maxHistory ELSE Len(a)
  <2>3. n \in 0 .. Len(a) /\ Len(c) = n
    BY <1>0, <1>1, <2>2
  <2> HIDE DEF n
  <2>4. \A i \in 1 .. n : c[i] = a[Len(a) - n + i]
    BY <2>2, <2>3
  <2> QED BY <1>0, <2>2, <2>3, <2>4 DEF n
<1>2. CASE ~ (maxHistory > 0)
  <2>1. Capped(a) = a
    BY <1>2 DEF Capped
  <2>2. \A i \in 1 .. Len(a) : Len(a) - Len(a) + i = i
    BY <1>0
  <2> QED BY <1>0, <1>2, <2>1, <2>2
<1> QED BY <1>1, <1>2

(* GetTelemetry answers with the newest arrivals, those of the window that *)
(* were asked for, each in its place.                                      *)
LEMMA AnswersAreNewest ==
  ASSUME TypeOK, KeptAreNewest
  PROVE  SeriesIsNewestArrivals
<1> SUFFICES ASSUME NEW id \in DeviceIDs
             PROVE  LET all    == Len(arrived[id])
                        n      == IF maxHistory > 0 /\ maxHistory < all THEN maxHistory ELSE all
                        kept   == all - n + 1 .. all
                        series == GetTelemetry(id, ZeroTime, 0)
                    IN  /\ Len(series) = n
                        /\ \A i \in 1 .. n : series[i] = arrived[id][all - n + i]
                        /\ \A since \in Times, limit \in 1 .. n :
                             LET recent == {i \in kept : arrived[id][i].ts >= since}
                                 out    == GetTelemetry(id, since, limit)
                             IN  /\ Len(out) = IF limit < Cardinality(recent)
                                               THEN limit ELSE Cardinality(recent)
                                 /\ \A k \in 1 .. Len(out) : \E i \in recent :
                                      /\ out[k] = arrived[id][i]
                                      /\ Len(out) - k = Cardinality({j \in recent : j > i})
  BY DEF SeriesIsNewestArrivals
<1> DEFINE a   == arrived[id]
           q   == telemetry[id]
           all == Len(a)
           n   == IF maxHistory > 0 /\ maxHistory < all THEN maxHistory ELSE all
           d   == all - n
<1>0. a \in Seq(Points) /\ q = Capped(a) /\ maxHistory \in Int
  BY StoreAssumption DEF TypeOK, StoreTypeOK, KeptAreNewest
<1>1. /\ all \in Nat /\ n \in 0 .. all
      /\ q \in Seq(Points) /\ Len(q) = n
      /\ \A i \in 1 .. n : q[i] = a[all - n + i]
  <2> HIDE DEF a, q
  <2> QED BY <1>0, CappedPositions
<1> HIDE DEF a, q, n, all
<1>2. n \in Nat /\ d \in Nat /\ n <= all
  BY <1>1
<1>3. /\ Len(GetTelemetry(id, ZeroTime, 0)) = n
      /\ \A k \in 1 .. n : GetTelemetry(id, ZeroTime, 0)[k] = a[all - n + k]
  <2> DEFINE s == NotBefore(q, ZeroTime)
  <2>1. GetTelemetry(id, ZeroTime, 0) = s
    BY DEF GetTelemetry, q
  <2>2. Picked(q, ZeroTime, n) = 1 .. n
    BY DEF Picked
  <2>3. Len(s) = Cardinality(1 .. n) /\ Ranked(s, q, 1 .. n)
    BY <1>1, <2>2, LoopPicks
  <2>4. Cardinality(1 .. n) = n
    BY <1>2, FS_Interval
  <2> HIDE DEF s
  <2>5. ASSUME NEW k \in 1 .. n PROVE s[k] = q[k]
    <3>1. PICK i \in 1 .. n : s[k] = q[i] /\ n - k = Cardinality(Above(1 .. n, i))
      BY <2>3, <2>4 DEF Ranked
    <3>2. Above(1 .. n, i) = i + 1 .. n
      BY <1>2 DEF Above
    <3>3. Cardinality(i + 1 .. n) = IF i + 1 > n THEN 0 ELSE n - (i + 1) + 1
      BY <1>2, FS_Interval
    <3>4. Cardinality(i + 1 .. n) = n - i
      BY <1>2, <3>3
    <3>5. k = i
      BY <1>2, <3>1, <3>2, <3>4
    <3> QED BY <3>1, <3>5
  <2> QED BY <1>1, <2>1, <2>3, <2>4, <2>5
<1>4. ASSUME NEW since \in Times, NEW limit \in 1 .. n
      PROVE  LET recent == {i \in all - n + 1 .. all : a[i].ts >= since}
                 out    == GetTelemetry(id, since, limit)
             IN  /\ Len(out) = IF limit < Cardinality(recent)
                               THEN limit ELSE Cardinality(recent)
                 /\ \A k \in 1 .. Len(out) : \E i \in recent :
                      /\ out[k] = a[i]
                      /\ Len(out) - k = Cardinality({j \in recent : j > i})
  <2> DEFINE R      == Picked(q, since, n)
             recent == {i \in all - n + 1 .. all : a[i].ts >= since}
             s      == NotBefore(q, since)
             out    == LastN(s, limit)
  <2>1. GetTelemetry(id, since, limit) = out
    BY <1>2 DEF GetTelemetry, q
  <2>2. s \in Seq(Points) /\ Len(s) = Cardinality(R) /\ Ranked(s, q, R)
    BY <1>1, LoopPicks
  <2>3. R \subseteq 1 .. n /\ IsFiniteSet(R) /\ R \subseteq Int
    <3>1. R \subseteq 1 .. n /\ 1 .. n \subseteq Int
      BY <1>2 DEF Picked
    <3>2. IsFiniteSet(1 .. n)
      BY <1>2, FS_Interval
    <3> HIDE DEF R
    <3> QED BY <3>1, <3>2, FS_Subset
  <2>4. since # ZeroTime
    BY StoreAssumption
  <2>5. recent = {i + d : i \in R}
    <3>1. ASSUME NEW j \in recent PROVE j \in {i + d : i \in R}
      <4>1. j - d \in 1 .. n /\ (j - d) + d = j /\ all - n + (j - d) = j
        BY <1>1, <1>2
      <4>2. q[j - d] = a[j]
        BY <1>1, <4>1
      <4>3. j - d \in R
        BY <4>1, <4>2 DEF Picked
      <4> QED BY <4>1, <4>3
    <3>2. ASSUME NEW i \in R PROVE i + d \in recent
      <4>1. i \in 1 .. n /\ i + d = all - n + i /\ i + d \in all - n + 1 .. all
        BY <1>1, <1>2, <2>3
      <4>2. q[i] = a[i + d] /\ q[i].ts >= since
        BY <1>1, <2>4, <4>1 DEF Picked
      <4> QED BY <4>1, <4>2
    <3> QED BY <3>1, <3>2
  <2>6. Cardinality(recent) = Cardinality(R)
    BY <1>2, <2>3, <2>5, ShiftCount
  <2> HIDE DEF R, s
  <2>7. /\ Len(out) = IF Len(s) > limit THEN limit ELSE Len(s)
        /\ \A k \in 1 .. Len(out) : out[k] = s[Len(s) - Len(out) + k]
        /\ Len(s) \in Nat
    <3>1. limit \in Nat /\ Len(s) \in Nat
      BY <1>2, <2>2, LenProperties
    <3> QED BY <2>2, <3>1, LastNProperties
  <2> HIDE DEF recent, out, d
  <2>8. Len(out) = IF limit < Cardinality(recent) THEN limit ELSE Cardinality(recent)
    BY <1>2, <2>2, <2>6, <2>7
  <2>9. ASSUME NEW k \in 1 .. Len(out)
        PROVE  \E i \in recent : out[k] = a[i] /\ Len(out) - k = Cardinality(Above(recent, i))
    <3> DEFINE m == Len(s) - Len(out) + k
    <3>1. m \in 1 .. Len(s) /\ Len(s) - m = Len(out) - k /\ out[k] = s[m]
      <4>1. Len(out) \in Nat /\ Len(out) <= Len(s)
        BY <1>2, <2>7
      <4>2. m \in 1 .. Len(s) /\ Len(s) - m = Len(out) - k
        BY <2>7, <4>1
      <4>3. out[k] = s[m]
        BY <2>7
      <4> QED BY <4>2, <4>3
    <3> HIDE DEF m
    <3>2. PICK i \in R : s[m] = q[i] /\ Len(s) - m = Cardinality(Above(R, i))
      BY <2>2, <3>1 DEF Ranked
    <3>3. i \in 1 .. n /\ i \in Int /\ i + d = all - n + i /\ i + d \in recent
      BY <1>1, <1>2, <2>3, <2>5 DEF d
    <3>4. out[k] = a[i + d]
      BY <1>1, <3>1, <3>2, <3>3
    <3>5. Above(recent, i + d) = {j + d : j \in Above(R, i)}
      BY <1>2, <2>3, <2>5, <3>3 DEF Above
    <3>6. Above(R, i) \subseteq Int /\ IsFiniteSet(Above(R, i))
      BY <2>3, FS_Subset DEF Above
    <3>7. Cardinality(Above(recent, i + d)) = Cardinality(Above(R, i))
      BY <1>2, <3>5, <3>6, ShiftCount
    <3> QED BY <3>1, <3>2, <3>3, <3>4, <3>7
  <2> QED BY <2>1, <2>8, <2>9 DEF recent, Above
<1> QED BY <1>3, <1>4 DEF a, n, all

(* The same for every reachable state: trimming never drops a recent point *)
(* and never brings an old one back, and since and limit select by arrival *)
(* among what is kept.                                                     *)
THEOREM GetTelemetryIsExact == Spec => []SeriesIsNewestArrivals
<1>1. Spec => [](TypeOK /\ KeptAreNewest)
  BY TypeCorrect, CapKeepsNewest, PTL
<1>2. TypeOK /\ KeptAreNewest => SeriesIsNewestArrivals
  BY AnswersAreNewest
<1> QED BY <1>1, <1>2, PTL
=============================================================================
