----------------------------- MODULE MongoStore -----------------------------
(***************************************************************************)
(* internal/store/mongo.go: devices, telemetry and alerts in MongoDB.      *)
(* Unlike the in-memory store, a method is several operations on the       *)
(* database without a transaction, and operations of concurrent calls      *)
(* interleave.  A single operation is atomic here; any of them may fail,   *)
(* since each method has a timeout.  A write that failed may have been     *)
(* executed all the same, may still be executed later, or never: what is   *)
(* outstanding is kept in lateInserts, lateDeletes and, for the deletion   *)
(* that ends a trim, in the ids of a call that has returned.               *)
(*                                                                         *)
(* Every call of AddTelemetry comes from a job of its own and is           *)
(* identified by it; so is the document it inserts.  A call carries the    *)
(* device and the timestamp of its sample.  Of a device only its existence *)
(* matters here: UpdateDevice and UpdateDeviceStatus are single operations *)
(* on an existing document.  CreateDevice and AddAlert insert and do       *)
(* nothing else, so that a late insertion of theirs is the action taken    *)
(* later.                                                                  *)
(***************************************************************************)
EXTENDS Integers, FiniteSets

CONSTANTS
  DeviceIDs,
  Times,         \* timestamps of samples
  Calls,         \* jobs: each calls AddTelemetry, and perhaps AddAlert
  MaxHistory,    \* MongoConfig.MaxHistory; <= 0 means unbounded
  CallsMayFail   \* database operations may fail

ASSUME MongoAssumption ==
  /\ Times \subseteq Int
  /\ MaxHistory \in Int
  /\ CallsMayFail \in BOOLEAN
  /\ IsFiniteSet(Calls)

VARIABLES
  devices,    \* s.devices: "none", "stored", or "deleted" (IDs are not reused)
  telemetry,  \* s.telemetry: the calls whose document is in the collection
  alerts,     \* s.alerts: likewise
  sample,     \* the device and timestamp each call carries
  add,        \* where each AddTelemetry is
  excess,     \* trimHistory's excess
  ids,        \* trimHistory's ids
  del,        \* where the DeleteDevice that removed a device is
  lateInserts, \* calls whose failed InsertOne may yet be executed
  lateDeletes, \* failed DeleteMany operations of DeleteDevice, likewise
  \* History: not in the code, read only by the properties.
  inserted,   \* points that have been in the collection
  failed,     \* since the device's last count a trim has failed, or a point
              \* was inserted behind an error
  overlapped, \* two trims of the device have overlapped
  overtaken,  \* calls that inserted a point after their device had gone
  partial     \* devices whose DeleteDevice met an error

dbVars   == <<devices, telemetry, alerts>>
addVars  == <<add, excess, ids, lateInserts, inserted, overtaken>>
trimVars == <<failed, overlapped>>
delVars  == <<del, lateDeletes, partial>>
vars     == <<dbVars, sample, addVars, trimVars, delVars>>

AddStates == {"new", "insert", "count", "find", "delete", "stored",
              "alerted", "error"}
DelStates == {"idle", "telemetry", "alerts", "done"}

Dev(c)     == sample[c].dev
Series(id) == {c \in telemetry : Dev(c) = id}

Init ==
  /\ devices = [id \in DeviceIDs |-> "none"]
  /\ telemetry = {}
  /\ alerts = {}
  /\ sample \in [Calls -> [dev : DeviceIDs, ts : Times]]
  /\ add = [c \in Calls |-> "new"]
  /\ excess = [c \in Calls |-> 0]
  /\ ids = [c \in Calls |-> {}]
  /\ del = [id \in DeviceIDs |-> "idle"]
  /\ lateInserts = {}
  /\ lateDeletes = {}
  /\ inserted = {}
  /\ failed = [id \in DeviceIDs |-> FALSE]
  /\ overlapped = [id \in DeviceIDs |-> FALSE]
  /\ overtaken = {}
  /\ partial = {}

-----------------------------------------------------------------------------
(* Devices.                                                                *)

CreateDevice(id) ==
  /\ devices[id] = "none"
  /\ devices' = [devices EXCEPT ![id] = "stored"]
  /\ UNCHANGED <<telemetry, alerts, sample, addVars, trimVars, delVars>>

\* Mutant: the device document goes after its data.
DeleteDeviceLast(id) ==
  /\ devices[id] = "stored"
  /\ \/ /\ del[id] = "idle"
        /\ del' = [del EXCEPT ![id] = "telemetry"]
        /\ UNCHANGED devices
     \/ /\ del[id] = "done"
        /\ devices' = [devices EXCEPT ![id] = "deleted"]
        /\ UNCHANGED del
  /\ UNCHANGED <<telemetry, alerts, sample, addVars, trimVars, lateDeletes, partial>>

\* DeleteDevice, first operation.  Of several calls one deletes the document
\* and goes on; the others return ErrNotFound.  A deletion that is executed
\* behind an error, then or later, is the end of it.
DeleteDevice(id) ==
  /\ devices[id] = "stored"
  /\ devices' = [devices EXCEPT ![id] = "deleted"]
  /\ \/ del' = [del EXCEPT ![id] = "telemetry"] /\ UNCHANGED partial
     \/ /\ CallsMayFail
        /\ del' = [del EXCEPT ![id] = "done"]
        /\ partial' = partial \union {id}
  /\ UNCHANGED <<telemetry, alerts, sample, addVars, trimVars, lateDeletes>>

\* A DeleteMany of DeleteDevice may fail; the error is ignored.
IgnoredError(id, collection) ==
  /\ CallsMayFail
  /\ partial' = partial \union {id}
  /\ lateDeletes' = lateDeletes \union {<<id, collection>>}
  /\ UNCHANGED <<telemetry, alerts>>

DeleteTelemetry(id) ==
  /\ del[id] = "telemetry"
  /\ del' = [del EXCEPT ![id] = "alerts"]
  /\ \/ telemetry' = telemetry \ Series(id) /\ UNCHANGED <<alerts, lateDeletes, partial>>
     \/ IgnoredError(id, "telemetry")
  /\ UNCHANGED <<devices, sample, addVars, trimVars>>

DeleteAlerts(id) ==
  /\ del[id] = "alerts"
  /\ del' = [del EXCEPT ![id] = "done"]
  /\ \/ /\ alerts' = {c \in alerts : Dev(c) # id}
        /\ UNCHANGED <<telemetry, lateDeletes, partial>>
     \/ IgnoredError(id, "alerts")
  /\ UNCHANGED <<devices, sample, addVars, trimVars>>

\* The database executes a DeleteMany that has failed.
DeleteLate(id) ==
  /\ \/ /\ <<id, "telemetry">> \in lateDeletes
        /\ lateDeletes' = lateDeletes \ {<<id, "telemetry">>}
        /\ telemetry' = telemetry \ Series(id)
        /\ UNCHANGED alerts
     \/ /\ <<id, "alerts">> \in lateDeletes
        /\ lateDeletes' = lateDeletes \ {<<id, "alerts">>}
        /\ alerts' = {c \in alerts : Dev(c) # id}
        /\ UNCHANGED telemetry
  /\ UNCHANGED <<devices, sample, addVars, trimVars, del, partial>>

-----------------------------------------------------------------------------
(* AddTelemetry: look the device up, insert the point, trim the history.   *)

Goto(c, pc) == add' = [add EXCEPT ![c] = pc]

\* trimHistory returns, and AddTelemetry returns nil.
TrimReturns(c) ==
  /\ Goto(c, "stored")
  /\ excess' = [excess EXCEPT ![c] = 0]
  /\ ids' = [ids EXCEPT ![c] = {}]

\* An unknown device and a failure both end the call with an error.
AddFind(c) ==
  /\ add[c] = "new"
  /\ \/ devices[Dev(c)] = "stored" /\ Goto(c, "insert")
     \/ (devices[Dev(c)] # "stored" \/ CallsMayFail) /\ Goto(c, "error")
  /\ UNCHANGED <<dbVars, sample, excess, ids, lateInserts, inserted, overtaken,
                 trimVars, delVars>>

\* The point of the call is put into the collection.
Insert(c) ==
  /\ telemetry' = telemetry \union {c}
  /\ inserted' = inserted \union {c}
  /\ overtaken' = IF devices[Dev(c)] = "stored" THEN overtaken
                                                ELSE overtaken \union {c}

AddInsert(c) ==
  /\ add[c] = "insert"
  /\ \/ /\ Insert(c)
        /\ Goto(c, IF MaxHistory <= 0 THEN "stored" ELSE "count")
        /\ UNCHANGED lateInserts
     \/ /\ CallsMayFail
        /\ Goto(c, "error")
        /\ lateInserts' = lateInserts \union {c}
        /\ UNCHANGED <<telemetry, inserted, overtaken>>
  /\ UNCHANGED <<devices, alerts, sample, excess, ids, trimVars, delVars>>

\* The database executes an InsertOne that has failed; no trim follows it.
InsertLate(c) ==
  /\ c \in lateInserts
  /\ lateInserts' = lateInserts \ {c}
  /\ Insert(c)
  /\ failed' = [failed EXCEPT ![Dev(c)] = TRUE]
  /\ UNCHANGED <<devices, alerts, sample, add, excess, ids, overlapped, delVars>>

\* trimHistory gives up on an error, which AddTelemetry does not see.
TrimFails(c) ==
  /\ CallsMayFail
  /\ TrimReturns(c)
  /\ failed' = [failed EXCEPT ![Dev(c)] = TRUE]
  /\ UNCHANGED <<telemetry, overlapped>>

\* Another trim of this device has counted and not yet deleted, or its deletion
\* has failed and may still be executed.
Trimming(c) ==
  \E other \in Calls \ {c} :
    Dev(other) = Dev(c) /\ (add[other] \in {"find", "delete"} \/ ids[other] # {})

\* CountDocuments.
TrimCount(c) ==
  /\ add[c] = "count"
  /\ LET count == Cardinality(Series(Dev(c)))
     IN  \/ /\ count > MaxHistory
            /\ excess' = [excess EXCEPT ![c] = count - MaxHistory]
            /\ Goto(c, "find")
            /\ failed' = [failed EXCEPT ![Dev(c)] = FALSE]
            /\ overlapped' = [overlapped EXCEPT ![Dev(c)] = @ \/ Trimming(c)]
            /\ UNCHANGED <<telemetry, ids>>
         \/ /\ count <= MaxHistory
            /\ TrimReturns(c)
            /\ failed' = [failed EXCEPT ![Dev(c)] = FALSE]
            /\ UNCHANGED <<telemetry, overlapped>>
         \/ TrimFails(c)
  /\ UNCHANGED <<devices, alerts, sample, lateInserts, inserted, overtaken, delVars>>

\* Mutant: one document too few.
OldestButOne(series, n) ==
  {old \in SUBSET series :
     /\ Cardinality(old) = n - 1
     /\ \A c \in old, d \in series \ old : sample[c].ts <= sample[d].ts}

\* Mutant: sorted the wrong way round.
OldestReversed(series, n) ==
  {old \in SUBSET series :
     /\ Cardinality(old) = IF n < Cardinality(series) THEN n ELSE Cardinality(series)
     /\ \A c \in old, d \in series \ old : sample[c].ts >= sample[d].ts}

\* The sets that n documents of the series, sorted by timestamp, may be: the
\* order of equal timestamps is not determined.
Oldest(series, n) ==
  {old \in SUBSET series :
     /\ Cardinality(old) = IF n < Cardinality(series) THEN n ELSE Cardinality(series)
     /\ \A c \in old, d \in series \ old : sample[c].ts <= sample[d].ts}

\* Find, sorted by ascending timestamp and limited to excess; nothing found
\* means nothing to delete.  A cursor that fails on the way leaves the first few
\* of them, and these are deleted.
TrimFind(c) ==
  /\ add[c] = "find"
  /\ \/ \E old \in Oldest(Series(Dev(c)), excess[c]) \ {{}} :
          /\ ids' = [ids EXCEPT ![c] = old]
          /\ Goto(c, "delete")
          /\ UNCHANGED <<telemetry, excess, failed, overlapped>>
     \/ \E n \in 1 .. excess[c] - 1 : \E old \in Oldest(Series(Dev(c)), n) \ {{}} :
          /\ CallsMayFail
          /\ ids' = [ids EXCEPT ![c] = old]
          /\ Goto(c, "delete")
          /\ failed' = [failed EXCEPT ![Dev(c)] = TRUE]
          /\ UNCHANGED <<telemetry, excess, overlapped>>
     \/ /\ {} \in Oldest(Series(Dev(c)), excess[c])
        /\ TrimReturns(c)
        /\ UNCHANGED <<telemetry, failed, overlapped>>
     \/ TrimFails(c)
  /\ UNCHANGED <<devices, alerts, sample, lateInserts, inserted, overtaken, delVars>>

\* DeleteMany of the documents found.  When it fails, and may still be executed,
\* the call returns and its ids are kept here.
TrimDelete(c) ==
  /\ add[c] = "delete"
  /\ \/ /\ telemetry' = telemetry \ ids[c]
        /\ TrimReturns(c)
        /\ UNCHANGED <<failed, overlapped>>
     \/ TrimFails(c)
     \/ /\ CallsMayFail
        /\ Goto(c, "stored")
        /\ excess' = [excess EXCEPT ![c] = 0]
        /\ failed' = [failed EXCEPT ![Dev(c)] = TRUE]
        /\ UNCHANGED <<telemetry, ids, overlapped>>
  /\ UNCHANGED <<devices, alerts, sample, lateInserts, inserted, overtaken, delVars>>

\* The database executes a DeleteMany of trimHistory that has failed.
TrimLate(c) ==
  /\ add[c] \in {"stored", "alerted"}
  /\ ids[c] # {}
  /\ telemetry' = telemetry \ ids[c]
  /\ ids' = [ids EXCEPT ![c] = {}]
  /\ UNCHANGED <<devices, alerts, sample, add, excess, lateInserts, inserted,
                 overtaken, trimVars, delVars>>

\* The job raises an alert for its sample; the device is not looked up.
AddAlert(c) ==
  /\ add[c] = "stored"
  /\ alerts' = alerts \union {c}
  /\ Goto(c, "alerted")
  /\ UNCHANGED <<devices, telemetry, sample, excess, ids, lateInserts, inserted,
                 overtaken, trimVars, delVars>>

-----------------------------------------------------------------------------
AddTelemetry(c) == \/ AddFind(c) \/ AddInsert(c)
                   \/ TrimCount(c) \/ TrimFind(c) \/ TrimDelete(c)

Next ==
  \/ \E id \in DeviceIDs : \/ CreateDevice(id) \/ DeleteDevice(id)
                           \/ DeleteTelemetry(id) \/ DeleteAlerts(id) \/ DeleteLate(id)
  \/ \E c \in Calls : AddTelemetry(c) \/ AddAlert(c) \/ InsertLate(c) \/ TrimLate(c)

Spec == Init /\ [][Next]_vars

-----------------------------------------------------------------------------
(* Properties.                                                             *)

\* Every variable has its type.
TypeOK ==
  /\ devices \in [DeviceIDs -> {"none", "stored", "deleted"}]
  /\ telemetry \in SUBSET Calls
  /\ alerts \in SUBSET Calls
  /\ sample \in [Calls -> [dev : DeviceIDs, ts : Times]]
  /\ add \in [Calls -> AddStates]
  /\ excess \in [Calls -> Nat]
  /\ ids \in [Calls -> SUBSET Calls]
  /\ del \in [DeviceIDs -> DelStates]
  /\ lateInserts \in SUBSET Calls
  /\ lateDeletes \in SUBSET (DeviceIDs \X {"telemetry", "alerts"})
  /\ inserted \in SUBSET Calls
  /\ failed \in [DeviceIDs -> BOOLEAN]
  /\ overlapped \in [DeviceIDs -> BOOLEAN]
  /\ overtaken \in SUBSET Calls
  /\ partial \in SUBSET DeviceIDs

\* The device is registered and no AddTelemetry for it is in progress.
Settled(id) ==
  /\ devices[id] = "stored"
  /\ \A c \in Calls : Dev(c) = id => add[c] \in {"new", "stored", "alerted", "error"}

\* The points the device has ever had.
Inserted(id) == {c \in inserted : Dev(c) = id}

\* However many AddTelemetry calls trim at once, the history of a device is
\* back under the cap when they are done, and what a failed trim or an insertion
\* behind an error left over is made up for by the next trim that does not fail.
CapRestored ==
  \A id \in DeviceIDs :
    (MaxHistory > 0 /\ Settled(id) /\ ~failed[id])
      => Cardinality(Series(id)) <= MaxHistory

\* The history is the newest points, as many of them as the cap allows.
NewestKept(id) ==
  LET all == Cardinality(Inserted(id))
      n   == IF MaxHistory > 0 /\ MaxHistory < all THEN MaxHistory ELSE all
  IN  /\ Cardinality(Series(id)) = n
      /\ \A c \in Series(id), d \in Inserted(id) \ Series(id) :
           sample[d].ts <= sample[c].ts

\* As long as no two trims of a device overlap, its history is the newest
\* points, in whatever order the samples arrived and whatever was inserted
\* between a count and the deletion that follows it.  A trim whose deletion has
\* failed overlaps those that count before it is executed.
LoneTrimsKeepNewest ==
  \A id \in DeviceIDs :
    (Settled(id) /\ ~failed[id] /\ ~overlapped[id]) => NewestKept(id)

\* The device document goes first, so a DeleteDevice that met no error leaves
\* no point behind but those of calls that had looked the device up before it
\* and inserted after it.
OnlyOvertakenPointsRemain ==
  \A id \in DeviceIDs :
    (del[id] = "done" /\ id \notin partial) => Series(id) \subseteq overtaken

\* The inductive invariant behind OnlyOvertakenPointsRemain: the data is only
\* deleted behind the device document, and once the series has been deleted
\* without an error only overtaken calls can add to it.
DeletionInv ==
  \A id \in DeviceIDs :
    /\ (del[id] # "idle" \/ <<id, "telemetry">> \in lateDeletes)
         => devices[id] = "deleted"
    /\ (del[id] \in {"alerts", "done"} /\ id \notin partial)
         => Series(id) \subseteq overtaken

-----------------------------------------------------------------------------
(* A statement of the code's comments that the code does not keep.         *)

\* mongo.go on trimHistory: "removes the oldest telemetry beyond the
\* configured cap".
TrimRemovesOnlyExcess ==
  \A id \in DeviceIDs :
    (Settled(id) /\ ~failed[id]) => NewestKept(id)
=============================================================================
