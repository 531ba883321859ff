---------------------------- MODULE MemoryStore ----------------------------
(***************************************************************************)
(* internal/store/store.go: the in-memory store of devices, telemetry and  *)
(* alerts.  One mutex guards every method from its first line to its       *)
(* return, so each method is one atomic step.  A method that returns       *)
(* ErrNotFound changes nothing; its operator is then not enabled and the   *)
(* caller's step tests Exists.  (Users and refresh tokens share the mutex  *)
(* but no data with these methods; they are not part of this module.)      *)
(***************************************************************************)
EXTENDS Integers, Sequences, FiniteSets

CONSTANTS
  DeviceIDs,   \* device identifiers
  Descs,       \* what UpdateDevice may write: name, type, location, metadata
  Times,       \* timestamps a sample may carry
  Tags,        \* what else tells two samples apart
  Rules,       \* alert rules, by their position in the engine's list
  Caps,        \* what NewMemoryStore may be given; <= 0 means unbounded
  NoDevice     \* the map has no entry for this ID

ZeroTime == 0
Statuses == {"unknown", "online", "offline", "degraded"}
Devices  == [status : Statuses, seen : Times \union {ZeroTime}, desc : Descs]
Points   == [ts : Times, tag : Tags]
Alerts   == [rule : Rules, tag : Tags]

ASSUME StoreAssumption ==
  /\ Caps \subseteq Int
  /\ Times \subseteq Nat \ {ZeroTime}
  /\ NoDevice \notin Devices

VARIABLES
  maxHistory, \* s.maxHistory
  devices,    \* s.devices
  telemetry,  \* s.telemetry; an absent key reads as the empty series
  alerts,     \* s.alerts; likewise
  \* History: not in the code, read only by the properties.
  arrived,    \* every point added since the device was created
  ever        \* every point and alert ever recorded, of deleted devices too

storeVars == <<maxHistory, devices, telemetry, alerts, arrived, ever>>

StoreInit ==
  /\ maxHistory \in Caps
  /\ devices = [id \in DeviceIDs |-> NoDevice]
  /\ telemetry = [id \in DeviceIDs |-> <<>>]
  /\ alerts = [id \in DeviceIDs |-> <<>>]
  /\ arrived = [id \in DeviceIDs |-> <<>>]
  /\ ever = {}

Exists(id) == devices[id] # NoDevice

\* The last n elements of a sequence (all of them if there are fewer).
LastN(s, n) == IF Len(s) > n THEN SubSeq(s, Len(s) - n + 1, Len(s)) ELSE s

-----------------------------------------------------------------------------
(* The methods that change the store.                                      *)

CreateDevice(id, d) ==
  /\ ~Exists(id)
  /\ devices' = [devices EXCEPT ![id] = d]
  /\ UNCHANGED <<maxHistory, telemetry, alerts, arrived, ever>>

UpdateDevice(id, desc) ==
  /\ Exists(id)
  /\ devices' = [devices EXCEPT ![id].desc = desc]
  /\ UNCHANGED <<maxHistory, telemetry, alerts, arrived, ever>>

\* A zero seen leaves the last-seen time as it is.
UpdateDeviceStatus(id, status, seen) ==
  /\ Exists(id)
  /\ devices' = [devices EXCEPT ![id].status = status,
                                ![id].seen = IF seen = ZeroTime THEN @ ELSE seen]
  /\ UNCHANGED <<maxHistory, telemetry, alerts, arrived, ever>>

DeleteDevice(id) ==
  /\ Exists(id)
  /\ devices' = [devices EXCEPT ![id] = NoDevice]
  /\ telemetry' = [telemetry EXCEPT ![id] = <<>>]
  /\ alerts' = [alerts EXCEPT ![id] = <<>>]
  /\ arrived' = [arrived EXCEPT ![id] = <<>>]
  /\ UNCHANGED <<maxHistory, ever>>

\* Mutant: the cap keeps the oldest points.
CappedOldest(series) ==
  IF maxHistory > 0 THEN SubSeq(series, 1, IF Len(series) > maxHistory
                                           THEN maxHistory ELSE Len(series))
                    ELSE series

\* The history cap of AddTelemetry.
Capped(series) == IF maxHistory > 0 THEN LastN(series, maxHistory) ELSE series

\* Mutant: the device is not looked up.
AddTelemetryUnchecked(id, p) ==
  /\ telemetry' = [telemetry EXCEPT ![id] = Capped(Append(@, p))]
  /\ arrived' = [arrived EXCEPT ![id] = Append(@, p)]
  /\ ever' = ever \union {p}
  /\ UNCHANGED <<maxHistory, devices, alerts>>

AddTelemetry(id, p) ==
  /\ Exists(id)
  /\ telemetry' = [telemetry EXCEPT ![id] = Capped(Append(@, p))]
  /\ arrived' = [arrived EXCEPT ![id] = Append(@, p)]
  /\ ever' = ever \union {p}
  /\ UNCHANGED <<maxHistory, devices, alerts>>

\* AddAlert does not look the device up.
AddAlert(id, a) ==
  /\ alerts' = [alerts EXCEPT ![id] = Append(@, a)]
  /\ ever' = ever \union {a}
  /\ UNCHANGED <<maxHistory, devices, telemetry, arrived>>

\* The loop of GetTelemetry: the points not before since, all of them if since
\* is zero.
NotBefore(series, since) ==
  LET out[n \in 0 .. Len(series)] ==
        IF n = 0 THEN <<>>
        ELSE IF since = ZeroTime \/ series[n].ts >= since
             THEN Append(out[n - 1], series[n])
             ELSE out[n - 1]
  IN  out[Len(series)]

\* Of these the last ones that arrived; a limit <= 0 leaves nothing out.
GetTelemetry(id, since, limit) ==
  LET out == NotBefore(telemetry[id], since)
  IN  IF limit > 0 THEN LastN(out, limit) ELSE out

-----------------------------------------------------------------------------
(* Properties.                                                             *)

\* Every variable has its type.
StoreTypeOK ==
  /\ maxHistory \in Caps
  /\ devices \in [DeviceIDs -> Devices \union {NoDevice}]
  /\ telemetry \in [DeviceIDs -> Seq(Points)]
  /\ alerts \in [DeviceIDs -> Seq(Alerts)]
  /\ arrived \in [DeviceIDs -> Seq(Points)]
  /\ ever \subseteq Points \union Alerts

\* No telemetry outlives its device: a job that was queued or under way when
\* the device was deleted leaves nothing under its ID, where nobody would
\* delete it again.
NoOrphanTelemetry ==
  \A id \in DeviceIDs : ~Exists(id) => telemetry[id] = <<>>

\* What GetTelemetry returns is exactly the last arrivals, maxHistory of them
\* at most: trimming after every append never drops a recent point and never
\* brings an old one back.  With since and limit it is the last so many of
\* those that are not before since, each with its rank among them.  The order
\* is that of arrival, which is the "newest last" of GetTelemetry's comment
\* only as long as samples arrive in the order of their timestamps.
SeriesIsNewestArrivals ==
  \A id \in DeviceIDs :
    LET all    == Len(arrived[id])
        n      == IF maxHistory > 0 /\ maxHistory < all THEN maxHistory ELSE all
        kept   == all - n + 1 .. all
        series == GetTelemetry(id, ZeroTime, 0)
    IN  /\ Len(series) = n
        /\ \A i \in 1 .. n : series[i] = arrived[id][all - n + i]
        /\ \A since \in Times, limit \in 1 .. n :
             LET recent == {i \in kept : arrived[id][i].ts >= since}
                 out    == GetTelemetry(id, since, limit)
             IN  /\ Len(out) = IF limit < Cardinality(recent)
                               THEN limit ELSE Cardinality(recent)
                 /\ \A k \in 1 .. Len(out) : \E i \in recent :
                      /\ out[k] = arrived[id][i]
                      /\ Len(out) - k = Cardinality({j \in recent : j > i})
=============================================================================
