------------------------------ MODULE Queries ------------------------------
(***************************************************************************)
(* What a client reads of a device's telemetry while it is being added,    *)
(* trimmed and deleted: GetTelemetry of internal/store/mongo.go, the       *)
(* aggregates of internal/analytics/analytics.go and the handlers of       *)
(* internal/api/handlers.go that combine them.  They change nothing; each  *)
(* is a set of the answers it may give in a state of MongoStore, since     *)
(* equal timestamps are sorted in any order.  A Find that fails answers    *)
(* with nothing, which is left out: these are the answers of a database    *)
(* that is there.                                                          *)
(***************************************************************************)
EXTENDS MongoStore, SequencesExt

CONSTANTS
  Reading,  \* the value of the metric that a sample of some time reports
  Windows   \* bound: what clients ask for, as records of since and limit

ASSUME QueriesAssumption ==
  /\ DOMAIN Reading \subseteq Times
  /\ \A t \in DOMAIN Reading : Reading[t] \in Int
  /\ \A t \in Times : t > 0
  /\ Windows \subseteq [since : Nat, limit : Int]

ZeroTime == 0  \* no since

\* The points of S, sorted by time; ties in any order.
Sorted(S) ==
  {s \in SetToSeqs(S) :
     \A i \in 1 .. Len(s) - 1 : sample[s[i]].ts <= sample[s[i + 1]].ts}

-----------------------------------------------------------------------------
(* getTelemetry.                                                           *)

\* A negative number is no limit, as is what is no number.
parseLimit(raw) == IF raw < 0 THEN 0 ELSE raw

\* Mutant: the order of the newest points is not restored.
GetTelemetryReversed(id, since, limit) ==
  LET found == {c \in Series(id) : since = ZeroTime \/ sample[c].ts >= since}
  IN  IF limit > 0
      THEN {SubSeq(Reverse(s), 1, IF limit < Len(s) THEN limit ELSE Len(s)) : s \in Sorted(found)}
      ELSE Sorted(found)

\* With a limit the database sorts by descending time and stops there, and the
\* result is turned round again.
GetTelemetry(id, since, limit) ==
  LET found == {c \in Series(id) : since = ZeroTime \/ sample[c].ts >= since}
      newest(s) == SubSeq(Reverse(s), 1, IF limit < Len(s) THEN limit ELSE Len(s))
  IN  IF limit > 0 THEN {Reverse(newest(s)) : s \in Sorted(found)}
                   ELSE Sorted(found)

getTelemetry(id, w) == GetTelemetry(id, w.since, parseLimit(w.limit))

-----------------------------------------------------------------------------
(* getAnalytics, for one metric.                                           *)

Reports(c) == sample[c].ts \in DOMAIN Reading
Value(c)   == Reading[sample[c].ts]

\* Mutant: the extremes start at zero.
AccumulateFromZero(s, c) ==
  [count |-> s.count + 1, sum |-> s.sum + Value(c), last |-> c,
   min |-> IF Value(c) < s.min THEN Value(c) ELSE s.min,
   max |-> IF Value(c) > s.max THEN Value(c) ELSE s.max]

\* A point that reports the metric; last stands for its value.  (Avg is Sum
\* over Count.)
Accumulate(s, c) ==
  [count |-> s.count + 1, sum |-> s.sum + Value(c), last |-> c,
   min |-> IF s.count = 0 \/ Value(c) < s.min THEN Value(c) ELSE s.min,
   max |-> IF s.count = 0 \/ Value(c) > s.max THEN Value(c) ELSE s.max]

\* The loop over the points.  A metric that none of them reports has no entry,
\* or a count of 0 here.
Aggregate(points) ==
  LET stats[n \in 0 .. Len(points)] ==
        IF n = 0 THEN [count |-> 0, sum |-> 0, min |-> 0, max |-> 0]
        ELSE IF Reports(points[n]) THEN Accumulate(stats[n - 1], points[n])
        ELSE stats[n - 1]
  IN  stats[Len(points)]

\* The points that report the metric, sorted.
TimeSeries(points) == Sorted({c \in ToSet(points) : Reports(c)})

\* The statistics and the series of one answer are those of one window.
getAnalytics(id, since) ==
  UNION {{[stats |-> Aggregate(points), series |-> series] :
            series \in TimeSeries(points)} :
         points \in GetTelemetry(id, since, 0)}

-----------------------------------------------------------------------------
(* Properties.                                                             *)

\* Whatever is being added, trimmed or deleted, an answer has the newest
\* points of the window that are stored, as many as the limit allows, the
\* newest of them last.
NewestPointsLast ==
  \A id \in DeviceIDs, w \in Windows :
    LET window == {c \in Series(id) : sample[c].ts >= w.since}
    IN  \A out \in getTelemetry(id, w) :
          /\ Len(out) = IF w.limit > 0 /\ w.limit < Cardinality(window)
                        THEN w.limit ELSE Cardinality(window)
          /\ \A i, j \in 1 .. Len(out) :
               i < j => out[i] # out[j] /\ sample[out[i]].ts <= sample[out[j]].ts
          /\ \A c \in window \ ToSet(out), d \in ToSet(out) :
               sample[c].ts <= sample[d].ts

\* The two halves of an analytics answer agree: the statistics are those of
\* the values in the series, and their last value is one of its latest time,
\* in whatever order the samples were stored.
StatsMatchSeries ==
  \A id \in DeviceIDs, w \in Windows :
    \A a \in getAnalytics(id, w.since) :
      LET n      == Len(a.series)
          values == {Value(a.series[i]) : i \in 1 .. n}
      IN  /\ a.stats.count = n
          /\ n > 0 =>
               /\ sample[a.stats.last].ts = sample[a.series[n]].ts
               /\ {a.stats.min, a.stats.max} \subseteq values
               /\ \A v \in values : a.stats.min <= v /\ v <= a.stats.max
               /\ n * a.stats.min <= a.stats.sum /\ a.stats.sum <= n * a.stats.max
=============================================================================
