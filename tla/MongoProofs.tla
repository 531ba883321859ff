---------------------------- MODULE MongoProofs ----------------------------
(***************************************************************************)
(* Type correctness of MongoStore; what a deletion may leave behind; that  *)
(* concurrent trims restore the history cap between them; that trims which *)
(* do not overlap delete only old points; and what clients read meanwhile  *)
(* (Queries): for every number of devices and concurrent jobs, every       *)
(* history cap, any pattern of failing database operations and any window. *)
(***************************************************************************)
EXTENDS Queries, SequenceFacts, FiniteSetTheorems, TLAPS

(* A series is finite, so that counting it gives a natural number.         *)
LEMMA SeriesCount ==
  ASSUME TypeOK, NEW id \in DeviceIDs
  PROVE  Cardinality(Series(id)) \in Nat
<1>1. Series(id) \subseteq Calls
  BY DEF TypeOK, Series
<1>2. IsFiniteSet(Series(id))
  BY <1>1, MongoAssumption, FS_Subset
<1> QED BY <1>2, FS_CardinalityType

(* Setting one of the trim flags leaves a function to the Booleans.        *)
LEMMA FlagUpdate ==
  ASSUME NEW S, NEW flag \in [S -> BOOLEAN], NEW d, NEW b \in BOOLEAN
  PROVE  [flag EXCEPT ![d] = b] \in [S -> BOOLEAN]
  OBVIOUS

(* The two flags keep their type whatever a trim does to them.             *)
LEMMA FlagStep ==
  ASSUME TypeOK, NEW c \in Calls,
         TrimCount(c) \/ TrimFind(c) \/ TrimDelete(c)
  PROVE  /\ failed' \in [DeviceIDs -> BOOLEAN]
         /\ overlapped' \in [DeviceIDs -> BOOLEAN]
<1> DEFINE mark(b) == [failed EXCEPT ![Dev(c)] = b]
           join == [overlapped EXCEPT ![Dev(c)] = @ \/ Trimming(c)]
<1>1. failed' \in {failed, mark(TRUE), mark(FALSE)}
  BY DEF TrimCount, TrimFind, TrimDelete, TrimFails
<1>2. overlapped' \in {overlapped, join}
  BY DEF TrimCount, TrimFind, TrimDelete, TrimFails
<1>3. failed \in [DeviceIDs -> BOOLEAN] /\ overlapped \in [DeviceIDs -> BOOLEAN]
  BY DEF TypeOK
<1>4. mark(TRUE) \in [DeviceIDs -> BOOLEAN] /\ mark(FALSE) \in [DeviceIDs -> BOOLEAN]
  BY <1>3, FlagUpdate
<1>5. join \in [DeviceIDs -> BOOLEAN]
  <2>1. (overlapped[Dev(c)] \/ Trimming(c)) \in BOOLEAN
    BY Zenon
  <2>2. join = [overlapped EXCEPT ![Dev(c)] = overlapped[Dev(c)] \/ Trimming(c)]
    BY Zenon
  <2> QED BY <1>3, <2>1, <2>2, FlagUpdate
<1> HIDE DEF mark, join
<1> QED BY <1>1, <1>2, <1>3, <1>4, <1>5

(* So do the local variables of the call that is trimming.                 *)
LEMMA CallStep ==
  ASSUME TypeOK, NEW c \in Calls,
         TrimCount(c) \/ TrimFind(c) \/ TrimDelete(c)
  PROVE  /\ add' \in [Calls -> AddStates]
         /\ excess' \in [Calls -> Nat]
         /\ ids' \in [Calls -> SUBSET Calls]
<1>1. \E pc \in AddStates : add' = [add EXCEPT ![c] = pc]
  <2>1. \E pc \in {"find", "delete", "stored"} : add' = [add EXCEPT ![c] = pc]
    BY DEF TrimCount, TrimFind, TrimDelete, TrimFails, TrimReturns, Goto
  <2> QED BY <2>1 DEF AddStates
<1>2. \/ UNCHANGED excess
      \/ \E n \in Nat : excess' = [excess EXCEPT ![c] = n]
  <2> DEFINE count == Cardinality(Series(Dev(c)))
  <2>1. Dev(c) \in DeviceIDs
    BY DEF TypeOK, Dev
  <2>2. count \in Nat
    BY <2>1, SeriesCount
  <2>3. count > MaxHistory => count - MaxHistory \in Nat
    BY <2>2, MongoAssumption
  <2>4. \/ UNCHANGED excess
        \/ excess' = [excess EXCEPT ![c] = 0]
        \/ count > MaxHistory /\ excess' = [excess EXCEPT ![c] = count - MaxHistory]
    BY DEF TrimCount, TrimFind, TrimDelete, TrimFails, TrimReturns
  <2> QED BY <2>3, <2>4
<1>3. \/ UNCHANGED ids
      \/ \E old \in SUBSET Calls : ids' = [ids EXCEPT ![c] = old]
  <2>1. \A n : \A old \in Oldest(Series(Dev(c)), n) : old \in SUBSET Calls
    BY DEF TypeOK, Oldest, Series
  <2>2. \/ UNCHANGED ids
        \/ ids' = [ids EXCEPT ![c] = {}]
        \/ \E n : \E old \in Oldest(Series(Dev(c)), n) :
             ids' = [ids EXCEPT ![c] = old]
    BY DEF TrimCount, TrimFind, TrimDelete, TrimFails, TrimReturns
  <2> QED BY <2>1, <2>2
<1>4. add' \in [Calls -> AddStates]
  BY <1>1 DEF TypeOK
<1>5. excess' \in [Calls -> Nat]
  BY <1>2 DEF TypeOK
<1>6. ids' \in [Calls -> SUBSET Calls]
  BY <1>3 DEF TypeOK
<1> QED BY <1>4, <1>5, <1>6

(* Every step of every call keeps the state well typed.                    *)
LEMMA TypeStep ==
  ASSUME TypeOK, [Next]_vars
  PROVE  TypeOK'
<1> USE DEF TypeOK, AddStates, DelStates
<1>1. ASSUME NEW id \in DeviceIDs, CreateDevice(id) PROVE TypeOK'
  BY <1>1 DEF CreateDevice, addVars, trimVars, delVars
<1>2. ASSUME NEW id \in DeviceIDs, DeleteDevice(id) PROVE TypeOK'
  BY <1>2 DEF DeleteDevice, addVars, trimVars
<1>3. ASSUME NEW id \in DeviceIDs, DeleteTelemetry(id) PROVE TypeOK'
  BY <1>3 DEF DeleteTelemetry, IgnoredError, addVars, trimVars
<1>4. ASSUME NEW id \in DeviceIDs, DeleteAlerts(id) PROVE TypeOK'
  BY <1>4 DEF DeleteAlerts, IgnoredError, addVars, trimVars
<1>5. ASSUME NEW c \in Calls, AddFind(c) PROVE TypeOK'
  BY <1>5 DEF AddFind, Goto, dbVars, trimVars, delVars
<1>6. ASSUME NEW c \in Calls, AddInsert(c) PROVE TypeOK'
  BY <1>6 DEF AddInsert, Insert, Goto, trimVars, delVars
<1>7. ASSUME NEW c \in Calls, TrimCount(c) PROVE TypeOK'
  <2>1. UNCHANGED <<dbVars, sample, lateInserts, inserted, overtaken, delVars>>
    BY <1>7 DEF TrimCount, TrimFails, dbVars
  <2> QED BY <1>7, <2>1, CallStep, FlagStep DEF dbVars, delVars
<1>8. ASSUME NEW c \in Calls, TrimFind(c) PROVE TypeOK'
  <2>1. UNCHANGED <<dbVars, sample, lateInserts, inserted, overtaken, delVars>>
    BY <1>8 DEF TrimFind, TrimFails, dbVars
  <2> QED BY <1>8, <2>1, CallStep, FlagStep DEF dbVars, delVars
<1>9. ASSUME NEW c \in Calls, TrimDelete(c) PROVE TypeOK'
  <2>1. UNCHANGED <<devices, alerts, sample, lateInserts, inserted, overtaken, delVars>>
    BY <1>9 DEF TrimDelete
  <2>2. telemetry' \in SUBSET Calls
    BY <1>9 DEF TrimDelete, TrimFails
  <2> QED BY <1>9, <2>1, <2>2, CallStep, FlagStep DEF delVars
<1>10. ASSUME NEW c \in Calls, AddAlert(c) PROVE TypeOK'
  BY <1>10 DEF AddAlert, Goto, trimVars, delVars
<1>11. ASSUME NEW id \in DeviceIDs, DeleteLate(id) PROVE TypeOK'
  BY <1>11 DEF DeleteLate, addVars, trimVars
<1>12. ASSUME NEW c \in Calls, InsertLate(c) PROVE TypeOK'
  <2>1. failed' \in [DeviceIDs -> BOOLEAN]
    BY <1>12, FlagUpdate DEF InsertLate
  <2> QED BY <1>12, <2>1 DEF InsertLate, Insert, delVars
<1>13. ASSUME NEW c \in Calls, TrimLate(c) PROVE TypeOK'
  BY <1>13 DEF TrimLate, trimVars, delVars
<1>14. CASE UNCHANGED vars
  BY <1>14 DEF vars, dbVars, addVars, trimVars, delVars
<1> QED
  BY <1>1, <1>2, <1>3, <1>4, <1>5, <1>6, <1>7, <1>8, <1>9, <1>10, <1>11, <1>12,
     <1>13, <1>14
  DEF Next, AddTelemetry

\* The collections and the state of every call of the MongoDB store have their
\* types; a trim never computes a negative excess.
THEOREM TypeCorrect == Spec => []TypeOK
<1>1. Init => TypeOK
  BY DEF Init, TypeOK, AddStates, DelStates
<1>2. TypeOK /\ [Next]_vars => TypeOK'
  BY TypeStep
<1> QED BY <1>1, <1>2, PTL DEF Spec

-----------------------------------------------------------------------------
(* Every step keeps what is known of a deletion under way.                 *)
LEMMA DeletionStep ==
  ASSUME TypeOK, DeletionInv, [Next]_vars
  PROVE  DeletionInv'
<1> USE DEF TypeOK, DelStates
<1>1. ASSUME NEW id \in DeviceIDs, CreateDevice(id) PROVE DeletionInv'
  BY <1>1 DEF CreateDevice, DeletionInv, Series, Dev, addVars, trimVars, delVars
<1>2. ASSUME NEW id \in DeviceIDs, DeleteDevice(id) PROVE DeletionInv'
  BY <1>2 DEF DeleteDevice, DeletionInv, Series, Dev, addVars, trimVars
<1>3. ASSUME NEW id \in DeviceIDs, DeleteTelemetry(id) PROVE DeletionInv'
  <2>1. \A i \in DeviceIDs : <<i, "telemetry">> \in lateDeletes'
                             => <<i, "telemetry">> \in lateDeletes \/ i = id
    BY <1>3 DEF DeleteTelemetry, IgnoredError
  <2>2. UNCHANGED devices /\ devices[id] = "deleted"
    BY <1>3 DEF DeleteTelemetry, DeletionInv
  <2>3. \A i \in DeviceIDs : (del'[i] # "idle" \/ <<i, "telemetry">> \in lateDeletes')
                             => devices'[i] = "deleted"
    BY <1>3, <2>1, <2>2 DEF DeleteTelemetry, DeletionInv
  <2>4. \A i \in DeviceIDs : (del'[i] \in {"alerts", "done"} /\ i \notin partial')
                             => Series(i)' \subseteq overtaken'
    BY <1>3 DEF DeleteTelemetry, IgnoredError, DeletionInv, Series, Dev, addVars
  <2> QED BY <2>3, <2>4 DEF DeletionInv
<1>4. ASSUME NEW id \in DeviceIDs, DeleteAlerts(id) PROVE DeletionInv'
  <2>1. \A i \in DeviceIDs : <<i, "telemetry">> \in lateDeletes'
                             => <<i, "telemetry">> \in lateDeletes \/ i = id
    BY <1>4 DEF DeleteAlerts, IgnoredError
  <2>2. UNCHANGED devices /\ devices[id] = "deleted"
    BY <1>4 DEF DeleteAlerts, DeletionInv
  <2>3. \A i \in DeviceIDs : (del'[i] # "idle" \/ <<i, "telemetry">> \in lateDeletes')
                             => devices'[i] = "deleted"
    BY <1>4, <2>1, <2>2 DEF DeleteAlerts, DeletionInv
  <2>4. \A i \in DeviceIDs : (del'[i] \in {"alerts", "done"} /\ i \notin partial')
                             => Series(i)' \subseteq overtaken'
    BY <1>4 DEF DeleteAlerts, IgnoredError, DeletionInv, Series, Dev, addVars
  <2> QED BY <2>3, <2>4 DEF DeletionInv
\* A point inserted for a device whose deletion is under way is overtaken.
<1>5. ASSUME NEW c \in Calls, AddInsert(c) \/ InsertLate(c) PROVE DeletionInv'
  <2>1. UNCHANGED <<devices, sample, del, lateDeletes, partial>>
    BY <1>5 DEF AddInsert, InsertLate, delVars
  <2>2. Insert(c) \/ UNCHANGED <<telemetry, overtaken>>
    BY <1>5 DEF AddInsert, InsertLate
  <2> QED BY <2>1, <2>2 DEF Insert, DeletionInv, Series, Dev
\* No other operation adds a point.
<1>6. ASSUME telemetry' \subseteq telemetry,
             UNCHANGED <<devices, sample, overtaken, del, partial>>,
             lateDeletes' \subseteq lateDeletes
      PROVE  DeletionInv'
  BY <1>6 DEF DeletionInv, Series, Dev
<1>7. ASSUME NEW c \in Calls, AddFind(c) PROVE DeletionInv'
  BY <1>6, <1>7 DEF AddFind, dbVars, delVars
<1>8. ASSUME NEW c \in Calls, TrimCount(c) PROVE DeletionInv'
  BY <1>6, <1>8 DEF TrimCount, TrimFails, delVars
<1>9. ASSUME NEW c \in Calls, TrimFind(c) PROVE DeletionInv'
  BY <1>6, <1>9 DEF TrimFind, TrimFails, delVars
<1>10. ASSUME NEW c \in Calls, TrimDelete(c) PROVE DeletionInv'
  BY <1>6, <1>10 DEF TrimDelete, TrimFails, delVars
<1>11. ASSUME NEW c \in Calls, AddAlert(c) PROVE DeletionInv'
  BY <1>6, <1>11 DEF AddAlert, delVars
<1>12. ASSUME NEW c \in Calls, TrimLate(c) PROVE DeletionInv'
  BY <1>6, <1>12 DEF TrimLate, delVars
<1>13. ASSUME NEW id \in DeviceIDs, DeleteLate(id) PROVE DeletionInv'
  BY <1>6, <1>13 DEF DeleteLate, addVars
<1>14. CASE UNCHANGED vars
  BY <1>6, <1>14 DEF vars, dbVars, addVars, delVars
<1> QED
  BY <1>1, <1>2, <1>3, <1>4, <1>5, <1>7, <1>8, <1>9, <1>10, <1>11, <1>12, <1>13,
     <1>14
  DEF Next, AddTelemetry

(* The deletion's invariant holds throughout.                              *)
LEMMA DeletionInvariant == Spec => []DeletionInv
<1>1. Init => DeletionInv
  BY DEF Init, DeletionInv
<1>2. TypeOK /\ DeletionInv /\ [Next]_vars => DeletionInv'
  BY DeletionStep
<1> QED BY <1>1, <1>2, TypeCorrect, PTL DEF Spec

\* When a DeleteDevice of the MongoDB store has returned without an ignored
\* error, the only points left of the device are those of calls that looked it
\* up before its document was deleted and inserted afterwards.
THEOREM DeletionLeavesOnlyOvertaken == Spec => []OnlyOvertakenPointsRemain
<1>1. DeletionInv => OnlyOvertakenPointsRemain
  BY DEF DeletionInv, OnlyOvertakenPointsRemain
<1> QED BY <1>1, DeletionInvariant, PTL

-----------------------------------------------------------------------------
(* The cap.                                                                *)

\* The call will count the series again, or has a plan that brings it back
\* under the cap.
Pays(c) ==
  \/ add[c] = "count"
  \/ add[c] = "find" /\ Cardinality(Series(Dev(c))) <= MaxHistory + excess[c]
  \/ add[c] = "delete" /\ Cardinality(Series(Dev(c)) \ ids[c]) <= MaxHistory

\* Unless something has failed since the last count, a series over its cap has
\* a call that pays: the last one to count, which has seen every insertion.
CapInv ==
  MaxHistory > 0 =>
    \A id \in DeviceIDs : ~failed[id] =>
      \/ Cardinality(Series(id)) <= MaxHistory
      \/ \E c \in Calls : Dev(c) = id /\ Pays(c)

(* Counting subsets of the calls.                                          *)
LEMMA Counting ==
  ASSUME NEW S, S \subseteq Calls, NEW T, T \subseteq S
  PROVE  /\ IsFiniteSet(S)
         /\ Cardinality(S) \in Nat /\ Cardinality(T) \in Nat
         /\ Cardinality(T) <= Cardinality(S)
         /\ Cardinality(S) = Cardinality(T) => S = T
         /\ Cardinality(S \ T) = Cardinality(S) - Cardinality(T)
<1>1. IsFiniteSet(S)
  BY MongoAssumption, FS_Subset
<1>2. /\ IsFiniteSet(T)
      /\ Cardinality(T) <= Cardinality(S)
      /\ Cardinality(S) = Cardinality(T) => S = T
  BY <1>1, FS_Subset
<1>3. Cardinality(S \ T) = Cardinality(S) - Cardinality(S \cap T)
  BY <1>1, FS_Difference
<1>4. S \cap T = T
  OBVIOUS
<1> QED BY <1>1, <1>2, <1>3, <1>4, FS_CardinalityType

(* What a find sorted by timestamp and limited to n returns.               *)
LEMMA OldestFacts ==
  ASSUME TypeOK, NEW series, series \subseteq Calls, NEW n \in Nat,
         NEW old \in Oldest(series, n)
  PROVE  /\ old \subseteq series
         /\ Cardinality(old) <= n
         /\ n < Cardinality(series) => Cardinality(old) = n
         /\ n >= Cardinality(series) => old = series
         /\ \A c \in old, d \in series \ old : sample[c].ts <= sample[d].ts
<1>1. /\ old \subseteq series
      /\ Cardinality(old) = IF n < Cardinality(series) THEN n ELSE Cardinality(series)
      /\ \A c \in old, d \in series \ old : sample[c].ts <= sample[d].ts
  BY DEF Oldest
<1>2. /\ Cardinality(series) \in Nat
      /\ Cardinality(series) = Cardinality(old) => series = old
  BY <1>1, Counting
<1> QED BY <1>1, <1>2

(* A plan stays good while the series shrinks.                             *)
LEMMA PaysStays ==
  ASSUME TypeOK, TypeOK', NEW c \in Calls, Pays(c), sample' = sample,
         Series(Dev(c))' \subseteq Series(Dev(c)),
         add'[c] = add[c], excess'[c] = excess[c], ids'[c] = ids[c]
  PROVE  Pays(c)'
<1> DEFINE S == Series(Dev(c))
           T == Series(Dev(c))'
<1>1. S \subseteq Calls /\ T \subseteq S /\ T \ ids[c] \subseteq S \ ids[c]
      /\ S \ ids[c] \subseteq Calls
  BY DEF TypeOK, Series
<1>2. /\ Cardinality(S) \in Nat /\ Cardinality(T) \in Nat
      /\ Cardinality(T) <= Cardinality(S)
  BY <1>1, Counting
<1>3. /\ Cardinality(S \ ids[c]) \in Nat /\ Cardinality(T \ ids[c]) \in Nat
      /\ Cardinality(T \ ids[c]) <= Cardinality(S \ ids[c])
  BY <1>1, Counting
<1>4. excess[c] \in Nat /\ MaxHistory \in Int
  BY MongoAssumption DEF TypeOK
<1> HIDE DEF S, T
<1>5. \/ add[c] = "count"
      \/ add[c] = "find" /\ Cardinality(S) <= MaxHistory + excess[c]
      \/ add[c] = "delete" /\ Cardinality(S \ ids[c]) <= MaxHistory
  BY DEF Pays, S
<1>6. \/ add'[c] = "count"
      \/ add'[c] = "find" /\ Cardinality(T) <= MaxHistory + excess'[c]
      \/ add'[c] = "delete" /\ Cardinality(T \ ids'[c]) <= MaxHistory
  BY <1>2, <1>3, <1>4, <1>5
<1>7. Dev(c)' = Dev(c)
  BY DEF Dev
<1> QED BY <1>6, <1>7 DEF Pays, T

(* Each operation leaves a series at its cap, or a call that pays.         *)
LEMMA CapStep ==
  ASSUME TypeOK, TypeOK', CapInv, [Next]_vars
  PROVE  CapInv'
<1> SUFFICES ASSUME MaxHistory > 0, NEW id \in DeviceIDs, ~failed'[id]
             PROVE  \/ Cardinality(Series(id)') <= MaxHistory
                    \/ \E c \in Calls : Dev(c)' = id /\ Pays(c)'
  BY DEF CapInv
<1> DEFINE Goal == \/ Cardinality(Series(id)') <= MaxHistory
                   \/ \E c \in Calls : Dev(c)' = id /\ Pays(c)'
           S == Series(id)
<1>1. S \subseteq Calls /\ Cardinality(S) \in Nat /\ MaxHistory \in Nat
  BY SeriesCount, MongoAssumption DEF TypeOK, Series
<1>2. ~failed[id] => \/ Cardinality(S) <= MaxHistory
                     \/ \E c \in Calls : Dev(c) = id /\ Pays(c)
  BY DEF CapInv
\* Whatever does not touch the paying call and adds nothing leaves it paying.
<1>3. ASSUME sample' = sample, S' \subseteq S,
             \/ Cardinality(S) <= MaxHistory
             \/ \E c \in Calls : /\ Dev(c) = id /\ Pays(c)
                                 /\ add'[c] = add[c] /\ excess'[c] = excess[c]
                                 /\ ids'[c] = ids[c]
      PROVE  Goal
  <2>1. CASE Cardinality(S) <= MaxHistory
    <3>1. Cardinality(S') <= Cardinality(S) /\ Cardinality(S') \in Nat
      BY <1>1, <1>3, Counting
    <3> QED BY <1>1, <2>1, <3>1
  <2>2. ASSUME NEW c \in Calls, Dev(c) = id, Pays(c), add'[c] = add[c],
               excess'[c] = excess[c], ids'[c] = ids[c]
        PROVE  Goal
    <3>1. Series(Dev(c))' \subseteq Series(Dev(c))
      BY <1>3, <2>2 DEF Series, Dev
    <3>2. Pays(c)'
      BY <1>3, <2>2, <3>1, PaysStays
    <3>3. Dev(c)' = id
      BY <1>3, <2>2 DEF Dev
    <3> QED BY <3>2, <3>3
  <2> QED BY <1>3, <2>1, <2>2
<1>4. ASSUME NEW c \in Calls, AddInsert(c) PROVE Goal
  <2>1. /\ UNCHANGED <<sample, excess, ids, failed>> /\ add[c] = "insert"
        /\ Dev(c)' = Dev(c) /\ Dev(c) \in DeviceIDs
        /\ \A d \in Calls : d # c => add'[d] = add[d]
    BY <1>4 DEF AddInsert, Goto, TypeOK, trimVars, Dev
  <2>2. CASE add'[c] = "count" /\ Dev(c) = id
    BY <2>1, <2>2 DEF Pays
  <2>3. CASE ~(add'[c] = "count" /\ Dev(c) = id)
    <3>1. S' = S
      BY <1>1, <1>4, <2>1, <2>3 DEF AddInsert, Insert, Goto, TypeOK, Series, Dev
    <3>2. ~Pays(c)
      BY <2>1 DEF Pays
    <3> QED BY <1>2, <1>3, <2>1, <3>1, <3>2
  <2> QED BY <2>2, <2>3
<1>5. ASSUME NEW c \in Calls, TrimCount(c) \/ TrimFind(c) \/ TrimDelete(c),
             Dev(c) # id
      PROVE  Goal
  <2>1. /\ UNCHANGED sample /\ S' \subseteq S
        /\ failed'[id] = failed[id]
        /\ \A d \in Calls : d # c => /\ add'[d] = add[d] /\ ids'[d] = ids[d]
                                     /\ excess'[d] = excess[d]
    <3>1. S' \subseteq S /\ UNCHANGED sample
      BY <1>5 DEF TrimCount, TrimFind, TrimDelete, TrimFails, Series, Dev
    <3>2. failed'[id] = failed[id]
      BY <1>5 DEF TrimCount, TrimFind, TrimDelete, TrimFails, TypeOK
    <3>3. \A d \in Calls : d # c => /\ add'[d] = add[d] /\ ids'[d] = ids[d]
                                    /\ excess'[d] = excess[d]
      BY <1>5 DEF TrimCount, TrimFind, TrimDelete, TrimFails, TrimReturns, Goto,
                  TypeOK
    <3> QED BY <3>1, <3>2, <3>3
  <2> QED BY <1>2, <1>3, <1>5, <2>1
<1>6. ASSUME NEW c \in Calls, TrimCount(c), Dev(c) = id PROVE Goal
  <2>1. UNCHANGED <<telemetry, sample>> /\ S' = S /\ Dev(c)' = id
    BY <1>6 DEF TrimCount, TrimFails, Series, Dev
  <2>2. ~TrimFails(c)
    BY <1>6 DEF TrimFails, TypeOK
  <2>3. CASE Cardinality(S) <= MaxHistory
    BY <2>1, <2>3
  <2>4. CASE Cardinality(S) > MaxHistory
    <3>1. /\ add'[c] = "find"
          /\ excess'[c] = Cardinality(S) - MaxHistory
      BY <1>1, <1>6, <2>2, <2>4 DEF TrimCount, Goto, TypeOK
    <3>2. Cardinality(S) <= MaxHistory + (Cardinality(S) - MaxHistory)
      BY <1>1
    <3>3. Pays(c)'
      BY <2>1, <3>1, <3>2 DEF Pays
    <3> QED BY <2>1, <3>3
  <2> QED BY <1>1, <2>3, <2>4
<1>7. ASSUME NEW c \in Calls, TrimFind(c), Dev(c) = id PROVE Goal
  <2>1. ~TrimFails(c) /\ failed' # [failed EXCEPT ![Dev(c)] = TRUE]
    BY <1>7 DEF TrimFails, TypeOK
  <2>2. /\ UNCHANGED <<telemetry, sample, failed>> /\ S' = S /\ Dev(c)' = id
        /\ \A d \in Calls : d # c => /\ add'[d] = add[d] /\ ids'[d] = ids[d]
                                     /\ excess'[d] = excess[d]
    <3>1. UNCHANGED <<telemetry, sample, failed>>
      BY <1>7, <2>1 DEF TrimFind, TypeOK
    <3>2. S' = S /\ Dev(c)' = id
      BY <1>7, <3>1 DEF Series, Dev
    <3>3. \A d \in Calls : d # c => add'[d] = add[d]
      BY <1>7, <2>1 DEF TrimFind, TrimReturns, Goto, TypeOK
    <3>4. \A d \in Calls : d # c => ids'[d] = ids[d] /\ excess'[d] = excess[d]
      BY <1>7, <2>1 DEF TrimFind, TrimReturns, TypeOK
    <3> QED BY <3>1, <3>2, <3>3, <3>4
  <2>3. CASE Cardinality(S) <= MaxHistory
    BY <2>2, <2>3
  <2>4. CASE \E d \in Calls : d # c /\ Dev(d) = id /\ Pays(d)
    BY <1>3, <2>2, <2>4
  <2>5. CASE Pays(c)
    <3>1. /\ add[c] = "find" /\ excess[c] \in Nat
          /\ Cardinality(S) <= MaxHistory + excess[c]
      BY <1>7, <2>5 DEF TrimFind, Pays, TypeOK
    <3>2. ASSUME NEW old \in Oldest(S, excess[c])
          PROVE  /\ old \subseteq S
                 /\ Cardinality(S \ old) <= MaxHistory
      <4>1. /\ old \subseteq S
            /\ excess[c] < Cardinality(S) => Cardinality(old) = excess[c]
            /\ excess[c] >= Cardinality(S) => old = S
        BY <1>1, <3>1, OldestFacts
      <4>2. /\ Cardinality(S \ old) = Cardinality(S) - Cardinality(old)
            /\ Cardinality(old) \in Nat
        BY <1>1, <4>1, Counting
      <4> QED BY <1>1, <3>1, <4>1, <4>2
    <3>3. CASE \E old \in Oldest(S, excess[c]) :
                 ids' = [ids EXCEPT ![c] = old] /\ add'[c] = "delete"
      <4>1. add'[c] = "delete" /\ Cardinality(S \ ids'[c]) <= MaxHistory
        BY <3>2, <3>3 DEF TypeOK
      <4>2. Pays(c)'
        BY <2>2, <4>1 DEF Pays
      <4> QED BY <2>2, <4>2
    <3>4. CASE {} \in Oldest(S, excess[c])
      <4>1. S \ {} = S
        OBVIOUS
      <4> QED BY <2>2, <3>2, <3>4, <4>1
    <3> QED BY <1>7, <2>1, <3>3, <3>4 DEF TrimFind, Goto, TypeOK
  <2> QED BY <1>2, <2>2, <2>3, <2>4, <2>5
<1>8. ASSUME NEW c \in Calls, TrimDelete(c), Dev(c) = id PROVE Goal
  <2>1. ~TrimFails(c) /\ failed' # [failed EXCEPT ![Dev(c)] = TRUE]
    BY <1>8 DEF TrimFails, TypeOK
  <2>2. /\ UNCHANGED <<sample, failed>> /\ S' = S \ ids[c]
        /\ \A d \in Calls : d # c => /\ add'[d] = add[d] /\ ids'[d] = ids[d]
                                     /\ excess'[d] = excess[d]
    BY <1>8, <2>1 DEF TrimDelete, TrimReturns, Goto, TypeOK, Series, Dev
  <2>3. CASE Cardinality(S) <= MaxHistory \/ \E d \in Calls : d # c /\ Dev(d) = id /\ Pays(d)
    BY <1>3, <2>2, <2>3
  <2>4. CASE Pays(c)
    BY <1>8, <2>2, <2>4 DEF TrimDelete, Pays
  <2> QED BY <1>2, <2>2, <2>3, <2>4
<1>9. ASSUME NEW c \in Calls, AddFind(c) \/ AddAlert(c) PROVE Goal
  <2>1. /\ UNCHANGED <<telemetry, sample, excess, ids, failed>>
        /\ add[c] \in {"new", "stored"}
        /\ \A d \in Calls : d # c => add'[d] = add[d]
    BY <1>9 DEF AddFind, AddAlert, Goto, TypeOK, dbVars, trimVars
  <2>2. S' = S /\ ~Pays(c)
    BY <2>1 DEF Series, Dev, Pays
  <2> QED BY <1>2, <1>3, <2>1, <2>2
<1>10. ASSUME UNCHANGED <<sample, add, excess, ids, failed>>, S' \subseteq S
       PROVE  Goal
  BY <1>2, <1>3, <1>10
<1>11. ASSUME NEW i \in DeviceIDs, CreateDevice(i) \/ DeleteDevice(i)
                                     \/ DeleteTelemetry(i) \/ DeleteAlerts(i)
                                     \/ DeleteLate(i)
       PROVE  Goal
  <2>1. UNCHANGED <<sample, add, excess, ids, failed>> /\ telemetry' \subseteq telemetry
    BY <1>11 DEF CreateDevice, DeleteDevice, DeleteTelemetry, DeleteAlerts,
                 DeleteLate, IgnoredError, addVars, trimVars
  <2> QED BY <1>10, <2>1 DEF Series, Dev
<1>12. ASSUME UNCHANGED vars PROVE Goal
  BY <1>10, <1>12 DEF vars, dbVars, addVars, trimVars, Series, Dev
\* A point of this device that is inserted behind an error is a failure.
<1>13. ASSUME NEW c \in Calls, InsertLate(c) PROVE Goal
  <2>1. /\ UNCHANGED <<sample, add, excess, ids>>
        /\ failed' = [failed EXCEPT ![Dev(c)] = TRUE]
        /\ telemetry' = telemetry \union {c}
    BY <1>13 DEF InsertLate, Insert
  <2>2. Dev(c) # id /\ failed'[id] = failed[id]
    BY <2>1 DEF TypeOK
  <2>3. S' = S
    BY <2>1, <2>2 DEF Series, Dev
  <2> QED BY <1>2, <1>3, <2>1, <2>2, <2>3
\* A deletion executed late is that of a call which no longer pays.
<1>14. ASSUME NEW c \in Calls, TrimLate(c) PROVE Goal
  <2>1. /\ UNCHANGED <<sample, add, excess, failed>>
        /\ telemetry' \subseteq telemetry
        /\ add[c] \in {"stored", "alerted"}
        /\ \A d \in Calls : d # c => ids'[d] = ids[d]
    BY <1>14 DEF TrimLate, TypeOK, trimVars
  <2>2. S' \subseteq S /\ ~Pays(c)
    BY <2>1 DEF Series, Dev, Pays
  <2> QED BY <1>2, <1>3, <2>1, <2>2
<1> HIDE DEF Goal
<1>15. Goal
  BY <1>4, <1>5, <1>6, <1>7, <1>8, <1>9, <1>11, <1>12, <1>13, <1>14
  DEF Next, AddTelemetry
<1> QED BY <1>15 DEF Goal

\* However many AddTelemetry calls for a device trim at once, and whatever of
\* that failed before, once they are done without a failure since the last
\* count the device's history is under the cap: for every cap and any number
\* of calls, also when operations that failed are executed all the same, at once
\* or later.
THEOREM CapHolds == Spec => []CapRestored
<1>1. Init => CapInv
  <2> SUFFICES ASSUME Init, MaxHistory > 0, NEW id \in DeviceIDs
               PROVE  Cardinality(Series(id)) <= MaxHistory
    BY DEF CapInv
  <2>1. Series(id) = {}
    BY DEF Init, Series
  <2> QED BY <2>1, FS_EmptySet, MongoAssumption
<1>2. TypeOK /\ TypeOK' /\ CapInv /\ [Next]_vars => CapInv'
  BY CapStep
<1>3. CapInv => CapRestored
  BY DEF CapInv, CapRestored, Settled, Pays
<1> QED BY <1>1, <1>2, <1>3, TypeCorrect, PTL DEF Spec

-----------------------------------------------------------------------------
(* The newest points.                                                      *)

\* The call's trim has counted and not yet deleted, or its deletion may still be
\* executed.
Planning(c) == add[c] = "find" \/ ids[c] # {}

\* The points of a series that are at least as new as d.
AsNew(series, d) == {c \in series : sample[d].ts <= sample[c].ts}

\* Only inserted points are stored, a trim finds points of its own device, and
\* without a cap nothing is trimmed.
PointsAreAdded ==
  /\ telemetry \subseteq inserted
  /\ \A c \in Calls : \A d \in ids[c] : Dev(d) = Dev(c)
  /\ MaxHistory <= 0 =>
       \A c \in Calls : add[c] \notin {"count", "find", "delete"} /\ ids[c] = {}

\* No two trims of the device are under way.
LoneTrim(id) ==
  \A c, d \in Calls :
    (Dev(c) = id /\ Dev(d) = id /\ Planning(c) /\ Planning(d)) => c = d

\* A point that has been deleted has as many points at least as new as itself
\* left as the cap allows.
DeletedAreOld(id) ==
  \A d \in Inserted(id) \ Series(id) :
    MaxHistory > 0 /\ Cardinality(AsNew(Series(id), d)) >= MaxHistory

\* So it will be with the points that a trim is about to delete.
PlanDeletesOld(c) ==
  /\ add[c] = "find" => Cardinality(Series(Dev(c))) >= MaxHistory + excess[c]
  /\ ids[c] \subseteq Series(Dev(c))
  /\ \A d \in ids[c] :
       Cardinality(AsNew(Series(Dev(c)) \ ids[c], d)) >= MaxHistory

\* The invariant behind LoneTrimsKeepNewest.
NewestInv ==
  /\ PointsAreAdded
  /\ \A id \in DeviceIDs : (devices[id] # "deleted" /\ ~overlapped[id]) =>
       /\ LoneTrim(id)
       /\ DeletedAreOld(id)
       /\ \A c \in Calls : Dev(c) = id => PlanDeletesOld(c)

(* A point that is stored has been inserted, points are trimmed only with   *)
(* a cap, and only by calls for the same device.                           *)
LEMMA AddedStep ==
  ASSUME TypeOK, PointsAreAdded, [Next]_vars
  PROVE  PointsAreAdded'
<1> USE DEF PointsAreAdded, TypeOK
<1>1. ASSUME NEW c \in Calls, AddInsert(c) PROVE PointsAreAdded'
  <2>1. /\ telemetry' \subseteq inserted'
        /\ UNCHANGED <<ids, sample>>
    BY <1>1 DEF AddInsert, Insert
  <2>2. /\ \A d \in Calls \ {c} : add'[d] = add[d]
        /\ MaxHistory <= 0 => add'[c] \in {"stored", "error"}
    BY <1>1 DEF AddInsert, Goto
  <2> QED BY <2>1, <2>2 DEF Dev
<1>2. ASSUME telemetry' \subseteq telemetry, UNCHANGED <<sample, inserted>>,
             NEW c \in Calls,
             \A d \in Calls : d # c => ids'[d] = ids[d] /\ add'[d] = add[d],
             \A d \in ids'[c] : Dev(d) = Dev(c),
             MaxHistory <= 0 => /\ add'[c] \notin {"count", "find", "delete"}
                                /\ ids'[c] = {}
      PROVE  PointsAreAdded'
  BY <1>2 DEF Dev
<1>3. ASSUME NEW c \in Calls, TrimCount(c) \/ TrimFind(c) \/ TrimDelete(c)
      PROVE  PointsAreAdded'
  <2>1. telemetry' \subseteq telemetry /\ UNCHANGED <<sample, inserted>>
    BY <1>3 DEF TrimCount, TrimFind, TrimDelete, TrimFails
  <2>2. add[c] \in {"count", "find", "delete"}
    BY <1>3 DEF TrimCount, TrimFind, TrimDelete
  <2>3. \E pc : add' = [add EXCEPT ![c] = pc]
    BY <1>3 DEF TrimCount, TrimFind, TrimDelete, TrimFails, TrimReturns, Goto
  <2>4. \/ UNCHANGED ids
        \/ ids' = [ids EXCEPT ![c] = {}]
        \/ \E n : \E old \in Oldest(Series(Dev(c)), n) :
             ids' = [ids EXCEPT ![c] = old]
    BY <1>3 DEF TrimCount, TrimFind, TrimDelete, TrimFails, TrimReturns
  <2>5. \A n : \A old \in Oldest(Series(Dev(c)), n) : \A d \in old : Dev(d) = Dev(c)
    BY DEF Oldest, Series
  <2>6. /\ \A d \in Calls : d # c => ids'[d] = ids[d]
        /\ \A d \in ids'[c] : Dev(d) = Dev(c)
    BY <2>4, <2>5
  <2>7. \A d \in Calls : d # c => add'[d] = add[d]
    BY <2>3
  <2> QED BY <1>2, <2>1, <2>2, <2>6, <2>7
<1>4. ASSUME NEW c \in Calls, AddAlert(c) \/ AddFind(c) PROVE PointsAreAdded'
  BY <1>2, <1>4 DEF AddAlert, AddFind, Goto, dbVars
<1>5. ASSUME NEW c \in Calls, TrimLate(c) PROVE PointsAreAdded'
  BY <1>2, <1>5 DEF TrimLate
<1>6. ASSUME NEW c \in Calls, InsertLate(c) PROVE PointsAreAdded'
  BY <1>6 DEF InsertLate, Insert, Dev
<1>7. CASE telemetry' \subseteq telemetry /\ UNCHANGED <<add, ids, sample, inserted>>
  BY <1>7 DEF Dev
<1> QED
  BY <1>1, <1>3, <1>4, <1>5, <1>6, <1>7
  DEF Next, AddTelemetry, CreateDevice, DeleteDevice, DeleteTelemetry,
      DeleteAlerts, DeleteLate, IgnoredError, vars, dbVars, addVars

(* What the invariant says of one device.                                  *)
TrimsAreSound(id) ==
  /\ LoneTrim(id)
  /\ DeletedAreOld(id)
  /\ \A c \in Calls : Dev(c) = id => PlanDeletesOld(c)

(* New points do no harm: deleted points and plans stay as good as they    *)
(* were, whatever other device or call is touched.                         *)
LEMMA GrowthIsHarmless ==
  ASSUME TypeOK, TypeOK', NEW id \in DeviceIDs, TrimsAreSound(id),
         sample' = sample,
         Series(id) \subseteq Series(id)',
         Inserted(id)' \ Series(id)' \subseteq Inserted(id) \ Series(id),
         \A c \in Calls : Dev(c) = id =>
           /\ add'[c] = "find" => add[c] = "find" /\ excess'[c] = excess[c]
           /\ ids'[c] \in {ids[c], {}}
  PROVE  TrimsAreSound(id)'
<1> DEFINE S == Series(id)
           T == Series(id)'
<1>1. /\ S \subseteq T /\ T \subseteq Calls
      /\ \A c : Dev(c)' = Dev(c)
  BY DEF TypeOK, Series, Dev
<1>2. MaxHistory \in Int /\ Cardinality(S) \in Nat /\ Cardinality(T) \in Nat
      /\ Cardinality(S) <= Cardinality(T)
  BY <1>1, Counting, MongoAssumption
<1>3. ASSUME NEW d, NEW X, X \subseteq Calls
      PROVE  /\ Cardinality(AsNew(S \ X, d)) \in Nat
             /\ Cardinality(AsNew(T \ X, d)) \in Nat
             /\ Cardinality(AsNew(S \ X, d)) <= Cardinality(AsNew(T \ X, d))
  <2>1. /\ AsNew(S \ X, d) \subseteq AsNew(T \ X, d)
        /\ AsNew(T \ X, d) \subseteq Calls
    BY <1>1 DEF AsNew
  <2> QED BY <2>1, Counting
<1>4. LoneTrim(id)'
  BY <1>1 DEF TrimsAreSound, LoneTrim, Planning
<1>5. DeletedAreOld(id)'
  <2> SUFFICES ASSUME NEW d \in Inserted(id)' \ T
               PROVE  MaxHistory > 0 /\ Cardinality(AsNew(Series(id), d)') >= MaxHistory
    BY DEF DeletedAreOld
  <2>1. MaxHistory > 0 /\ Cardinality(AsNew(S, d)) >= MaxHistory
    BY DEF TrimsAreSound, DeletedAreOld
  <2>2. /\ Cardinality(AsNew(S, d)) \in Nat /\ Cardinality(AsNew(T, d)) \in Nat
        /\ Cardinality(AsNew(S, d)) <= Cardinality(AsNew(T, d))
    <3>1. S \ {} = S /\ T \ {} = T /\ {} \subseteq Calls
      OBVIOUS
    <3> QED BY <1>3, <3>1
  <2>3. AsNew(Series(id), d)' = AsNew(T, d)
    BY DEF AsNew
  <2> QED BY <1>2, <2>1, <2>2, <2>3
<1>6. ASSUME NEW c \in Calls, Dev(c)' = id PROVE PlanDeletesOld(c)'
  <2>1. Dev(c) = id /\ PlanDeletesOld(c)
    BY <1>1, <1>6 DEF TrimsAreSound
  <2>2. Series(Dev(c))' = T
    BY <1>6 DEF Series
  <2>3. ASSUME add'[c] = "find"
        PROVE  Cardinality(T) >= MaxHistory + excess'[c]
    <3>1. add[c] = "find" /\ excess'[c] = excess[c]
      BY <2>1, <2>3
    <3>2. Cardinality(S) >= MaxHistory + excess[c] /\ excess[c] \in Nat
      BY <2>1, <3>1 DEF PlanDeletesOld, TypeOK
    <3> QED BY <1>2, <3>1, <3>2
  <2>4. CASE ids'[c] = {}
    BY <2>2, <2>3, <2>4 DEF PlanDeletesOld
  <2>5. CASE ids'[c] = ids[c]
    <3>1. /\ ids[c] \subseteq S /\ ids[c] \subseteq Calls
          /\ \A d \in ids[c] : Cardinality(AsNew(S \ ids[c], d)) >= MaxHistory
      BY <2>1 DEF PlanDeletesOld, TypeOK
    <3>2. ASSUME NEW d \in ids[c]
          PROVE  Cardinality(AsNew(T \ ids[c], d)) >= MaxHistory
      <4>1. Cardinality(AsNew(S \ ids[c], d)) >= MaxHistory
        BY <3>1
      <4>2. /\ Cardinality(AsNew(S \ ids[c], d)) \in Nat
            /\ Cardinality(AsNew(T \ ids[c], d)) \in Nat
            /\ Cardinality(AsNew(S \ ids[c], d)) <= Cardinality(AsNew(T \ ids[c], d))
        BY <1>3, <3>1
      <4> QED BY <1>2, <4>1, <4>2
    <3>3. \A d : AsNew(Series(Dev(c)) \ ids[c], d)' = AsNew(T \ ids[c], d)
      BY <2>2, <2>5 DEF AsNew
    <3> QED BY <1>1, <2>2, <2>3, <2>5, <3>1, <3>2, <3>3 DEF PlanDeletesOld
  <2> QED BY <2>1, <2>4, <2>5
<1> QED BY <1>4, <1>5, <1>6 DEF TrimsAreSound

(* The one trim under way deletes points that are no newer than those it   *)
(* leaves, and leaves as many as the cap allows.                           *)
LEMMA TrimIsSound ==
  ASSUME TypeOK, TypeOK', NEW id \in DeviceIDs, TrimsAreSound(id),
         NEW c \in Calls, Dev(c) = id, sample' = sample, MaxHistory > 0,
         ids[c] # {}, telemetry' = telemetry \ ids[c], inserted' = inserted,
         add'[c] # "find", ids'[c] = {},
         \A d \in Calls : d # c => add'[d] = add[d] /\ ids'[d] = ids[d]
  PROVE  TrimsAreSound(id)'
<1> DEFINE S == Series(id)
           T == S \ ids[c]
<1>1. /\ Series(id)' = T /\ S \subseteq Calls
      /\ \A x : Dev(x)' = Dev(x)
  BY DEF TypeOK, Series, Dev
<1>2. /\ ids[c] \subseteq S
      /\ \A d \in ids[c] : Cardinality(AsNew(T, d)) >= MaxHistory
  BY DEF TrimsAreSound, PlanDeletesOld
\* No other trim is under way, so there are no other plans to keep.
<1>3. \A d \in Calls : Dev(d) = id => add'[d] # "find" /\ ids'[d] = {}
  BY DEF TrimsAreSound, LoneTrim, Planning
<1>4. LoneTrim(id)'
  BY <1>1, <1>3 DEF LoneTrim, Planning
<1>5. \A d \in Calls : Dev(d)' = id => PlanDeletesOld(d)'
  BY <1>1, <1>3 DEF PlanDeletesOld
<1>6. DeletedAreOld(id)'
  <2> SUFFICES ASSUME NEW d \in Inserted(id)' \ T
               PROVE  Cardinality(AsNew(T, d)) >= MaxHistory
    <3>1. \A d : AsNew(Series(id), d)' = AsNew(T, d)
      BY <1>1 DEF AsNew
    <3> QED BY <1>1, <3>1 DEF DeletedAreOld
  <2>1. d \in Inserted(id) /\ d \in Calls
    BY <1>1 DEF Inserted, TypeOK
  <2>2. CASE d \in ids[c]
    BY <1>2, <2>2
  <2>3. CASE d \notin S
    <3>1. Cardinality(AsNew(S, d)) >= MaxHistory
      BY <2>1, <2>3 DEF TrimsAreSound, DeletedAreOld
    <3>2. CASE \E x \in ids[c] : sample[d].ts <= sample[x].ts
      <4>1. PICK x \in ids[c] : sample[d].ts <= sample[x].ts
        BY <3>2
      <4>2. \A y \in Calls : sample[y].ts \in Int
        BY MongoAssumption DEF TypeOK
      <4>3. AsNew(T, x) \subseteq AsNew(T, d) /\ AsNew(T, d) \subseteq Calls
        BY <1>1, <1>2, <2>1, <4>1, <4>2 DEF AsNew
      <4>4. /\ Cardinality(AsNew(T, x)) <= Cardinality(AsNew(T, d))
            /\ Cardinality(AsNew(T, x)) \in Nat /\ Cardinality(AsNew(T, d)) \in Nat
        BY <4>3, Counting
      <4> QED BY <1>2, <4>1, <4>4, MongoAssumption
    <3>3. CASE ~ \E x \in ids[c] : sample[d].ts <= sample[x].ts
      <4>1. AsNew(T, d) = AsNew(S, d)
        BY <3>3 DEF AsNew
      <4> QED BY <3>1, <4>1
    <3> QED BY <3>2, <3>3
  <2> QED BY <2>2, <2>3
<1> QED BY <1>4, <1>5, <1>6 DEF TrimsAreSound

(* Every step keeps the trims of a device sound, as long as the device is  *)
(* there and no two of them have overlapped.                               *)
LEMMA NewestStep ==
  ASSUME TypeOK, TypeOK', DeletionInv, NewestInv, [Next]_vars,
         NEW id \in DeviceIDs, devices'[id] # "deleted", ~overlapped'[id]
  PROVE  TrimsAreSound(id)'
<1> DEFINE S == Series(id)
<1>1. devices[id] # "deleted" /\ ~overlapped[id]
  <2>1. devices[id] # "deleted"
    BY DEF Next, AddTelemetry, CreateDevice, DeleteDevice, DeleteTelemetry,
           DeleteAlerts, DeleteLate, AddFind, AddInsert, InsertLate, TrimCount,
           TrimFind, TrimDelete, TrimLate, AddAlert, TypeOK, vars, dbVars
  <2>2. ~overlapped[id]
    <3>1. ASSUME NEW c \in Calls, TrimCount(c) PROVE ~overlapped[id]
      BY <3>1 DEF TrimCount, TrimFails, TypeOK
    <3>2. CASE UNCHANGED overlapped
      BY <3>2
    <3> QED
      BY <3>1, <3>2
      DEF Next, AddTelemetry, CreateDevice, DeleteDevice, DeleteTelemetry,
          DeleteAlerts, DeleteLate, AddFind, AddInsert, InsertLate, TrimFind,
          TrimDelete, TrimFails, TrimLate, AddAlert, vars, trimVars
  <2> QED BY <2>1, <2>2
<1>2. TrimsAreSound(id) /\ PointsAreAdded
  BY <1>1 DEF NewestInv, TrimsAreSound
<1>3. S \subseteq Calls /\ MaxHistory \in Int /\ Cardinality(S) \in Nat
  BY SeriesCount, MongoAssumption DEF TypeOK, Series
\* Steps that leave the points of this device and its plans alone.
<1>4. ASSUME UNCHANGED <<sample, inserted>>, Series(id)' = S,
             \A c \in Calls : Dev(c) = id =>
               /\ add'[c] = "find" => add[c] = "find" /\ excess'[c] = excess[c]
               /\ ids'[c] \in {ids[c], {}}
      PROVE  TrimsAreSound(id)'
  <2>1. Inserted(id)' \ Series(id)' \subseteq Inserted(id) \ S
    BY <1>4 DEF Inserted, Dev
  <2> QED BY <1>2, <1>4, <2>1, GrowthIsHarmless
<1>5. ASSUME NEW i \in DeviceIDs, CreateDevice(i) \/ DeleteDevice(i)
                                    \/ DeleteTelemetry(i) \/ DeleteAlerts(i)
                                    \/ DeleteLate(i)
      PROVE  TrimsAreSound(id)'
  <2>1. UNCHANGED <<sample, add, excess, ids, inserted>>
    BY <1>5 DEF CreateDevice, DeleteDevice, DeleteTelemetry, DeleteAlerts,
                DeleteLate, addVars
  <2>2. Series(id)' = S
    <3>1. CASE DeleteTelemetry(i)
      <4>1. i # id
        BY <1>1, <3>1 DEF DeleteTelemetry, DeletionInv
      <4> QED BY <2>1, <3>1, <4>1 DEF DeleteTelemetry, IgnoredError, Series, Dev
    <3>2. CASE DeleteLate(i)
      <4>1. i = id => telemetry' = telemetry
        BY <1>1, <3>2 DEF DeleteLate, DeletionInv
      <4> QED BY <2>1, <3>2, <4>1 DEF DeleteLate, Series, Dev
    <3>3. CASE ~DeleteTelemetry(i) /\ ~DeleteLate(i)
      BY <1>5, <2>1, <3>3 DEF CreateDevice, DeleteDevice, DeleteAlerts,
                              IgnoredError, Series, Dev
    <3> QED BY <3>1, <3>2, <3>3
  <2> QED BY <1>4, <2>1, <2>2
<1>6. ASSUME NEW c \in Calls, AddInsert(c) \/ InsertLate(c) PROVE TrimsAreSound(id)'
  <2>1. /\ UNCHANGED <<sample, excess, ids>>
        /\ Insert(c) \/ UNCHANGED <<telemetry, inserted>>
    BY <1>6 DEF AddInsert, InsertLate
  <2>2. \A d \in Calls : add'[d] = "find" => add[d] = "find"
    BY <1>6 DEF AddInsert, InsertLate, Goto, TypeOK
  <2>3. /\ S \subseteq Series(id)'
        /\ Inserted(id)' \ Series(id)' \subseteq Inserted(id) \ S
    BY <2>1 DEF Insert, Series, Dev, Inserted
  <2> QED BY <1>2, <2>1, <2>2, <2>3, GrowthIsHarmless
<1>7. ASSUME NEW c \in Calls, AddFind(c) \/ AddAlert(c) PROVE TrimsAreSound(id)'
  <2>1. UNCHANGED <<telemetry, sample, excess, ids, inserted>>
    BY <1>7 DEF AddFind, AddAlert, dbVars
  <2>2. \A d \in Calls : add'[d] = "find" => add[d] = "find"
    BY <1>7 DEF AddFind, AddAlert, Goto, TypeOK
  <2> QED BY <1>4, <2>1, <2>2 DEF Series, Dev
<1>8. ASSUME NEW c \in Calls, TrimCount(c) \/ TrimFind(c) \/ TrimDelete(c)
                               \/ TrimLate(c),
             Dev(c) # id
      PROVE  TrimsAreSound(id)'
  <2>1. /\ UNCHANGED <<sample, inserted>>
        /\ \A d \in Calls : d # c => /\ add'[d] = add[d] /\ ids'[d] = ids[d]
                                     /\ excess'[d] = excess[d]
    BY <1>8 DEF TrimCount, TrimFind, TrimDelete, TrimFails, TrimReturns, TrimLate,
                Goto, TypeOK
  <2>2. ASSUME Series(id)' # S PROVE FALSE
    <3>1. telemetry' = telemetry \ ids[c]
      BY <1>8, <2>1, <2>2 DEF TrimCount, TrimFind, TrimDelete, TrimFails, TrimLate,
                              Series, Dev
    <3>2. ids[c] \cap S # {}
      BY <2>1, <2>2, <3>1 DEF Series, Dev
    <3> QED BY <1>2, <1>8, <3>2 DEF Series, PointsAreAdded
  <2> QED BY <1>4, <1>8, <2>1, <2>2
\* The device's own trims.
<1>9. ASSUME NEW c \in Calls, TrimCount(c) \/ TrimFind(c) \/ TrimDelete(c),
             Dev(c) = id
      PROVE  TrimsAreSound(id)'
  <2>1. /\ UNCHANGED <<sample, inserted>>
        /\ \A d \in Calls : d # c => /\ add'[d] = add[d] /\ ids'[d] = ids[d]
                                     /\ excess'[d] = excess[d]
        /\ add[c] \in {"count", "find", "delete"}
    BY <1>9 DEF TrimCount, TrimFind, TrimDelete, TrimFails, TrimReturns, Goto,
                TypeOK
  <2>2. MaxHistory > 0
    BY <1>2, <1>3, <2>1 DEF PointsAreAdded
  <2>3. CASE /\ Goto(c, "stored") /\ telemetry' = telemetry
             /\ \/ ids' = [ids EXCEPT ![c] = {}]
                \/ UNCHANGED ids
    <3>1. add'[c] = "stored" /\ ids'[c] \in {ids[c], {}}
      BY <2>3 DEF Goto, TypeOK
    <3>2. Series(id)' = S
      BY <2>1, <2>3 DEF Series, Dev
    <3> QED BY <1>4, <2>1, <3>1, <3>2
  <2>4. CASE /\ TrimCount(c) /\ telemetry' = telemetry
             /\ Cardinality(S) > MaxHistory
             /\ excess' = [excess EXCEPT ![c] = Cardinality(S) - MaxHistory]
             /\ Goto(c, "find") /\ ids' = ids
             /\ overlapped' = [overlapped EXCEPT ![id] = @ \/ Trimming(c)]
    <3>1. add'[c] = "find" /\ excess'[c] = Cardinality(S) - MaxHistory
      BY <2>4 DEF Goto, TypeOK
    <3>2. Series(id)' = S /\ Inserted(id)' = Inserted(id)
      BY <2>1, <2>4 DEF Series, Dev, Inserted
    <3>3. \A d \in Calls : (d # c /\ Dev(d) = id) => ~Planning(d)
      <4>1. overlapped'[id] = (overlapped[id] \/ Trimming(c))
        BY <2>4 DEF TypeOK
      <4>2. ~Trimming(c)
        BY <4>1, Zenon
      <4> QED BY <1>9, <4>2 DEF Trimming, Planning
    <3>4. LoneTrim(id)'
      BY <2>1, <3>3 DEF LoneTrim, Planning, Dev
    <3>5. DeletedAreOld(id)'
      <4>1. \A d : AsNew(Series(id), d)' = AsNew(S, d)
        BY <2>1, <3>2 DEF AsNew
      <4> QED BY <1>2, <3>2, <4>1 DEF TrimsAreSound, DeletedAreOld
    <3>6. Cardinality(S) >= MaxHistory + excess'[c]
      BY <1>3, <3>1
    <3>7. ASSUME NEW d \in Calls, Dev(d)' = id PROVE PlanDeletesOld(d)'
      <4>1. CASE d = c
        <5>1. Dev(c)' = id /\ Series(Dev(c))' = S /\ ids'[c] = ids[c]
          BY <1>9, <2>1, <2>4, <3>2 DEF Dev, Series
        <5>2. \A x : AsNew(Series(Dev(c)) \ ids[c], x)' = AsNew(S \ ids[c], x)
          BY <2>1, <5>1 DEF AsNew
        <5>3. /\ ids[c] \subseteq S
              /\ \A x \in ids[c] : Cardinality(AsNew(S \ ids[c], x)) >= MaxHistory
          BY <1>2, <1>9 DEF TrimsAreSound, PlanDeletesOld
        <5> QED BY <3>6, <4>1, <5>1, <5>2, <5>3 DEF PlanDeletesOld
      <4>2. CASE d # c
        <5>1. add'[d] # "find" /\ ids'[d] = {}
          BY <2>1, <3>3, <3>7, <4>2 DEF Planning, Dev
        <5> QED BY <5>1 DEF PlanDeletesOld
      <4> QED BY <4>1, <4>2
    <3> QED BY <3>4, <3>5, <3>7 DEF TrimsAreSound
  <2>5. ASSUME NEW n \in Nat, n <= excess[c], NEW old \in Oldest(S, n), TrimFind(c),
               telemetry' = telemetry, ids' = [ids EXCEPT ![c] = old],
               Goto(c, "delete")
        PROVE  TrimsAreSound(id)'
    <3>1. /\ add[c] = "find" /\ add'[c] = "delete" /\ ids'[c] = old
          /\ excess[c] \in Nat
      BY <2>5 DEF TrimFind, Goto, TypeOK
    <3>2. Series(id)' = S /\ Inserted(id)' = Inserted(id)
      BY <2>1, <2>5 DEF Series, Dev, Inserted
    <3>3. \A d \in Calls : (d # c /\ Dev(d) = id) => ~Planning(d)'
      BY <1>2, <1>9, <2>1, <3>1 DEF TrimsAreSound, LoneTrim, Planning
    <3>4. DeletedAreOld(id)'
      <4>1. \A d : AsNew(Series(id), d)' = AsNew(S, d)
        BY <2>1, <3>2 DEF AsNew
      <4> QED BY <1>2, <3>2, <4>1 DEF TrimsAreSound, DeletedAreOld
    <3>5. Cardinality(S) >= MaxHistory + excess[c]
      BY <1>2, <1>9, <3>1 DEF TrimsAreSound, PlanDeletesOld
    <3>6. /\ old \subseteq S /\ Cardinality(old) <= n
          /\ \A x \in old, y \in S \ old : sample[x].ts <= sample[y].ts
      BY <1>3, <2>5, OldestFacts
    <3>7. Cardinality(S \ old) >= MaxHistory
      <4>1. Cardinality(S \ old) = Cardinality(S) - Cardinality(old)
            /\ Cardinality(old) \in Nat
        BY <1>3, <3>6, Counting
      <4> QED BY <1>3, <2>5, <3>1, <3>5, <3>6, <4>1
    <3>8. \A x \in old : AsNew(S \ old, x) = S \ old
      BY <3>6 DEF AsNew
    <3>9. PlanDeletesOld(c)'
      <4>1. Dev(c)' = id /\ Series(Dev(c))' = S
        BY <1>9, <2>1, <3>2 DEF Dev, Series
      <4>2. \A x : AsNew(Series(Dev(c)) \ ids[c], x)' = AsNew(S \ old, x)
        BY <2>1, <3>1, <4>1 DEF AsNew
      <4> QED BY <3>1, <3>6, <3>7, <3>8, <4>1, <4>2 DEF PlanDeletesOld
    <3>10. ASSUME NEW d \in Calls, Dev(d)' = id, d # c PROVE PlanDeletesOld(d)'
      <4>1. add'[d] # "find" /\ ids'[d] = {}
        BY <2>1, <3>3, <3>10 DEF Planning, Dev
      <4> QED BY <4>1 DEF PlanDeletesOld
    <3>11. \A d \in Calls : Dev(d)' = id => PlanDeletesOld(d)'
      BY <3>9, <3>10
    <3>12. LoneTrim(id)'
      BY <2>1, <3>3 DEF LoneTrim, Dev
    <3> QED BY <3>4, <3>11, <3>12 DEF TrimsAreSound
  <2>6. CASE /\ TrimDelete(c) /\ telemetry' = telemetry \ ids[c]
             /\ TrimReturns(c)
    <3>1. add'[c] = "stored" /\ ids'[c] = {}
      BY <2>6 DEF TrimReturns, Goto, TypeOK
    <3>2. CASE ids[c] = {}
      <4>1. Series(id)' = S
        BY <2>1, <2>6, <3>2 DEF Series, Dev
      <4> QED BY <1>4, <2>1, <3>1, <4>1
    <3>3. CASE ids[c] # {}
      BY <1>2, <1>9, <2>1, <2>2, <2>6, <3>1, <3>3, TrimIsSound
    <3> QED BY <3>2, <3>3
  <2>7. CASE TrimCount(c)
    BY <1>3, <1>9, <2>3, <2>4, <2>7 DEF TrimCount, TrimFails, TrimReturns
  <2>8. CASE TrimFind(c)
    <3>1. excess[c] \in Nat /\ \A n \in 1 .. excess[c] - 1 : n \in Nat /\ n <= excess[c]
      BY DEF TypeOK
    <3> QED BY <1>9, <2>3, <2>5, <2>8, <3>1 DEF TrimFind, TrimFails, TrimReturns
  <2>9. CASE TrimDelete(c)
    BY <2>3, <2>6, <2>9 DEF TrimDelete, TrimFails, TrimReturns
  <2> QED BY <1>9, <2>7, <2>8, <2>9
\* A deletion that is executed late is that of the one trim under way.
<1>10. ASSUME NEW c \in Calls, TrimLate(c), Dev(c) = id PROVE TrimsAreSound(id)'
  <2>1. /\ UNCHANGED <<sample, inserted, add>>
        /\ ids[c] # {} /\ add'[c] # "find" /\ ids'[c] = {}
        /\ telemetry' = telemetry \ ids[c]
        /\ \A d \in Calls : d # c => ids'[d] = ids[d]
    BY <1>10 DEF TrimLate, TypeOK
  <2>2. MaxHistory > 0
    BY <1>2, <1>3, <2>1 DEF PointsAreAdded
  <2> QED BY <1>2, <1>10, <2>1, <2>2, TrimIsSound
<1>11. CASE UNCHANGED vars
  BY <1>4, <1>11 DEF vars, dbVars, addVars, Series, Dev
<1> QED
  BY <1>5, <1>6, <1>7, <1>8, <1>9, <1>10, <1>11 DEF Next, AddTelemetry

\* As long as no two trims of a device overlap, its history in MongoDB is, when
\* its calls are done, exactly its newest points, as many as the cap allows: in
\* whatever order the samples arrive and whatever is inserted between a count
\* and the deletion that follows it, for every cap and any number of calls.  An
\* operation that fails may be executed all the same: a deletion still to be
\* executed counts as a trim under way.
THEOREM LoneTrimsAreExact == Spec => []LoneTrimsKeepNewest
<1>1. Init => NewestInv
  BY DEF Init, NewestInv, PointsAreAdded, LoneTrim, DeletedAreOld,
         PlanDeletesOld, Planning, Inserted
<1>2. TypeOK /\ TypeOK' /\ DeletionInv /\ NewestInv /\ [Next]_vars => NewestInv'
  <2> SUFFICES ASSUME TypeOK, TypeOK', DeletionInv, NewestInv, [Next]_vars
               PROVE  NewestInv'
    OBVIOUS
  <2>1. PointsAreAdded'
    BY AddedStep DEF NewestInv
  <2>2. \A id \in DeviceIDs :
          (devices'[id] # "deleted" /\ ~overlapped'[id]) => TrimsAreSound(id)'
    BY NewestStep
  <2> QED BY <2>1, <2>2 DEF NewestInv, TrimsAreSound
<1>3. TypeOK /\ CapRestored /\ NewestInv => LoneTrimsKeepNewest
  <2> SUFFICES ASSUME TypeOK, CapRestored, NewestInv, NEW id \in DeviceIDs,
                      Settled(id), ~failed[id], ~overlapped[id]
               PROVE  NewestKept(id)
    BY DEF LoneTrimsKeepNewest
  <2> DEFINE S == Series(id)
             A == Inserted(id)
  <2>1. A \subseteq Calls
    BY DEF Inserted, TypeOK
  <2>2. S \subseteq A /\ DeletedAreOld(id)
    BY DEF NewestInv, Settled, PointsAreAdded, Series, Inserted
  <2>3. /\ Cardinality(S) \in Nat /\ Cardinality(A) \in Nat
        /\ Cardinality(S) <= Cardinality(A)
        /\ Cardinality(A) = Cardinality(S) => A = S
        /\ MaxHistory \in Int
    BY <2>1, <2>2, Counting, MongoAssumption
  <2>4. MaxHistory > 0 => Cardinality(S) <= MaxHistory
    BY DEF CapRestored
  <2>5. CASE A = S
    BY <2>3, <2>4, <2>5 DEF NewestKept
  <2>6. CASE A # S
    <3>1. ASSUME NEW d \in A \ S
          PROVE  /\ MaxHistory > 0 /\ Cardinality(S) = MaxHistory
                 /\ \A c \in S : sample[d].ts <= sample[c].ts
      <4>1. MaxHistory > 0 /\ Cardinality(AsNew(S, d)) >= MaxHistory
        BY <2>1, <2>2 DEF DeletedAreOld
      <4>2. AsNew(S, d) \subseteq S /\ S \subseteq Calls
        BY <2>1, <2>2 DEF AsNew
      <4>3. /\ Cardinality(AsNew(S, d)) \in Nat
            /\ Cardinality(AsNew(S, d)) <= Cardinality(S)
            /\ Cardinality(S) = Cardinality(AsNew(S, d)) => S = AsNew(S, d)
        BY <4>2, Counting
      <4>4. Cardinality(S) = MaxHistory /\ S = AsNew(S, d)
        BY <2>3, <2>4, <4>1, <4>3
      <4> QED BY <4>1, <4>4 DEF AsNew
    <3>2. MaxHistory > 0 /\ Cardinality(S) = MaxHistory
      BY <2>2, <2>6, <3>1
    <3>3. MaxHistory < Cardinality(A)
      BY <2>3, <2>6, <3>2
    <3> QED BY <3>1, <3>2, <3>3 DEF NewestKept
  <2> QED BY <2>5, <2>6
<1> QED
  BY <1>1, <1>2, <1>3, TypeCorrect, DeletionInvariant, CapHolds, PTL DEF Spec

-----------------------------------------------------------------------------
(* What clients read (Queries).                                            *)

(* A chain of numbers none of which is above the next is ascending.        *)
LEMMA Ascending ==
  ASSUME NEW n \in Nat, NEW f, \A i \in 1 .. n : f[i] \in Int,
         \A i \in 1 .. n - 1 : f[i] <= f[i + 1]
  PROVE  \A i, j \in 1 .. n : i <= j => f[i] <= f[j]
<1> SUFFICES ASSUME NEW i \in 1 .. n PROVE \A j \in i .. n : f[i] <= f[j]
  OBVIOUS
<1> DEFINE T == {m \in 0 .. n : \A j \in i .. n : j <= m => f[i] <= f[j]}
<1>1. 0 \in T
  OBVIOUS
<1>2. ASSUME NEW m \in 1 .. n, m - 1 \in T PROVE m \in T
  <2> SUFFICES ASSUME NEW j \in i .. n, j <= m PROVE f[i] <= f[j]
    OBVIOUS
  <2>1. CASE j <= m - 1
    BY <1>2, <2>1
  <2>2. CASE j = m /\ j = i
    BY <2>2
  <2>3. CASE j = m /\ j # i
    <3>1. m - 1 \in i .. n /\ m - 1 \in 1 .. n - 1 /\ (m - 1) + 1 = m
      BY <2>3
    <3>2. f[i] <= f[m - 1]
      BY <1>2, <3>1
    <3>3. f[m - 1] <= f[m]
      BY <3>1
    <3>4. f[i] \in Int /\ f[m - 1] \in Int /\ f[m] \in Int
      BY <3>1
    <3> QED BY <2>3, <3>2, <3>3, <3>4
  <2> QED BY <2>1, <2>2, <2>3
<1> HIDE DEF T
<1>3. \A m \in 0 .. n : m \in T
  BY <1>1, <1>2, SetInduction
<1> QED BY <1>3 DEF T

\* s has the elements of S, each once, by ascending time.
InOrder(s, S) ==
  /\ s \in Seq(S) /\ Len(s) = Cardinality(S)
  /\ \A i, j \in 1 .. Len(s) : s[i] = s[j] => i = j
  /\ \A c \in S : \E i \in 1 .. Len(s) : s[i] = c
  /\ \A i, j \in 1 .. Len(s) : i <= j => sample[s[i]].ts <= sample[s[j]].ts

(* Sorting leaves nothing out and nothing out of order.                    *)
LEMMA SortedInOrder ==
  ASSUME TypeOK, NEW S \in SUBSET Calls, NEW s \in Sorted(S)
  PROVE  InOrder(s, S)
<1> DEFINE n == Cardinality(S)
<1>1. IsFiniteSet(S) /\ n \in Nat
  BY MongoAssumption, FS_Subset, FS_CardinalityType
<1> HIDE DEF n
<1>2. /\ s \in [1 .. n -> S] /\ \A i, j \in 1 .. n : i # j => s[i] # s[j]
      /\ \A i \in 1 .. Len(s) - 1 : sample[s[i]].ts <= sample[s[i + 1]].ts
  BY DEF Sorted, SetToSeqs, n
<1>3. s \in Seq(S) /\ Len(s) = n
  BY <1>1, <1>2
<1>4. \A i, j \in 1 .. n : s[i] = s[j] => i = j
  BY <1>2
<1>5. \A c \in S : \E i \in 1 .. n : s[i] = c
  <2>1. s \in Injection(1 .. n, S)
    BY <1>2 DEF Injection, IsInjective
  <2>2. Cardinality(1 .. n) = n
    BY <1>1, FS_Interval
  <2>3. s \in Surjection(1 .. n, S)
    BY <1>1, <2>1, <2>2, FS_Injection DEF n
  <2> QED BY <2>3 DEF Surjection
<1>6. \A i, j \in 1 .. n : i <= j => sample[s[i]].ts <= sample[s[j]].ts
  <2> DEFINE f == [i \in 1 .. n |-> sample[s[i]].ts]
  <2>1. \A i \in 1 .. n : f[i] \in Int
    <3> SUFFICES ASSUME NEW i \in 1 .. n PROVE f[i] \in Int
      OBVIOUS
    <3>1. s[i] \in Calls
      BY <1>2
    <3>2. sample[s[i]].ts \in Times
      BY <3>1 DEF TypeOK
    <3> QED BY <3>2, MongoAssumption
  <2>2. ASSUME NEW i \in 1 .. n - 1 PROVE f[i] <= f[i + 1]
    <3>1. i \in 1 .. n /\ i + 1 \in 1 .. n
      BY <1>1
    <3> QED BY <1>2, <1>3, <3>1
  <2> HIDE DEF f
  <2>3. \A i, j \in 1 .. n : i <= j => f[i] <= f[j]
    BY <1>1, <2>1, <2>2, Ascending
  <2> QED BY <2>3 DEF f
<1> QED BY <1>3, <1>4, <1>5, <1>6 DEF InOrder, n

(* What turning a sequence round does.                                     *)
LEMMA Reversed ==
  ASSUME NEW S, NEW s \in Seq(S)
  PROVE  /\ Reverse(s) \in Seq(S) /\ Len(Reverse(s)) = Len(s)
         /\ \A i \in 1 .. Len(s) : Reverse(s)[i] = s[(Len(s) - i) + 1]
<1>1. Len(s) \in Nat /\ \A i \in 1 .. Len(s) : s[i] \in S
  BY LenProperties, ElementOfSeq
<1> DEFINE r == [i \in 1 .. Len(s) |-> s[(Len(s) - i) + 1]]
<1>2. \A i \in 1 .. Len(s) : (Len(s) - i) + 1 \in 1 .. Len(s)
  BY <1>1
<1>3. r \in Seq(S) /\ Len(r) = Len(s)
  BY <1>1, <1>2
<1> QED BY <1>3 DEF Reverse

(* Sorting by descending time up to a limit and turning the result round   *)
(* yields the end of the ascending order.                                  *)
LEMMA NewestTurned ==
  ASSUME NEW S, NEW s \in Seq(S), NEW m \in 0 .. Len(s)
  PROVE  LET out == Reverse(SubSeq(Reverse(s), 1, m))
         IN  /\ out \in Seq(S) /\ Len(out) = m
             /\ \A k \in 1 .. m : out[k] = s[Len(s) - m + k]
<1> DEFINE r   == Reverse(s)
           u   == SubSeq(r, 1, m)
           out == Reverse(u)
<1>0. Len(s) \in Nat
  BY LenProperties
<1>1. r \in Seq(S) /\ Len(r) = Len(s) /\ \A i \in 1 .. Len(s) : r[i] = s[(Len(s) - i) + 1]
  BY Reversed
<1> HIDE DEF r
<1>2. u \in Seq(S) /\ Len(u) = m /\ \A i \in 1 .. m : u[i] = r[i]
  <2>1. \A i \in 1 .. m : r[i] \in S
    BY <1>0, <1>1, ElementOfSeq
  <2>2. /\ u \in Seq(S) /\ Len(u) = IF 1 <= m THEN m - 1 + 1 ELSE 0
        /\ \A i \in 1 .. m - 1 + 1 : u[i] = r[1 + i - 1]
    BY <2>1, SubSeqProperties
  <2> QED BY <1>0, <2>2
<1> HIDE DEF u
<1>3. out \in Seq(S) /\ Len(out) = m /\ \A k \in 1 .. m : out[k] = u[(m - k) + 1]
  BY <1>2, Reversed
<1> HIDE DEF out
<1>4. ASSUME NEW k \in 1 .. m PROVE out[k] = s[Len(s) - m + k]
  <2>1. (m - k) + 1 \in 1 .. m /\ (m - k) + 1 \in 1 .. Len(s)
    BY <1>0
  <2>2. out[k] = r[(m - k) + 1]
    BY <1>2, <1>3, <2>1
  <2>3. r[(m - k) + 1] = s[(Len(s) - ((m - k) + 1)) + 1]
    BY <1>1, <2>1
  <2>4. (Len(s) - ((m - k) + 1)) + 1 = Len(s) - m + k
    BY <1>0
  <2> QED BY <2>2, <2>3, <2>4
<1> QED BY <1>3, <1>4 DEF out, u, r

\* The stored points of a device that are not older than since.
Window(id, since) == {c \in Series(id) : sample[c].ts >= since}

(* GetTelemetry answers with the end of some ascending order of the window.*)
LEMMA GetTelemetryAnswer ==
  ASSUME TypeOK, NEW id \in DeviceIDs, NEW since \in Nat, NEW limit \in Nat,
         NEW out \in GetTelemetry(id, since, limit)
  PROVE  /\ Window(id, since) \in SUBSET Calls
         /\ limit = 0 => InOrder(out, Window(id, since))
         /\ \E s : /\ InOrder(s, Window(id, since))
                   /\ out \in Seq(Window(id, since))
                   /\ Len(out) = IF limit > 0 /\ limit < Len(s) THEN limit ELSE Len(s)
                   /\ \A k \in 1 .. Len(out) : out[k] = s[Len(s) - Len(out) + k]
<1> DEFINE S == Window(id, since)
           found == {c \in Series(id) : since = ZeroTime \/ sample[c].ts >= since}
<1>1. Series(id) \subseteq Calls /\ S \in SUBSET Calls
  BY DEF Series, TypeOK, Window
<1>2. found = S
  <2>1. ASSUME NEW c \in Series(id) PROVE sample[c].ts >= 0
    <3>1. sample[c].ts \in Times
      BY <1>1 DEF TypeOK
    <3>2. sample[c].ts > 0
      BY <3>1, QueriesAssumption, Zenon
    <3>3. sample[c].ts \in Int
      BY <3>1, MongoAssumption
    <3> QED BY <3>2, <3>3
  <2> QED BY <2>1 DEF Window, ZeroTime
<1> HIDE DEF S
<1>3. CASE limit = 0
  <2>1. out \in Sorted(S)
    BY <1>2, <1>3 DEF GetTelemetry
  <2>2. InOrder(out, S)
    BY <1>1, <2>1, SortedInOrder
  <2>3. out \in Seq(S) /\ Len(out) \in Nat
    BY <2>2, LenProperties DEF InOrder
  <2>4. \A k \in 1 .. Len(out) : out[k] = out[Len(out) - Len(out) + k]
    BY <2>3
  <2> QED BY <1>1, <1>3, <2>2, <2>3, <2>4 DEF S
<1>4. CASE limit > 0
  <2>1. PICK s \in Sorted(S) :
               out = Reverse(SubSeq(Reverse(s), 1, IF limit < Len(s) THEN limit ELSE Len(s)))
    BY <1>2, <1>4 DEF GetTelemetry
  <2>2. InOrder(s, S)
    BY <1>1, SortedInOrder
  <2>3. s \in Seq(S) /\ Len(s) \in Nat
    BY <2>2, LenProperties DEF InOrder
  <2>4. PICK m : m = IF limit < Len(s) THEN limit ELSE Len(s)
    OBVIOUS
  <2>5. m \in 0 .. Len(s) /\ m = IF limit > 0 /\ limit < Len(s) THEN limit ELSE Len(s)
    BY <1>4, <2>3, <2>4
  <2>6. out \in Seq(S) /\ Len(out) = m /\ \A k \in 1 .. m : out[k] = s[Len(s) - m + k]
    <3>1. out = Reverse(SubSeq(Reverse(s), 1, m))
      BY <2>1, <2>4
    <3>2. m \in 0 .. Len(s)
      BY <2>5
    <3> QED BY <2>3, <3>1, <3>2, NewestTurned
  <2>7. Len(out) = IF limit > 0 /\ limit < Len(s) THEN limit ELSE Len(s)
    BY <2>5, <2>6
  <2>8. \A k \in 1 .. Len(out) : out[k] = s[Len(s) - Len(out) + k]
    BY <2>6
  <2>9. limit # 0
    BY <1>4
  <2> QED BY <1>1, <2>2, <2>6, <2>7, <2>8, <2>9, Zenon DEF S
<1> QED BY <1>3, <1>4

(* In whatever state concurrent insertions, trims and deletions have left  *)
(* the collection, GetTelemetry answers with the newest points of the      *)
(* window, as many as the limit allows, in order (NewestPointsLast).       *)
THEOREM AnswersAreNewest == Spec => []NewestPointsLast
<1>1. TypeOK => NewestPointsLast
  <2> SUFFICES ASSUME TypeOK, NEW id \in DeviceIDs, NEW w \in Windows,
                      NEW out \in getTelemetry(id, w)
               PROVE  LET window == {c \in Series(id) : sample[c].ts >= w.since}
                      IN  /\ Len(out) = IF w.limit > 0 /\ w.limit < Cardinality(window)
                                        THEN w.limit ELSE Cardinality(window)
                          /\ \A i, j \in 1 .. Len(out) :
                               i < j => out[i] # out[j] /\ sample[out[i]].ts <= sample[out[j]].ts
                          /\ \A c \in window \ ToSet(out), d \in ToSet(out) :
                               sample[c].ts <= sample[d].ts
    BY DEF NewestPointsLast
  <2> DEFINE S == Window(id, w.since)
             limit == parseLimit(w.limit)
  <2>1. w.since \in Nat /\ w.limit \in Int
    BY QueriesAssumption
  <2>2. limit \in Nat /\ (limit > 0 <=> w.limit > 0) /\ (w.limit > 0 => limit = w.limit)
    BY <2>1 DEF parseLimit
  <2>3. out \in GetTelemetry(id, w.since, limit)
    BY DEF getTelemetry
  <2> HIDE DEF limit
  <2>4. PICK s : /\ InOrder(s, S) /\ out \in Seq(S)
                 /\ Len(out) = IF limit > 0 /\ limit < Len(s) THEN limit ELSE Len(s)
                 /\ \A k \in 1 .. Len(out) : out[k] = s[Len(s) - Len(out) + k]
    BY <2>1, <2>2, <2>3, GetTelemetryAnswer
  <2> HIDE DEF S
  <2>5. /\ Len(s) = Cardinality(S)
        /\ \A i, j \in 1 .. Len(s) : s[i] = s[j] => i = j
        /\ \A c \in S : \E i \in 1 .. Len(s) : s[i] = c
        /\ \A i, j \in 1 .. Len(s) : i <= j => sample[s[i]].ts <= sample[s[j]].ts
    BY <2>4 DEF InOrder
  <2>6. Len(s) \in Nat /\ Len(out) \in Nat /\ DOMAIN out = 1 .. Len(out)
    BY <2>4, LenProperties DEF InOrder
  <2>7. Len(out) <= Len(s)
    BY <2>2, <2>4, <2>6
  <2>8. Len(out) = IF w.limit > 0 /\ w.limit < Cardinality(S) THEN w.limit ELSE Cardinality(S)
    BY <2>1, <2>2, <2>4, <2>5, <2>6
  <2>9. ASSUME NEW i \in 1 .. Len(out), NEW j \in 1 .. Len(out), i < j
        PROVE  out[i] # out[j] /\ sample[out[i]].ts <= sample[out[j]].ts
    <3>1. PICK d \in Nat : d = Len(s) - Len(out)
      BY <2>6, <2>7
    <3>2. d + i \in 1 .. Len(s) /\ d + j \in 1 .. Len(s) /\ d + i <= d + j /\ d + i # d + j
      BY <2>6, <2>7, <2>9, <3>1
    <3>3. out[i] = s[d + i] /\ out[j] = s[d + j]
      BY <2>4, <3>1
    <3> QED BY <2>5, <3>2, <3>3
  <2>10. ASSUME NEW c \in S \ ToSet(out), NEW e \in ToSet(out)
         PROVE  sample[c].ts <= sample[e].ts
    <3>1. PICK d \in Nat : d = Len(s) - Len(out)
      BY <2>6, <2>7
    <3>2. PICK i \in 1 .. Len(s) : s[i] = c
      BY <2>5
    <3>3. PICK k \in 1 .. Len(out) : out[k] = e
      BY <2>6 DEF ToSet
    <3>4. i <= d
      <4> SUFFICES ASSUME i > d PROVE FALSE
        BY <2>6, <3>1
      <4>1. i - d \in 1 .. Len(out) /\ d + (i - d) = i
        BY <2>6, <3>1
      <4>2. out[i - d] = c
        BY <2>4, <3>1, <3>2, <4>1
      <4> QED BY <2>6, <4>1, <4>2 DEF ToSet
    <3>5. d + k \in 1 .. Len(s) /\ i <= d + k /\ out[k] = s[d + k]
      BY <2>4, <2>6, <3>1, <3>4
    <3> QED BY <2>5, <3>2, <3>3, <3>5
  <2> QED BY <2>8, <2>9, <2>10 DEF S, Window
<1> QED BY <1>1, TypeCorrect, PTL

\* One round of Aggregate's loop, after those that f has the results of.
StatsRound(points, f, n) ==
  IF n = 0 THEN [count |-> 0, sum |-> 0, min |-> 0, max |-> 0]
  ELSE IF Reports(points[n]) THEN Accumulate(f[n - 1], points[n])
  ELSE f[n - 1]

(* The loop has a result.                                                  *)
LEMMA AggregateEnds ==
  ASSUME NEW S, NEW points \in Seq(S)
  PROVE  \E g : /\ g = [n \in 0 .. Len(points) |-> StatsRound(points, g, n)]
                /\ Aggregate(points) = g[Len(points)]
<1> DEFINE Ok(n) == \E f : f = [m \in 0 .. n |-> StatsRound(points, f, m)]
           T == {n \in 0 .. Len(points) : Ok(n)}
<1>0. Len(points) \in Nat
  BY LenProperties
<1>1. Ok(0)
  <2> DEFINE f == [m \in 0 .. 0 |-> [count |-> 0, sum |-> 0, min |-> 0, max |-> 0]]
  <2>1. f = [m \in 0 .. 0 |-> StatsRound(points, f, m)]
    BY DEF StatsRound
  <2> QED BY <2>1
<1>2. ASSUME NEW n \in 1 .. Len(points), Ok(n - 1) PROVE Ok(n)
  <2>1. PICK f : f = [m \in 0 .. n - 1 |-> StatsRound(points, f, m)]
    BY <1>2
  <2> DEFINE h == [m \in 0 .. n |-> IF m < n THEN f[m] ELSE StatsRound(points, f, n)]
  <2>2. ASSUME NEW m \in 0 .. n PROVE h[m] = StatsRound(points, h, m)
    <3>1. m = 0 \/ (m - 1 \in 0 .. n /\ m - 1 < n)
      BY <1>0
    <3>2. m = 0 \/ h[m - 1] = f[m - 1]
      BY <3>1
    <3>3. StatsRound(points, h, m) = StatsRound(points, f, m)
      <4> HIDE DEF h
      <4>1. CASE m = 0
        BY <4>1 DEF StatsRound
      <4>2. CASE m # 0 /\ h[m - 1] = f[m - 1]
        BY <4>2, Zenon DEF StatsRound
      <4> QED BY <3>2, <4>1, <4>2
    <3>4. m < n => m \in 0 .. n - 1
      BY <1>0
    <3>5. m < n => f[m] = StatsRound(points, f, m)
      BY <2>1, <3>4
    <3> QED BY <1>0, <3>3, <3>5
  <2>3. h = [m \in 0 .. n |-> StatsRound(points, h, m)]
    BY <2>2
  <2> QED BY <2>3
<1>3. \A n \in 0 .. Len(points) : n \in T
  <2>1. 0 \in T /\ \A n \in 1 .. Len(points) : n - 1 \in T => n \in T
    BY <1>0, <1>1, <1>2
  <2> HIDE DEF T
  <2> QED BY <1>0, <2>1, SetInduction
<1>4. Ok(Len(points))
  BY <1>0, <1>3
<1> DEFINE g == CHOOSE f : f = [m \in 0 .. Len(points) |-> StatsRound(points, f, m)]
<1>5. g = [m \in 0 .. Len(points) |-> StatsRound(points, g, m)]
  BY <1>4, Zenon
<1>6. Aggregate(points) = g[Len(points)]
  BY DEF Aggregate, StatsRound
<1> QED BY <1>5, <1>6

\* The positions up to n of the points that report the metric.
Reporting(points, n) == {i \in 1 .. n : Reports(points[i])}

\* What the statistics say of the points at the positions in R.
StatsOf(s, points, R) ==
  /\ s.count = Cardinality(R) /\ s.sum \in Int /\ s.min \in Int /\ s.max \in Int
  /\ R # {} =>
       /\ \E m \in R : s.last = points[m] /\ \A i \in R : i <= m
       /\ \E i \in R : s.min = Value(points[i])
       /\ \E i \in R : s.max = Value(points[i])
  /\ \A i \in R : s.min <= Value(points[i]) /\ Value(points[i]) <= s.max
  /\ s.count * s.min <= s.sum /\ s.sum <= s.count * s.max

(* Replacing a bound by a wider one, and adding a value within it.         *)
LEMMA SumStaysBounded ==
  ASSUME NEW n \in Nat, NEW sum \in Int, NEW lo \in Int, NEW hi \in Int,
         NEW v \in Int, NEW a \in Int, NEW b \in Int,
         n * lo <= sum, sum <= n * hi, n > 0 => a <= lo /\ hi <= b, a <= v, v <= b
  PROVE  (n + 1) * a <= sum + v /\ sum + v <= (n + 1) * b
<1>1. \A x, y \in Int : x <= y => n * x <= n * y
  OBVIOUS
<1>2. \A x \in Int : n * x \in Int /\ (n + 1) * x = n * x + x
  OBVIOUS
<1>3. n * a <= n * lo /\ n * hi <= n * b
  <2>1. CASE n = 0
    BY <2>1
  <2>2. CASE n > 0
    BY <1>1, <2>2
  <2> QED BY <2>1, <2>2
<1>4. /\ n * a \in Int /\ n * b \in Int /\ n * lo \in Int /\ n * hi \in Int
      /\ (n + 1) * a = n * a + a /\ (n + 1) * b = n * b + b
  BY <1>2
<1> QED BY <1>3, <1>4

(* One more point that reports the metric.                                 *)
LEMMA AccumulateStats ==
  ASSUME NEW S, NEW points \in Seq(S), NEW n \in 1 .. Len(points),
         NEW R \in SUBSET (1 .. n - 1), IsFiniteSet(R), NEW s, StatsOf(s, points, R),
         \A i \in R \union {n} : Value(points[i]) \in Int
  PROVE  StatsOf(Accumulate(s, points[n]), points, R \union {n})
<1> DEFINE Q == R \union {n}
           t == Accumulate(s, points[n])
<1>0. Len(points) \in Nat
  BY LenProperties
<1>1. PICK v \in Int : v = Value(points[n])
  OBVIOUS
<1>2. /\ s.count \in Nat /\ s.count = Cardinality(R) /\ (s.count = 0 <=> R = {})
      /\ s.sum \in Int /\ s.min \in Int /\ s.max \in Int
  BY FS_CardinalityType, FS_EmptySet DEF StatsOf
<1>3. /\ t.count = s.count + 1 /\ t.sum = s.sum + v /\ t.last = points[n]
      /\ t.min = IF s.count = 0 \/ v < s.min THEN v ELSE s.min
      /\ t.max = IF s.count = 0 \/ v > s.max THEN v ELSE s.max
  BY <1>1 DEF Accumulate
<1> HIDE DEF t
<1>4. t.count = Cardinality(Q)
  <2>1. n \notin R
    BY <1>0
  <2>2. Cardinality(Q) = Cardinality(R) + 1
    BY <2>1, FS_AddElement
  <2> HIDE DEF Q
  <2> QED BY <1>2, <1>3, <2>2
<1>5. t.sum \in Int /\ t.min \in Int /\ t.max \in Int
  BY <1>2, <1>3
<1>6. \E m \in Q : t.last = points[m] /\ \A i \in Q : i <= m
  <2>1. n \in Q /\ \A i \in Q : i <= n
    BY <1>0
  <2> QED BY <1>3, <2>1
<1>7. \E i \in Q : t.min = Value(points[i])
  <2>1. CASE t.min = v
    BY <1>1, <2>1
  <2>2. CASE t.min = s.min /\ R # {}
    BY <2>2 DEF StatsOf
  <2> QED BY <1>2, <1>3, <2>1, <2>2
<1>8. \E i \in Q : t.max = Value(points[i])
  <2>1. CASE t.max = v
    BY <1>1, <2>1
  <2>2. CASE t.max = s.max /\ R # {}
    BY <2>2 DEF StatsOf
  <2> QED BY <1>2, <1>3, <2>1, <2>2
<1>9. t.min <= v /\ v <= t.max /\ (s.count > 0 => t.min <= s.min /\ s.max <= t.max)
  <2>1. /\ s.count \in Nat /\ s.min \in Int /\ s.max \in Int
    BY <1>2
  <2>2. t.min <= v /\ (s.count > 0 => t.min <= s.min)
    <3>1. t.min = IF s.count = 0 \/ v < s.min THEN v ELSE s.min
      BY <1>3
    <3> QED BY <2>1, <3>1
  <2>3. v <= t.max /\ (s.count > 0 => s.max <= t.max)
    <3>1. t.max = IF s.count = 0 \/ v > s.max THEN v ELSE s.max
      BY <1>3
    <3> QED BY <2>1, <3>1
  <2> QED BY <2>2, <2>3
<1>10. ASSUME NEW i \in Q PROVE t.min <= Value(points[i]) /\ Value(points[i]) <= t.max
  <2>1. CASE i = n
    BY <1>1, <1>9, <2>1
  <2>2. CASE i \in R
    <3>1. s.min <= Value(points[i]) /\ Value(points[i]) <= s.max /\ Value(points[i]) \in Int
      BY <2>2 DEF StatsOf
    <3>2. s.count > 0
      BY <1>2, <2>2
    <3>3. t.min <= s.min /\ s.max <= t.max
      BY <1>9, <3>2
    <3>4. s.min \in Int /\ s.max \in Int /\ t.min \in Int /\ t.max \in Int
      BY <1>2, <1>5
    <3> QED BY <3>1, <3>3, <3>4
  <2> QED BY <2>1, <2>2
<1>11. t.count * t.min <= t.sum /\ t.sum <= t.count * t.max
  <2>1. s.count * s.min <= s.sum /\ s.sum <= s.count * s.max
    BY DEF StatsOf
  <2>2. /\ (s.count + 1) * t.min <= s.sum + v
        /\ s.sum + v <= (s.count + 1) * t.max
    BY <1>2, <1>5, <1>9, <2>1, SumStaysBounded
  <2>3. t.count = s.count + 1 /\ t.sum = s.sum + v
    BY <1>3
  <2> QED BY <2>2, <2>3, Zenon
<1>12. StatsOf(t, points, Q)
  BY <1>4, <1>5, <1>6, <1>7, <1>8, <1>10, <1>11, Zenon DEF StatsOf
<1> QED BY <1>12 DEF t

(* Aggregate's statistics are those of the points that report the metric.  *)
LEMMA AggregateStats ==
  ASSUME TypeOK, NEW points \in Seq(Calls)
  PROVE  StatsOf(Aggregate(points), points, Reporting(points, Len(points)))
<1>0. Len(points) \in Nat
  BY LenProperties
<1>1. PICK g : /\ g = [n \in 0 .. Len(points) |-> StatsRound(points, g, n)]
               /\ Aggregate(points) = g[Len(points)]
  BY AggregateEnds
<1> DEFINE R(n) == Reporting(points, n)
           T == {n \in 0 .. Len(points) : StatsOf(g[n], points, R(n))}
<1>2. ASSUME NEW n \in 0 .. Len(points)
      PROVE  /\ g[n] = StatsRound(points, g, n)
             /\ R(n) \subseteq 1 .. n /\ IsFiniteSet(R(n))
             /\ \A i \in R(n) : Value(points[i]) \in Int
  <2>1. g[n] = StatsRound(points, g, n)
    BY <1>1
  <2>2. R(n) \subseteq 1 .. n
    BY DEF Reporting
  <2>3. IsFiniteSet(1 .. n)
    BY <1>0, FS_Interval
  <2>4. \A i \in R(n) : Value(points[i]) \in Int
    BY QueriesAssumption, Zenon DEF Reporting, Reports, Value
  <2> HIDE DEF R
  <2> QED BY <2>1, <2>2, <2>3, <2>4, FS_Subset
<1>3. 0 \in T
  <2>1. R(0) = {} /\ 0 \in 0 .. Len(points)
    BY <1>0 DEF Reporting
  <2>2. g[0] = [count |-> 0, sum |-> 0, min |-> 0, max |-> 0]
    BY <1>2, <2>1 DEF StatsRound
  <2>3. Cardinality({}) = 0
    BY FS_EmptySet
  <2>4. StatsOf(g[0], points, {})
    BY <2>2, <2>3 DEF StatsOf
  <2> QED BY <2>1, <2>4
<1>4. ASSUME NEW n \in 1 .. Len(points), n - 1 \in T PROVE n \in T
  <2>1. n - 1 \in 0 .. Len(points) /\ n \in 0 .. Len(points) /\ n # 0
    BY <1>0
  <2>2. StatsOf(g[n - 1], points, R(n - 1))
    BY <1>4
  <2>3. CASE Reports(points[n])
    <3>1. R(n) = R(n - 1) \union {n}
      BY <1>0, <2>3 DEF Reporting
    <3>2. g[n] = Accumulate(g[n - 1], points[n])
      BY <1>2, <2>1, <2>3 DEF StatsRound
    <3>3. /\ R(n - 1) \in SUBSET (1 .. n - 1) /\ IsFiniteSet(R(n - 1))
          /\ \A i \in R(n - 1) \union {n} : Value(points[i]) \in Int
      BY <1>2, <2>1, <3>1
    <3> HIDE DEF R
    <3>4. StatsOf(Accumulate(g[n - 1], points[n]), points, R(n - 1) \union {n})
      BY <2>2, <3>3, AccumulateStats
    <3> QED BY <2>1, <3>1, <3>2, <3>4
  <2>4. CASE ~Reports(points[n])
    <3>1. R(n) = R(n - 1)
      BY <1>0, <2>4 DEF Reporting
    <3>2. g[n] = g[n - 1]
      BY <1>2, <2>1, <2>4 DEF StatsRound
    <3> HIDE DEF R
    <3> QED BY <2>1, <2>2, <3>1, <3>2
  <2> QED BY <2>3, <2>4
<1>5. Len(points) \in T
  <2> HIDE DEF T
  <2>1. \A n \in 0 .. Len(points) : n \in T
    BY <1>0, <1>3, <1>4, SetInduction
  <2> QED BY <1>0, <2>1
<1> QED BY <1>1, <1>5

(* Whatever the collection holds, the statistics of an analytics answer    *)
(* are those of its series: as many values, the smallest and the largest   *)
(* of them, a sum that lies between, and a last value of the latest time   *)
(* (StatsMatchSeries).                                                     *)
THEOREM StatisticsAgree == Spec => []StatsMatchSeries
<1>1. TypeOK => StatsMatchSeries
  <2> SUFFICES ASSUME TypeOK, NEW id \in DeviceIDs, NEW w \in Windows,
                      NEW a \in getAnalytics(id, w.since)
               PROVE  LET n      == Len(a.series)
                          values == {Value(a.series[i]) : i \in 1 .. n}
                      IN  /\ a.stats.count = n
                          /\ n > 0 =>
                               /\ sample[a.stats.last].ts = sample[a.series[n]].ts
                               /\ {a.stats.min, a.stats.max} \subseteq values
                               /\ \A v \in values : a.stats.min <= v /\ v <= a.stats.max
                               /\ n * a.stats.min <= a.stats.sum
                               /\ a.stats.sum <= n * a.stats.max
    BY DEF StatsMatchSeries
  <2>1. PICK points \in GetTelemetry(id, w.since, 0) : \E q \in TimeSeries(points) :
               a = [stats |-> Aggregate(points), series |-> q]
    BY DEF getAnalytics
  <2>2. PICK q \in TimeSeries(points) : a = [stats |-> Aggregate(points), series |-> q]
    BY <2>1
  <2>3. PICK s : s = Aggregate(points)
    OBVIOUS
  <2>4. a.stats = s /\ a.series = q
    BY <2>2, <2>3
  <2> DEFINE S == Window(id, w.since)
             Rep == {c \in ToSet(points) : Reports(c)}
             L == Len(points)
             R == Reporting(points, L)
             n == Len(q)
  <2>5. S \in SUBSET Calls /\ InOrder(points, S)
    <3>1. w.since \in Nat
      BY QueriesAssumption
    <3> QED BY <2>1, <3>1, GetTelemetryAnswer
  <2> HIDE DEF S
  <2>6. /\ points \in Seq(Calls) /\ L \in Nat /\ DOMAIN points = 1 .. L
        /\ \A i \in 1 .. L : points[i] \in Calls
    BY <2>5, LenProperties, ElementOfSeq DEF InOrder
  <2>7. StatsOf(s, points, R)
    BY <2>3, <2>6, AggregateStats
  <2>8. /\ \A i \in R : i \in 1 .. L /\ points[i] \in Rep
        /\ \A c \in Rep : \E i \in R : points[i] = c
        /\ \A i, j \in R : points[i] = points[j] => i = j
        /\ R \subseteq 1 .. L /\ Rep \in SUBSET Calls
    BY <2>5, <2>6 DEF InOrder, Reporting, ToSet
  <2>9. InOrder(q, Rep)
    <3>1. q \in Sorted(Rep)
      BY <2>2 DEF TimeSeries
    <3> HIDE DEF Rep
    <3> QED BY <2>8, <3>1, SortedInOrder
  <2>10. Cardinality(Rep) = Cardinality(R) /\ IsFiniteSet(R)
    <3>1. IsFiniteSet(1 .. L)
      BY <2>6, FS_Interval
    <3> HIDE DEF R, Rep, L
    <3>2. IsFiniteSet(R)
      BY <2>8, <3>1, FS_Subset
    <3> DEFINE f == [i \in R |-> points[i]]
    <3>3. f \in Bijection(R, Rep)
      BY <2>8 DEF Bijection, Injection, Surjection, IsInjective
    <3>4. ExistsBijection(R, Rep)
      BY <3>3 DEF ExistsBijection
    <3> QED BY <3>2, <3>4, FS_Bijection
  <2> HIDE DEF R, Rep, L, n
  <2>11. /\ n = Cardinality(Rep) /\ n \in Nat
         /\ \A i \in 1 .. n : q[i] \in Rep
         /\ \A c \in Rep : \E i \in 1 .. n : q[i] = c
         /\ \A i, j \in 1 .. n : i <= j => sample[q[i]].ts <= sample[q[j]].ts
    BY <2>9, LenProperties, ElementOfSeq DEF InOrder, n
  <2>12. s.count = n
    BY <2>7, <2>10, <2>11 DEF StatsOf
  <2>13. ASSUME n > 0
         PROVE  /\ sample[s.last].ts = sample[q[n]].ts
                /\ \E i \in 1 .. n : s.min = Value(q[i])
                /\ \E i \in 1 .. n : s.max = Value(q[i])
                /\ \A i \in 1 .. n : s.min <= Value(q[i]) /\ Value(q[i]) <= s.max
    <3>1. n \in 1 .. n
      BY <2>11, <2>13
    <3>2. R # {}
      BY <2>8, <2>11, <3>1
    <3>3. /\ \E m \in R : s.last = points[m] /\ \A i \in R : i <= m
          /\ \E i \in R : s.min = Value(points[i])
          /\ \E i \in R : s.max = Value(points[i])
          /\ \A i \in R : s.min <= Value(points[i]) /\ Value(points[i]) <= s.max
      BY <2>7, <3>2, Zenon DEF StatsOf
    <3>4. PICK m \in R : s.last = points[m] /\ \A i \in R : i <= m
      BY <3>3
    <3>5. sample[s.last].ts = sample[q[n]].ts
      <4>1. PICK k \in R : points[k] = q[n]
        BY <2>8, <2>11, <3>1
      <4>2. sample[points[k]].ts <= sample[points[m]].ts
        <5>1. k \in 1 .. L /\ m \in 1 .. L /\ k <= m
          BY <2>8, <3>4
        <5> QED BY <2>5, <5>1 DEF InOrder, L
      <4>3. PICK i \in 1 .. n : q[i] = points[m]
        BY <2>8, <2>11
      <4>4. sample[q[i]].ts <= sample[q[n]].ts
        <5>1. i <= n
          BY <2>11
        <5> QED BY <2>11, <3>1, <5>1
      <4>5. sample[q[n]].ts \in Int /\ sample[points[m]].ts \in Int
        <5>1. q[n] \in Calls /\ points[m] \in Calls
          BY <2>8, <2>11, <3>1
        <5>2. sample[q[n]].ts \in Times /\ sample[points[m]].ts \in Times
          BY <5>1 DEF TypeOK
        <5> QED BY <5>2, MongoAssumption
      <4> QED BY <3>4, <4>1, <4>2, <4>3, <4>4, <4>5
    <3>6. \E i \in 1 .. n : s.min = Value(q[i])
      <4>1. PICK k \in R : s.min = Value(points[k])
        BY <3>3
      <4>2. PICK i \in 1 .. n : q[i] = points[k]
        BY <2>8, <2>11
      <4> QED BY <4>1, <4>2
    <3>7. \E i \in 1 .. n : s.max = Value(q[i])
      <4>1. PICK k \in R : s.max = Value(points[k])
        BY <3>3
      <4>2. PICK i \in 1 .. n : q[i] = points[k]
        BY <2>8, <2>11
      <4> QED BY <4>1, <4>2
    <3>8. ASSUME NEW i \in 1 .. n PROVE s.min <= Value(q[i]) /\ Value(q[i]) <= s.max
      <4>1. PICK k \in R : points[k] = q[i]
        BY <2>8, <2>11
      <4> QED BY <3>3, <4>1
    <3> QED BY <3>5, <3>6, <3>7, <3>8
  <2>14. n * s.min <= s.sum /\ s.sum <= n * s.max
    BY <2>7, <2>12 DEF StatsOf
  <2> QED BY <2>4, <2>12, <2>13, <2>14, Zenon DEF n
<1> QED BY <1>1, TypeCorrect, PTL
=============================================================================
