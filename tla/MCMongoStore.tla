---------------------------- MODULE MCMongoStore ----------------------------
(* Instances of MongoStore and Queries for TLC.  Jobs are interchangeable. *)
EXTENDS Queries

MongoSymmetry == Permutations(Calls)

\* The samples of time 2 do not report the metric; the values fall with time.
SomeReadings == (1 :> 9) @@ (3 :> 4)

NoReadings == <<>>

\* Bound: the samples have three times, or two of them the earliest.
FewSamples ==
  Init /\ \/ {sample[c].ts : c \in Calls} = Times
          \/ \E c \in Calls : /\ sample[c].ts = 3
                               /\ \A d \in Calls \ {c} : sample[d].ts = 1

FewSamplesSpec == FewSamples /\ [][Next]_vars

SomeWindows == {[since |-> 0, limit |-> 2], [since |-> 2, limit |-> -1]}
=============================================================================
