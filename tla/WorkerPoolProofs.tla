-------------------------- MODULE WorkerPoolProofs --------------------------
(***************************************************************************)
(* Machine-checked proofs about WorkerPool, for every number of workers,   *)
(* every queue size, every finite set of jobs and any number of goroutines *)
(* that call Stop; and, in the last part, about Server, the process that   *)
(* starts and stops the pool, for every choice of configured clients.      *)
(***************************************************************************)
EXTENDS Server, SequenceFacts, FiniteSetTheorems, TLAPS

(* The pool's size and capacity are positive whatever NewPool was given. *)
LEMMA SizesPositive == /\ NumWorkers \in Nat \ {0}
                       /\ QueueCap \in Nat \ {0}
BY PoolAssumption DEF NumWorkers, QueueCap

-----------------------------------------------------------------------------
(* Well-typedness is inductive together with RunnersHold: the job that     *)
(* WorkerFinish adds to finished is a job only because a running worker    *)
(* holds one.                                                              *)
LEMMA TypeInit == Init => TypeOK /\ RunnersHold
<1> SUFFICES ASSUME Init PROVE TypeOK /\ RunnersHold
  OBVIOUS
<1>1. <<>> \in Seq(Jobs) /\ Len(queue) <= QueueCap
  BY EmptySeq, SizesPositive DEF Init
<1>2. /\ worker \in [Workers -> WorkerStates]
      /\ holding \in [Workers -> Jobs \union {NoJob}]
      /\ call \in [Jobs -> CallStates]
      /\ stop \in [Stoppers -> StopStates]
      /\ processed \in Nat /\ dropped \in Nat
  BY DEF Init, WorkerStates, CallStates, StopStates
<1>3. TypeOK
  BY <1>1, <1>2 DEF Init, TypeOK
<1>4. RunnersHold
  BY DEF Init, RunnersHold
<1> QED BY <1>3, <1>4

(* Every step keeps both.                                                  *)
LEMMA TypeStep == TypeOK /\ RunnersHold /\ [Next]_vars => TypeOK' /\ RunnersHold'
<1> SUFFICES ASSUME TypeOK, RunnersHold, [Next]_vars
             PROVE  TypeOK' /\ RunnersHold'
  OBVIOUS
<1> USE SizesPositive, PoolAssumption
    DEF TypeOK, RunnersHold, WorkerStates, CallStates, StopStates
<1>1. CASE Start
  BY <1>1 DEF Start
<1>2. ASSUME NEW j \in Jobs, SubmitCall(j) PROVE TypeOK' /\ RunnersHold'
  BY <1>2 DEF SubmitCall
<1>3. ASSUME NEW j \in Jobs, Enqueue(j)
      PROVE  /\ queue' \in Seq(Jobs) /\ Len(queue') <= QueueCap
             /\ accepted' \in Seq(Jobs) /\ call' \in [Jobs -> CallStates]
  BY <1>3, AppendProperties, LenProperties DEF Enqueue
<1>4. ASSUME NEW j \in Jobs, SubmitEnqueue(j) PROVE TypeOK' /\ RunnersHold'
  BY <1>4, <1>3 DEF SubmitEnqueue
<1>5. ASSUME NEW j \in Jobs, SubmitReject(j) PROVE TypeOK' /\ RunnersHold'
  BY <1>5 DEF SubmitReject
<1>6. ASSUME NEW j \in Jobs, TrySubmitEnqueue(j) PROVE TypeOK' /\ RunnersHold'
  BY <1>6, <1>3 DEF TrySubmitEnqueue
<1>7. ASSUME NEW j \in Jobs, TrySubmitStopped(j) PROVE TypeOK' /\ RunnersHold'
  BY <1>7 DEF TrySubmitStopped
<1>8. ASSUME NEW j \in Jobs, TrySubmitDrop(j) PROVE TypeOK' /\ RunnersHold'
  BY <1>8 DEF TrySubmitDrop
<1>9. ASSUME NEW w \in Workers, WorkerTake(w) PROVE TypeOK' /\ RunnersHold'
  <2>1. /\ Head(queue) \in Jobs /\ Tail(queue) \in Seq(Jobs)
        /\ Len(Tail(queue)) = Len(queue) - 1 /\ Len(queue) \in Nat
    BY <1>9, HeadTailProperties, LenProperties DEF WorkerTake
  <2>2. begun' \in Seq(Jobs)
    BY <1>9, <2>1, AppendProperties DEF WorkerTake
  <2> QED BY <1>9, <2>1, <2>2 DEF WorkerTake
<1>10. ASSUME NEW w \in Workers, WorkerFinish(w) PROVE TypeOK' /\ RunnersHold'
  BY <1>10 DEF WorkerFinish
<1>11. ASSUME NEW w \in Workers, WorkerCount(w) PROVE TypeOK' /\ RunnersHold'
  BY <1>11 DEF WorkerCount
<1>12. ASSUME NEW w \in Workers, WorkerExit(w) PROVE TypeOK' /\ RunnersHold'
  BY <1>12 DEF WorkerExit
<1>13. ASSUME NEW s \in Stoppers, StopCancel(s) PROVE TypeOK' /\ RunnersHold'
  BY <1>13 DEF StopCancel
<1>14. ASSUME NEW s \in Stoppers, StopReturn(s) PROVE TypeOK' /\ RunnersHold'
  BY <1>14 DEF StopReturn
<1>15. CASE UNCHANGED vars
  BY <1>15 DEF vars
<1> QED
  BY <1>1, <1>2, <1>4, <1>5, <1>6, <1>7, <1>8, <1>9, <1>10, <1>11, <1>12,
     <1>13, <1>14, <1>15, Zenon DEF Next, CallReturn, WorkerStep

(* Every reachable state of the pool is well typed, and its channel never  *)
(* holds more than its capacity (TypeOK).                                  *)
THEOREM TypeCorrect == Spec => []TypeOK
<1>1. Spec => [](TypeOK /\ RunnersHold)
  BY TypeInit, TypeStep, PTL DEF Spec
<1> QED BY <1>1, PTL

-----------------------------------------------------------------------------
(* No step breaks the order of the jobs: only the channel's two ends move. *)
LEMMA FirstInFirstOutStep ==
  TypeOK /\ FirstInFirstOut /\ [Next]_vars => FirstInFirstOut'
<1> SUFFICES ASSUME TypeOK, FirstInFirstOut, [Next]_vars
             PROVE  FirstInFirstOut'
  OBVIOUS
<1> USE DEF FirstInFirstOut
<1>1. ASSUME NEW j \in Jobs, Enqueue(j), UNCHANGED begun
      PROVE  FirstInFirstOut'
  <2>1. begun \o Append(queue, j) = Append(begun \o queue, j)
    BY AppendToConcat DEF TypeOK
  <2> QED BY <1>1, <2>1 DEF Enqueue
<1>2. ASSUME NEW w \in Workers, WorkerTake(w)
      PROVE  FirstInFirstOut'
  <2>1. Append(begun, Head(queue)) \o Tail(queue) = begun \o queue
    BY <1>2, MoveHead DEF TypeOK, WorkerTake
  <2> QED BY <1>2, <2>1 DEF WorkerTake
<1>3. CASE UNCHANGED <<accepted, begun, queue>>
  BY <1>3
<1> QED
  BY <1>1, <1>2, <1>3
  DEF Next, CallReturn, WorkerStep, Start, SubmitCall, SubmitEnqueue,
      SubmitReject, TrySubmitEnqueue, TrySubmitStopped, TrySubmitDrop,
      WorkerFinish, WorkerCount, WorkerExit, StopCancel, StopReturn, vars

(* Workers begin the accepted jobs in the order of acceptance, without     *)
(* losing, repeating or overtaking one, for any number of workers          *)
(* (FirstInFirstOut).                                                      *)
THEOREM OrderPreserved == Spec => []FirstInFirstOut
<1>1. Init => FirstInFirstOut
  BY ConcatEmptySeq, EmptySeq DEF Init, FirstInFirstOut
<1>2. Spec => []TypeOK
  BY TypeCorrect
<1> QED BY <1>1, <1>2, FirstInFirstOutStep, PTL DEF Spec

-----------------------------------------------------------------------------
(* The jobs that have begun are accepted ones, and the job at the head of  *)
(* the queue is accepted and has not begun.                                *)
LEMMA BegunAndHead ==
  ASSUME TypeOK, FirstInFirstOut, CallsMatchChannel
  PROVE  /\ \A i \in 1 .. Len(begun) : call[begun[i]] = "accepted"
         /\ queue # <<>> => /\ Head(queue) \in Jobs
                           /\ call[Head(queue)] = "accepted"
                           /\ \A i \in 1 .. Len(begun) : begun[i] # Head(queue)
<1>1. /\ Len(begun) \in Nat /\ Len(queue) \in Nat
      /\ begun \in [1 .. Len(begun) -> Jobs]
  BY LenProperties DEF TypeOK
<1>2. /\ Len(accepted) = Len(begun) + Len(queue)
      /\ \A i \in 1 .. Len(begun) + Len(queue) : accepted[i] =
           IF i <= Len(begun) THEN begun[i] ELSE queue[i - Len(begun)]
  BY ConcatProperties DEF TypeOK, FirstInFirstOut
<1>3. \A i \in 1 .. Len(begun) : i \in 1 .. Len(accepted) /\ accepted[i] = begun[i]
  BY <1>1, <1>2
<1>4. \A i \in 1 .. Len(begun) : call[begun[i]] = "accepted"
  BY <1>1, <1>3 DEF CallsMatchChannel
<1>5. ASSUME queue # <<>>
      PROVE  /\ Head(queue) \in Jobs
             /\ call[Head(queue)] = "accepted"
             /\ \A i \in 1 .. Len(begun) : begun[i] # Head(queue)
  <2>1. Head(queue) \in Jobs /\ Head(queue) = queue[1] /\ Len(queue) >= 1
    BY <1>5, HeadTailProperties, EmptySeq, <1>1 DEF TypeOK
  <2>2. /\ Len(begun) + 1 \in 1 .. Len(accepted)
        /\ (Len(begun) + 1) - Len(begun) = 1
        /\ ~(Len(begun) + 1 <= Len(begun))
    BY <2>1, <1>1, <1>2
  <2>3. accepted[Len(begun) + 1] = Head(queue)
    BY <2>1, <2>2, <1>2
  <2>4. \A i \in 1 .. Len(begun) : i # Len(begun) + 1
    BY <1>1
  <2> QED BY <2>1, <2>2, <2>3, <2>4, <1>3 DEF CallsMatchChannel
<1> QED BY <1>4, <1>5

(* Only Enqueue touches the channel's input, and it takes a job whose call *)
(* had not been decided.                                                   *)
LEMMA CallsMatchChannelStep ==
  TypeOK /\ CallsMatchChannel /\ [Next]_vars => CallsMatchChannel'
<1> SUFFICES ASSUME TypeOK, CallsMatchChannel, [Next]_vars
             PROVE  CallsMatchChannel'
  OBVIOUS
<1>1. accepted \in Seq(Jobs) /\ Len(accepted) \in Nat /\ call \in [Jobs -> CallStates]
  BY LenProperties DEF TypeOK
<1>2. ASSUME NEW j \in Jobs, Enqueue(j), call[j] # "accepted"
      PROVE  CallsMatchChannel'
  <2>1. /\ Len(accepted') = Len(accepted) + 1
        /\ \A i \in 1 .. Len(accepted) : accepted'[i] = accepted[i]
        /\ accepted'[Len(accepted) + 1] = j
    BY <1>1, <1>2, AppendProperties DEF Enqueue
  <2>2. \A i \in 1 .. Len(accepted) : accepted[i] # j
    BY <1>2 DEF CallsMatchChannel
  <2>3. call' = [call EXCEPT ![j] = "accepted"]
    BY <1>2 DEF Enqueue
  <2>4. \A i, k \in 1 .. Len(accepted') : accepted'[i] = accepted'[k] => i = k
    BY <2>1, <2>2, <1>1 DEF CallsMatchChannel
  <2>5. ASSUME NEW h \in Jobs
        PROVE  (call'[h] = "accepted")
                 <=> (\E i \in 1 .. Len(accepted') : accepted'[i] = h)
    BY <2>1, <2>2, <2>3, <1>1 DEF CallsMatchChannel
  <2> QED BY <2>4, <2>5 DEF CallsMatchChannel
<1>3. ASSUME UNCHANGED accepted,
             \A j \in Jobs : (call'[j] = "accepted") <=> (call[j] = "accepted")
      PROVE  CallsMatchChannel'
  BY <1>3 DEF CallsMatchChannel
<1>4. ASSUME NEW j \in Jobs,
             SubmitEnqueue(j) \/ TrySubmitEnqueue(j)
      PROVE  CallsMatchChannel'
  BY <1>4, <1>2 DEF SubmitEnqueue, TrySubmitEnqueue
<1>5. ASSUME NEW j \in Jobs,
             SubmitCall(j) \/ SubmitReject(j) \/ TrySubmitStopped(j)
               \/ TrySubmitDrop(j)
      PROVE  CallsMatchChannel'
  BY <1>5, <1>3, <1>1
  DEF SubmitCall, SubmitReject, TrySubmitStopped, TrySubmitDrop
<1>6. CASE UNCHANGED <<accepted, call>>
  BY <1>6, <1>3
<1> QED
  BY <1>4, <1>5, <1>6
  DEF Next, CallReturn, WorkerStep, Start, WorkerTake, WorkerFinish,
      WorkerCount, WorkerExit, StopCancel, StopReturn, vars

(* A worker takes a job no worker has held before, and finishing it moves  *)
(* it from the jobs held to the jobs finished.                             *)
LEMMA HoldersMatchHistoryStep ==
  TypeOK /\ FirstInFirstOut /\ PoolInv /\ [Next]_vars => HoldersMatchHistory'
<1> SUFFICES ASSUME TypeOK, FirstInFirstOut, PoolInv, [Next]_vars
             PROVE  HoldersMatchHistory'
  OBVIOUS
<1> USE DEF PoolInv
<1>1. /\ holding \in [Workers -> Jobs \union {NoJob}]
      /\ worker \in [Workers -> WorkerStates]
      /\ begun \in Seq(Jobs) /\ Len(begun) \in Nat
      /\ finished \in SUBSET Jobs
      /\ NoJob \notin Jobs
  BY PoolAssumption, LenProperties DEF TypeOK
<1>2. ASSUME NEW w \in Workers, WorkerTake(w)
      PROVE  HoldersMatchHistory'
  <2> DEFINE h == Head(queue)
  <2>1. /\ h \in Jobs /\ \A i \in 1 .. Len(begun) : begun[i] # h
    BY <1>2, BegunAndHead DEF WorkerTake
  <2>2. /\ h \notin finished
        /\ \A v \in Workers : holding[v] # h
    BY <2>1 DEF HoldersMatchHistory
  <2>3. holding[w] = NoJob
    BY <1>2 DEF WorkerTake, RunnersHold
  <2>4. holding' = [holding EXCEPT ![w] = h] /\ finished' = finished
    BY <1>2 DEF WorkerTake
  <2>5. /\ Len(begun') = Len(begun) + 1
        /\ \A i \in 1 .. Len(begun) : begun'[i] = begun[i]
        /\ begun'[Len(begun) + 1] = h
    BY <1>2, <2>1, <1>1, AppendProperties DEF WorkerTake
  <2> HIDE DEF h
  <2>6. ASSUME NEW v \in Workers, NEW u \in Workers,
               holding'[v] = holding'[u], holding'[v] # NoJob
        PROVE  v = u
    BY <2>2, <2>4, <2>6, <1>1 DEF HoldersMatchHistory
  <2>7. \A v \in Workers : holding'[v] \notin finished'
    BY <2>2, <2>4, <1>1 DEF HoldersMatchHistory
  <2>8. ASSUME NEW j \in Jobs
        PROVE  (\E i \in 1 .. Len(begun') : begun'[i] = j)
                 <=> (j \in finished' \/ \E v \in Workers : holding'[v] = j)
    <3>1. (\E i \in 1 .. Len(begun') : begun'[i] = j)
            <=> (j = h \/ \E i \in 1 .. Len(begun) : begun[i] = j)
      BY <2>5, <1>1
    <3>2. (\E v \in Workers : holding'[v] = j)
            <=> (j = h \/ \E v \in Workers : holding[v] = j)
      BY <2>3, <2>4, <1>1
    <3> QED BY <3>1, <3>2, <2>4 DEF HoldersMatchHistory
  <2> QED BY <2>6, <2>7, <2>8 DEF HoldersMatchHistory
<1>3. ASSUME NEW w \in Workers, WorkerFinish(w)
      PROVE  HoldersMatchHistory'
  <2>1. /\ holding[w] \in Jobs
        /\ holding' = [holding EXCEPT ![w] = NoJob]
        /\ finished' = finished \union {holding[w]}
        /\ begun' = begun
    BY <1>3, <1>1 DEF WorkerFinish, RunnersHold
  <2>2. \A v \in Workers : v # w => holding[v] # holding[w]
    BY <2>1, <1>1 DEF HoldersMatchHistory
  <2>3. \A v \in Workers : holding'[v] \notin finished'
    BY <2>1, <2>2, <1>1 DEF HoldersMatchHistory
  <2>4. \A v, u \in Workers :
          (holding'[v] = holding'[u] /\ holding'[v] # NoJob) => v = u
    BY <2>1, <1>1 DEF HoldersMatchHistory
  <2>5. ASSUME NEW j \in Jobs
        PROVE  (j \in finished' \/ \E v \in Workers : holding'[v] = j)
                 <=> (j \in finished \/ \E v \in Workers : holding[v] = j)
    BY <2>1, <2>2, <1>1
  <2> QED BY <2>1, <2>3, <2>4, <2>5 DEF HoldersMatchHistory
<1>4. CASE UNCHANGED <<holding, finished, begun>>
  BY <1>4 DEF HoldersMatchHistory
<1> QED
  BY <1>2, <1>3, <1>4
  DEF Next, CallReturn, WorkerStep, Start, SubmitCall, SubmitEnqueue,
      SubmitReject, TrySubmitEnqueue, TrySubmitStopped, TrySubmitDrop,
      Enqueue, WorkerCount, WorkerExit, StopCancel, StopReturn, vars

(* Workers never leave "exited", and Stop only returns once all are there. *)
LEMMA StopBehindWorkersStep ==
  TypeOK /\ PoolInv /\ [Next]_vars => StopBehindWorkers'
<1> SUFFICES ASSUME TypeOK, PoolInv, [Next]_vars
             PROVE  StopBehindWorkers'
  OBVIOUS
<1> USE DEF PoolInv, StopBehindWorkers, StopReturned
<1>1. /\ stop \in [Stoppers -> StopStates]
      /\ worker \in [Workers -> WorkerStates]
  BY DEF TypeOK
<1>2. CASE Start
  <2>1. \A s \in Stoppers : stop[s] = "idle"
    BY <1>2 DEF Start
  <2> QED BY <1>2, <2>1 DEF Start
<1>3. ASSUME NEW w \in Workers,
             WorkerTake(w) \/ WorkerFinish(w) \/ WorkerCount(w) \/ WorkerExit(w)
      PROVE  StopBehindWorkers'
  BY <1>3, <1>1 DEF WorkerTake, WorkerFinish, WorkerCount, WorkerExit
<1>4. ASSUME NEW s \in Stoppers, StopCancel(s)
      PROVE  StopBehindWorkers'
  BY <1>4, <1>1 DEF StopCancel
<1>5. ASSUME NEW s \in Stoppers, StopReturn(s)
      PROVE  StopBehindWorkers'
  BY <1>5, <1>1 DEF StopReturn
<1>6. CASE UNCHANGED <<started, worker, stop>>
  BY <1>6
<1> QED
  BY <1>2, <1>3, <1>4, <1>5, <1>6
  DEF Next, CallReturn, WorkerStep, SubmitCall, SubmitEnqueue,
      SubmitReject, TrySubmitEnqueue, TrySubmitStopped, TrySubmitDrop, vars

(* Taking a job makes a worker busy, counting it makes the worker idle,    *)
(* and no other step changes either side of the count.                     *)
LEMMA CountMatchesBusyStep ==
  TypeOK /\ PoolInv /\ [Next]_vars => CountMatchesBusy'
<1> SUFFICES ASSUME TypeOK, PoolInv, [Next]_vars
             PROVE  CountMatchesBusy'
  OBVIOUS
<1> USE DEF PoolInv
<1>1. /\ worker \in [Workers -> WorkerStates]
      /\ begun \in Seq(Jobs) /\ Len(begun) \in Nat
      /\ processed \in Nat
  BY LenProperties DEF TypeOK
<1>2. IsFiniteSet(Busy) /\ Cardinality(Busy) \in Nat
  <2>1. IsFiniteSet(Workers)
    BY SizesPositive, FS_Interval DEF Workers
  <2>2. Busy \in SUBSET Workers
    BY DEF Busy
  <2>3. IsFiniteSet(Busy)
    BY <2>1, <2>2, FS_Subset
  <2> QED BY <2>3, FS_CardinalityType
<1>3. ASSUME NEW w \in Workers, WorkerTake(w)
      PROVE  CountMatchesBusy'
  <2>1. Busy' = Busy \union {w} /\ w \notin Busy
    BY <1>3, <1>1 DEF WorkerTake, Busy
  <2>2. Cardinality(Busy') = Cardinality(Busy) + 1
    BY <2>1, <1>2, FS_AddElement
  <2>3. Len(begun') = Len(begun) + 1
    <3>1. Head(queue) \in Jobs
      BY <1>3, HeadTailProperties DEF WorkerTake, TypeOK
    <3> QED BY <3>1, <1>1, <1>3, AppendProperties DEF WorkerTake
  <2>4. processed' = processed
    BY <1>3 DEF WorkerTake
  <2> QED BY <2>2, <2>3, <2>4, <1>1, <1>2 DEF CountMatchesBusy
<1>4. ASSUME NEW w \in Workers, WorkerCount(w)
      PROVE  CountMatchesBusy'
  <2>1. Busy' = Busy \ {w} /\ w \in Busy
    BY <1>4, <1>1 DEF WorkerCount, Busy
  <2>2. Cardinality(Busy') = Cardinality(Busy) - 1
    BY <2>1, <1>2, FS_RemoveElement
  <2>3. processed' = processed + 1 /\ begun' = begun
    BY <1>4 DEF WorkerCount
  <2> QED BY <2>2, <2>3, <1>1, <1>2 DEF CountMatchesBusy
<1>5. ASSUME UNCHANGED <<begun, processed>>, Busy' = Busy
      PROVE  CountMatchesBusy'
  BY <1>5 DEF CountMatchesBusy
<1>6. CASE Start
  <2>1. Busy' = Busy
    BY <1>6, <1>1 DEF Start, Busy, RunnersHold
  <2> QED BY <2>1, <1>5, <1>6 DEF Start
<1>7. ASSUME NEW w \in Workers, WorkerFinish(w) \/ WorkerExit(w)
      PROVE  CountMatchesBusy'
  <2>1. Busy' = Busy
    BY <1>7, <1>1 DEF WorkerFinish, WorkerExit, Busy
  <2> QED BY <2>1, <1>5, <1>7 DEF WorkerFinish, WorkerExit
<1>8. CASE UNCHANGED <<begun, processed, worker>>
  BY <1>8, <1>5 DEF Busy
<1> QED
  BY <1>3, <1>4, <1>6, <1>7, <1>8
  DEF Next, CallReturn, WorkerStep, SubmitCall, SubmitEnqueue, Enqueue,
      SubmitReject, TrySubmitEnqueue, TrySubmitStopped, TrySubmitDrop,
      StopCancel, StopReturn, vars

(* The bookkeeping of the pool agrees with what its callers have been told *)
(* in every reachable state (PoolInv).                                     *)
THEOREM BookkeepingAgrees == Spec => []PoolInv
<1>1. Init => PoolInv
  <2> SUFFICES ASSUME Init PROVE PoolInv
    OBVIOUS
  <2>1. Len(<<>>) = 0 /\ 1 .. 0 = {}
    BY EmptySeq
  <2>2. CallsMatchChannel
    BY <2>1 DEF Init, CallsMatchChannel
  <2>3. RunnersHold
    BY TypeInit
  <2>4. HoldersMatchHistory
    BY <2>1, PoolAssumption DEF Init, HoldersMatchHistory
  <2>5. StopBehindWorkers
    BY DEF Init, StopBehindWorkers, StopReturned
  <2>6. Busy = {}
    BY DEF Init, Busy
  <2>7. CountMatchesBusy
    BY <2>1, <2>6, FS_EmptySet DEF Init, CountMatchesBusy
  <2> QED BY <2>2, <2>3, <2>4, <2>5, <2>7 DEF PoolInv
<1>2. TypeOK /\ FirstInFirstOut /\ PoolInv /\ [Next]_vars => PoolInv'
  BY TypeStep, CallsMatchChannelStep, HoldersMatchHistoryStep,
     StopBehindWorkersStep, CountMatchesBusyStep, Zenon DEF PoolInv
<1> QED BY <1>1, <1>2, TypeCorrect, OrderPreserved, PTL DEF Spec

(* When Stop has returned, no worker is left, every job that had begun has *)
(* finished and has been counted (StopDrainsInFlight).                     *)
THEOREM StopDrains == Spec => []StopDrainsInFlight
<1>1. TypeOK /\ PoolInv => StopDrainsInFlight
  <2> SUFFICES ASSUME TypeOK, PoolInv, StopReturned
               PROVE  /\ \A w \in Workers : worker[w] = "exited"
                      /\ finished = {begun[i] : i \in DOMAIN begun}
                      /\ processed = Len(begun)
    BY DEF StopDrainsInFlight
  <2>1. \A w \in Workers : worker[w] = "exited"
    BY DEF PoolInv, StopBehindWorkers
  <2>2. \A w \in Workers : holding[w] = NoJob
    BY <2>1 DEF PoolInv, RunnersHold
  <2>3. DOMAIN begun = 1 .. Len(begun) /\ Len(begun) \in Nat
        /\ begun \in [1 .. Len(begun) -> Jobs]
    BY LenProperties DEF TypeOK
  <2>4. \A j \in Jobs : (\E i \in 1 .. Len(begun) : begun[i] = j) <=> j \in finished
    BY <2>2, PoolAssumption DEF PoolInv, HoldersMatchHistory
  <2>5. finished = {begun[i] : i \in DOMAIN begun}
    BY <2>3, <2>4 DEF TypeOK
  <2>6. Busy = {}
    BY <2>1 DEF Busy
  <2>7. processed = Len(begun)
    BY <2>3, <2>6, FS_EmptySet DEF PoolInv, CountMatchesBusy, TypeOK
  <2> QED BY <2>1, <2>5, <2>7
<1> QED BY <1>1, TypeCorrect, BookkeepingAgrees, PTL

-----------------------------------------------------------------------------
(* The refinement of JobExecutor.                                          *)

(* What StatusOf yields, case by case.                                     *)
LEMMA StatusCases ==
  ASSUME TypeOK, NEW j \in Jobs
  PROVE  /\ call[j] \in {"new", "blocked"} => StatusOf(j) = "new"
         /\ call[j] \in {"rejected", "refused"} => StatusOf(j) = "refused"
         /\ call[j] = "accepted" /\ j \in finished => StatusOf(j) = "done"
         /\ call[j] = "accepted" /\ j \notin finished
              /\ (\E w \in Workers : holding[w] = j) => StatusOf(j) = "running"
         /\ call[j] = "accepted" /\ j \notin finished
              /\ (\A w \in Workers : holding[w] # j)
              => StatusOf(j) = IF StopReturned THEN "lost" ELSE "pending"
BY DEF StatusOf

(* A step that changes the status of one job only is a Move of that job.   *)
LEMMA OneJobMoves ==
  ASSUME NEW k \in Jobs, NEW from, NEW to,
         StatusOf(k) = from, StatusOf(k)' = to,
         \A j \in Jobs \ {k} : StatusOf(j)' = StatusOf(j),
         UNCHANGED StopReturned
  PROVE  Executor!Move(k, from, to)
BY DEF Executor!Move

(* A job that has not been accepted has neither begun nor finished.        *)
LEMMA UndecidedNotBegun ==
  ASSUME TypeOK, FirstInFirstOut, PoolInv,
         NEW j \in Jobs, call[j] # "accepted"
  PROVE  j \notin finished /\ \A w \in Workers : holding[w] # j
<1>1. ~ \E i \in 1 .. Len(begun) : begun[i] = j
  BY BegunAndHead DEF PoolInv
<1> QED BY <1>1 DEF PoolInv, HoldersMatchHistory

(* Every step of the pool is a step of JobExecutor or leaves what callers  *)
(* see unchanged.                                                          *)
LEMMA StepImplements ==
  ASSUME TypeOK, TypeOK', FirstInFirstOut, PoolInv, [Next]_vars
  PROVE  [Executor!Next]_(Executor!vars)
<1> DEFINE same(j) == StatusOf(j)' = StatusOf(j)
           Stutter == UNCHANGED Executor!vars
<1>1. ASSUME UNCHANGED StopReturned, \A j \in Jobs : same(j)
      PROVE  Stutter
  BY <1>1 DEF Executor!vars
<1>2. ASSUME NEW k \in Jobs, UNCHANGED <<finished, holding, StopReturned>>,
             \A j \in Jobs \ {k} : call'[j] = call[j]
      PROVE  \A j \in Jobs \ {k} : same(j)
  BY <1>2 DEF StatusOf
<1>3. ASSUME NEW k \in Jobs, Enqueue(k), call[k] \in {"new", "blocked"},
             UNCHANGED <<finished, holding, stop>>
      PROVE  Executor!Accept(k) \/ Executor!AcceptTooLate(k)
  <2>1. k \notin finished' /\ \A w \in Workers : holding'[w] # k
    BY <1>3, UndecidedNotBegun
  <2>2. call' = [call EXCEPT ![k] = "accepted"] /\ call \in [Jobs -> CallStates]
    BY <1>3 DEF Enqueue, TypeOK
  <2>3. StatusOf(k) = "new"
    BY <1>3, StatusCases
  <2>4. UNCHANGED StopReturned
    BY <1>3 DEF StopReturned
  <2>5. \A j \in Jobs \ {k} : same(j)
    BY <1>2, <1>3, <2>2, <2>4
  <2>6. CASE StopReturned
    <3>1. StatusOf(k)' = "lost"
      BY <2>1, <2>2, <2>4, <2>6 DEF StatusOf
    <3> QED BY <2>3, <2>4, <2>5, <2>6, <3>1, OneJobMoves DEF Executor!AcceptTooLate
  <2>7. CASE ~StopReturned
    <3>1. StatusOf(k)' = "pending"
      BY <2>1, <2>2, <2>4, <2>7 DEF StatusOf
    <3> QED BY <2>3, <2>4, <2>5, <2>7, <3>1, OneJobMoves DEF Executor!Accept
  <2> QED BY <2>6, <2>7
<1>4. ASSUME NEW k \in Jobs, NEW out \in {"rejected", "refused"},
             call[k] \in {"new", "blocked"},
             call' = [call EXCEPT ![k] = out],
             UNCHANGED <<finished, holding, stop>>
      PROVE  Executor!Refuse(k)
  <2>1. StatusOf(k) = "new"
    BY <1>4, StatusCases
  <2>2. StatusOf(k)' = "refused"
    BY <1>4 DEF StatusOf, TypeOK
  <2>3. UNCHANGED StopReturned
    BY <1>4 DEF StopReturned
  <2>4. \A j \in Jobs \ {k} : same(j)
    BY <1>2, <1>4, <2>3 DEF TypeOK
  <2> QED BY <2>1, <2>2, <2>3, <2>4, OneJobMoves DEF Executor!Refuse
<1>5. ASSUME NEW k \in Jobs, SubmitCall(k)
      PROVE  Stutter
  <2>1. call[k] = "new" /\ call'[k] = "blocked"
        /\ UNCHANGED <<finished, holding, stop>>
        /\ \A j \in Jobs \ {k} : call'[j] = call[j]
    BY <1>5 DEF SubmitCall, TypeOK
  <2>2. UNCHANGED StopReturned
    BY <2>1 DEF StopReturned
  <2>3. \A j \in Jobs \ {k} : same(j)
    BY <1>2, <2>1, <2>2
  <2>4. same(k)
    BY <2>1 DEF StatusOf
  <2> QED BY <1>1, <2>2, <2>3, <2>4
<1>6. ASSUME NEW w \in Workers, WorkerTake(w), NEW k \in Jobs, k = Head(queue)
      PROVE  Executor!Begin(k)
  <2>1. call[k] = "accepted" /\ \A i \in 1 .. Len(begun) : begun[i] # k
    BY <1>6, BegunAndHead DEF WorkerTake, PoolInv
  <2>2. k \notin finished /\ \A v \in Workers : holding[v] # k
    BY <2>1 DEF PoolInv, HoldersMatchHistory
  <2>3. /\ holding' = [holding EXCEPT ![w] = k] /\ holding[w] = NoJob
        /\ holding \in [Workers -> Jobs \union {NoJob}]
        /\ UNCHANGED <<finished, call, stop>>
    BY <1>6 DEF WorkerTake, PoolInv, RunnersHold, TypeOK
  <2>4. ~StopReturned /\ UNCHANGED StopReturned
    BY <1>6, <2>3 DEF WorkerTake, PoolInv, StopBehindWorkers, StopReturned
  <2>5. StatusOf(k) = "pending"
    BY <2>1, <2>2, <2>4, StatusCases
  <2>6. StatusOf(k)' = "running"
    BY <2>1, <2>2, <2>3 DEF StatusOf
  <2>7. ASSUME NEW j \in Jobs \ {k} PROVE same(j)
    <3>1. (\E v \in Workers : holding'[v] = j) <=> (\E v \in Workers : holding[v] = j)
      BY <2>3, PoolAssumption
    <3> QED BY <2>3, <2>4, <3>1 DEF StatusOf
  <2>8. Executor!Move(k, "pending", "running")
    BY <2>4, <2>5, <2>6, <2>7, OneJobMoves
  <2> QED BY <2>4, <2>8 DEF Executor!Begin
<1>7. ASSUME NEW w \in Workers, WorkerFinish(w), NEW k \in Jobs, k = holding[w]
      PROVE  Executor!Finish(k)
  <2>1. k \notin finished /\ \A v \in Workers \ {w} : holding[v] # k
    BY <1>7, PoolAssumption DEF PoolInv, HoldersMatchHistory
  <2>2. call[k] = "accepted"
    BY <1>7, UndecidedNotBegun
  <2>3. /\ holding' = [holding EXCEPT ![w] = NoJob]
        /\ holding \in [Workers -> Jobs \union {NoJob}]
        /\ finished' = finished \union {k}
        /\ UNCHANGED <<call, stop>>
    BY <1>7 DEF WorkerFinish, TypeOK
  <2>4. ~StopReturned /\ UNCHANGED StopReturned
    BY <1>7, <2>3 DEF WorkerFinish, PoolInv, StopBehindWorkers, StopReturned
  <2>5. StatusOf(k) = "running"
    BY <1>7, <2>1, <2>2, StatusCases
  <2>6. StatusOf(k)' = "done"
    BY <2>2, <2>3 DEF StatusOf
  <2>7. ASSUME NEW j \in Jobs \ {k} PROVE same(j)
    <3>1. (\E v \in Workers : holding'[v] = j) <=> (\E v \in Workers : holding[v] = j)
      BY <1>7, <2>3, PoolAssumption
    <3> QED BY <2>3, <2>4, <3>1 DEF StatusOf
  <2>8. Executor!Move(k, "running", "done")
    BY <2>4, <2>5, <2>6, <2>7, OneJobMoves
  <2> QED BY <2>4, <2>8 DEF Executor!Finish
<1>8. ASSUME UNCHANGED <<call, finished, holding, StopReturned>>
      PROVE  \A j \in Jobs : same(j)
  BY <1>8 DEF StatusOf
<1>9. ASSUME NEW s \in Stoppers, StopReturn(s)
      PROVE  Executor!Close
  <2>1. \A w \in Workers : holding[w] = NoJob
    BY <1>9 DEF StopReturn, PoolInv, RunnersHold
  <2>2. \A j \in Jobs : StatusOf(j) # "running"
    <3> SUFFICES ASSUME NEW j \in Jobs PROVE StatusOf(j) # "running"
      OBVIOUS
    <3>1. \A w \in Workers : holding[w] # j
      BY <2>1, PoolAssumption
    <3>2. call[j] \in CallStates
      BY DEF TypeOK
    <3> QED BY <3>1, <3>2, StatusCases DEF CallStates
  <2>3. StopReturned'
    BY <1>9 DEF StopReturn, StopReturned, TypeOK
  <2>4. ASSUME NEW j \in Jobs
        PROVE  StatusOf(j)' = IF StatusOf(j) = "pending" THEN "lost" ELSE StatusOf(j)
    <3>1. UNCHANGED <<call, finished, holding>> /\ call[j] \in CallStates
      BY <1>9 DEF StopReturn, TypeOK
    <3>2. CASE call[j] # "accepted"
      BY <3>1, <3>2 DEF StatusOf, CallStates
    <3>3. CASE call[j] = "accepted" /\ j \in finished
      BY <3>1, <3>3 DEF StatusOf
    <3>4. CASE call[j] = "accepted" /\ j \notin finished
      <4>1. \A w \in Workers : holding[w] # j
        BY <2>1, PoolAssumption
      <4>2. StatusOf(j) \in {"pending", "lost"}
        BY <3>4, <4>1 DEF StatusOf
      <4>3. StatusOf(j)' = "lost"
        BY <2>3, <3>1, <3>4, <4>1 DEF StatusOf
      <4> QED BY <4>2, <4>3
    <3> QED BY <3>2, <3>3, <3>4
  <2>5. [j \in Jobs |-> StatusOf(j)]'
          = [j \in Jobs |-> IF [i \in Jobs |-> StatusOf(i)][j] = "pending"
                             THEN "lost" ELSE [i \in Jobs |-> StatusOf(i)][j]]
    BY <2>4
  <2> QED BY <2>2, <2>3, <2>5 DEF Executor!Close
<1>10. ASSUME UNCHANGED <<call, finished, holding, stop>>
       PROVE  Stutter
  BY <1>1, <1>8, <1>10 DEF StopReturned
<1>11. ASSUME NEW s \in Stoppers, StopCancel(s)
       PROVE  Stutter
  <2>1. UNCHANGED StopReturned
    BY <1>11 DEF StopCancel, StopReturned, TypeOK
  <2>2. \A j \in Jobs : same(j)
    BY <1>8, <1>11, <2>1 DEF StopCancel
  <2> QED BY <1>1, <2>1, <2>2
<1>12. ASSUME NEW j \in Jobs,
              SubmitEnqueue(j) \/ TrySubmitEnqueue(j)
       PROVE  Executor!Accept(j) \/ Executor!AcceptTooLate(j)
  BY <1>12, <1>3 DEF SubmitEnqueue, TrySubmitEnqueue
<1>13. ASSUME NEW j \in Jobs,
              SubmitReject(j) \/ TrySubmitStopped(j) \/ TrySubmitDrop(j)
       PROVE  Executor!Refuse(j)
  BY <1>13, <1>4 DEF SubmitReject, TrySubmitStopped, TrySubmitDrop
<1>14. ASSUME NEW w \in Workers, WorkerTake(w)
       PROVE  Head(queue) \in Jobs
  BY <1>14, BegunAndHead DEF WorkerTake, PoolInv
<1>15. ASSUME NEW w \in Workers, WorkerFinish(w)
       PROVE  holding[w] \in Jobs
  BY <1>15 DEF WorkerFinish, PoolInv, RunnersHold, TypeOK
<1> HIDE DEF Stutter
<1>16. ASSUME Start \/ (\E w \in Workers : WorkerCount(w) \/ WorkerExit(w))
                 \/ UNCHANGED vars
       PROVE  Stutter
  BY <1>16, <1>10 DEF Start, WorkerCount, WorkerExit, vars
<1>17. Executor!Next \/ Stutter
  BY <1>5, <1>6, <1>7, <1>9, <1>11, <1>12, <1>13, <1>14, <1>15, <1>16, Zenon
  DEF Next, CallReturn, WorkerStep, Executor!Next
<1> QED BY <1>17 DEF Stutter

(* The worker pool implements JobExecutor (ImplementsExecutor): every job  *)
(* is decided once and runs at most once, only if its submission returned  *)
(* true, and nothing begins or is running once a Stop has returned.        *)
THEOREM PoolImplementsExecutor == Spec => ImplementsExecutor
<1>1. Init => Executor!Init
  <2> SUFFICES ASSUME Init PROVE Executor!Init
    OBVIOUS
  <2>1. \A j \in Jobs : StatusOf(j) = "new"
    BY DEF Init, StatusOf
  <2>2. StopReturned = FALSE
    BY DEF Init, StopReturned
  <2> QED BY <2>1, <2>2 DEF Executor!Init
<1>2. Spec => [](TypeOK /\ FirstInFirstOut /\ PoolInv)
  BY TypeCorrect, OrderPreserved, BookkeepingAgrees, PTL
<1>3. TypeOK /\ TypeOK' /\ FirstInFirstOut /\ PoolInv /\ [Next]_vars
        => [Executor!Next]_(Executor!vars)
  BY StepImplements
<1> QED BY <1>1, <1>2, <1>3, PTL DEF Spec, ImplementsExecutor, Executor!Spec

-----------------------------------------------------------------------------
(* The server process over the pool.                                       *)

(* Each step of the server takes one of the pool's steps or leaves the     *)
(* pool alone.                                                             *)
LEMMA ServerStepIsPoolStep == [ServerNext]_allVars => [Next]_vars
<1> SUFFICES ASSUME [ServerNext]_allVars PROVE [Next]_vars
  OBVIOUS
<1>0. Main \in Stoppers /\ HttpJobs \subseteq Jobs
  BY ServerAssumption
<1>1. CASE StartUp \/ Signal \/ MainStep
  BY <1>0, <1>1 DEF StartUp, Signal, MainStep, ShutdownReturns, DeferredClose, DeferredStop,
                    Exit, Next
<1>2. ASSUME NEW j \in HttpJobs, Request(j) \/ Answer(j) PROVE [Next]_vars
  BY <1>0, <1>2 DEF Request, Answer, Next
<1>3. ASSUME NEW j \in Jobs, Message(j) \/ Submitted(j) PROVE [Next]_vars
  BY <1>3 DEF Message, Submitted, Next
<1>4. ASSUME NEW w \in Workers, JobStep(w) PROVE [Next]_vars
  BY <1>4 DEF JobStep, JobStore, JobPublish, JobReturn, WorkerLoop, WorkerStep, Next
<1>5. CASE UNCHANGED allVars
  BY <1>5 DEF allVars
<1> QED BY <1>1, <1>2, <1>3, <1>4, <1>5 DEF ServerNext

(* main, its handlers and its jobs use the pool only through its own       *)
(* operations: a run of the server is a run of the pool, and what has been *)
(* proved of the pool holds in it.                                         *)
THEOREM ServerRunsPool == ServerSpec => Spec
<1>1. ServerInit => Init
  BY DEF ServerInit
<1> QED BY <1>1, ServerStepIsPoolStep, PTL DEF ServerSpec, Spec

\* The deferred call is still to come.
Has(s, x) == \E i \in 1 .. Len(s) : s[i] = x

\* Stopping the pool comes before closing the store, and both before the exit.
PoolFirst(s) ==
  \A i, k \in 1 .. Len(s) : (s[i] = "pool" /\ s[k] \in {"mongo", "cancel"}) => i < k

\* The order of main's deferred calls, and what it means for a job.
ShutdownOrder ==
  /\ main = "starting" => \A w \in Workers : worker[w] = "unborn"
  /\ main \in {"serving", "draining", "deferred"} => PoolFirst(defers) /\ Has(defers, "cancel")
  /\ main = "exited" => defers = <<>>
  /\ (main # "starting" /\ ~Has(defers, "pool")) => stop[Main] = "returned"
  /\ (main # "starting" /\ Has(defers, "pool")) => open \intersect {"mongo"} = Configured \intersect {"mongo"}

\* What has become of a job when its function returns.
JobsAreStored ==
  /\ JobsFindTheStoreOpen
  /\ \A j \in Jobs : published[j] # "no" => stored[j] = "yes"
  /\ \A j \in finished : stored[j] = "yes"

DeferNames == {"mqtt", "redis", "pool", "mongo", "cancel"}

(* Adding deferred calls that come later keeps the order.                  *)
LEMMA LaterDefers ==
  ASSUME NEW s \in Seq(DeferNames), NEW t \in Seq(DeferNames), PoolFirst(s), ~Has(t, "pool")
  PROVE  /\ s \o t \in Seq(DeferNames) /\ PoolFirst(s \o t)
         /\ \A x : Has(s, x) \/ Has(t, x) => Has(s \o t, x)
<1> DEFINE u == s \o t
<1>1. /\ u \in Seq(DeferNames) /\ Len(s) \in Nat /\ Len(t) \in Nat
      /\ Len(u) = Len(s) + Len(t)
      /\ \A i \in 1 .. Len(s) + Len(t) : u[i] = IF i <= Len(s) THEN s[i] ELSE t[i - Len(s)]
  BY ConcatProperties, LenProperties
<1> HIDE DEF u
<1>2. ASSUME NEW i \in 1 .. Len(u), NEW k \in 1 .. Len(u), u[i] = "pool",
             u[k] \in {"mongo", "cancel"}
      PROVE  i < k
  <2>1. i <= Len(s)
    <3> SUFFICES ASSUME i > Len(s) PROVE FALSE
      BY <1>1
    <3>1. i - Len(s) \in 1 .. Len(t) /\ t[i - Len(s)] = "pool"
      BY <1>1, <1>2
    <3> QED BY <3>1 DEF Has
  <2>2. CASE k <= Len(s)
    <3>1. i \in 1 .. Len(s) /\ k \in 1 .. Len(s) /\ s[i] = "pool" /\ s[k] \in {"mongo", "cancel"}
      BY <1>1, <1>2, <2>1, <2>2
    <3> QED BY <3>1 DEF PoolFirst
  <2>3. CASE k > Len(s)
    BY <1>1, <2>1, <2>3
  <2> QED BY <1>1, <2>2, <2>3
<1>3. ASSUME NEW x, Has(s, x) PROVE Has(u, x)
  <2>1. PICK i \in 1 .. Len(s) : s[i] = x
    BY <1>3 DEF Has
  <2>2. i \in 1 .. Len(u) /\ u[i] = x
    BY <1>1, <2>1
  <2> QED BY <2>2 DEF Has
<1>4. ASSUME NEW x, Has(t, x) PROVE Has(u, x)
  <2>1. PICK i \in 1 .. Len(t) : t[i] = x
    BY <1>4 DEF Has
  <2>2. Len(s) + i \in 1 .. Len(u) /\ u[Len(s) + i] = x
    <3>1. Len(s) + i \in 1 .. Len(s) + Len(t) /\ ~(Len(s) + i <= Len(s)) /\ (Len(s) + i) - Len(s) = i
      BY <1>1, <2>1
    <3> QED BY <1>1, <2>1, <3>1
  <2> QED BY <2>2 DEF Has
<1>5. PoolFirst(u)
  BY <1>2 DEF PoolFirst
<1> QED BY <1>1, <1>3, <1>4, <1>5 DEF u

(* Running the first of the deferred calls takes only that one away.       *)
LEMMA DefersRun ==
  ASSUME NEW s \in Seq(DeferNames), s # <<>>
  PROVE  /\ Tail(s) \in Seq(DeferNames)
         /\ PoolFirst(s) => PoolFirst(Tail(s))
         /\ \A x : Has(s, x) /\ Head(s) # x => Has(Tail(s), x)
         /\ \A x : Has(Tail(s), x) => Has(s, x)
         /\ PoolFirst(s) /\ Head(s) \in {"mongo", "cancel"} => ~Has(s, "pool")
<1> DEFINE t == Tail(s)
<1>1. /\ t \in Seq(DeferNames) /\ Len(s) \in Nat \ {0} /\ Len(t) = Len(s) - 1
      /\ Head(s) = s[1] /\ \A i \in 1 .. Len(t) : t[i] = s[i + 1]
  BY HeadTailProperties, EmptySeq, LenProperties
<1> HIDE DEF t
<1>2. ASSUME PoolFirst(s) PROVE PoolFirst(t)
  <2> SUFFICES ASSUME NEW i \in 1 .. Len(t), NEW k \in 1 .. Len(t), t[i] = "pool",
                      t[k] \in {"mongo", "cancel"}
               PROVE  i < k
    BY DEF PoolFirst
  <2>1. i + 1 \in 1 .. Len(s) /\ k + 1 \in 1 .. Len(s)
    BY <1>1
  <2>2. i + 1 < k + 1
    BY <1>1, <1>2, <2>1 DEF PoolFirst
  <2> QED BY <2>2
<1>3. ASSUME NEW x, Has(s, x), Head(s) # x PROVE Has(t, x)
  <2>1. PICK i \in 1 .. Len(s) : s[i] = x
    BY <1>3 DEF Has
  <2>2. i # 1
    BY <1>1, <1>3, <2>1
  <2>3. i - 1 \in 1 .. Len(t) /\ (i - 1) + 1 = i
    BY <1>1, <2>2
  <2>4. t[i - 1] = x
    BY <1>1, <2>1, <2>3
  <2> QED BY <2>3, <2>4 DEF Has
<1>4. ASSUME NEW x, Has(t, x) PROVE Has(s, x)
  <2>1. PICK i \in 1 .. Len(t) : t[i] = x
    BY <1>4 DEF Has
  <2>2. i + 1 \in 1 .. Len(s) /\ s[i + 1] = x
    BY <1>1, <2>1
  <2> QED BY <2>2 DEF Has
<1>5. ASSUME PoolFirst(s), Head(s) \in {"mongo", "cancel"} PROVE ~Has(s, "pool")
  <2> SUFFICES ASSUME NEW i \in 1 .. Len(s), s[i] = "pool" PROVE FALSE
    BY DEF Has
  <2>1. 1 \in 1 .. Len(s) /\ s[1] \in {"mongo", "cancel"}
    BY <1>1, <1>5
  <2>2. i < 1
    BY <1>5, <2>1 DEF PoolFirst
  <2> QED BY <2>2
<1> QED BY <1>1, <1>2, <1>3, <1>4, <1>5 DEF t

(* main's defer statements stop the pool before they close the store.      *)
LEMMA DefersOrder ==
  /\ Defers \in Seq(DeferNames) /\ PoolFirst(Defers)
  /\ Has(Defers, "pool") /\ Has(Defers, "cancel")
<1>1. ASSUME NEW x \in DeferNames \ {"pool"}
      PROVE  /\ Deferred(x) \in Seq(DeferNames) /\ ~Has(Deferred(x), "pool")
             /\ PoolFirst(Deferred(x))
  <2>1. CASE x \in Configured
    <3>1. Deferred(x) = <<x>>
      BY <2>1 DEF Deferred
    <3>2. Len(<<x>>) = 1 /\ <<x>>[1] = x /\ <<x>> \in Seq(DeferNames)
      OBVIOUS
    <3> QED BY <3>1, <3>2 DEF Has, PoolFirst
  <2>2. CASE x \notin Configured
    <3>1. Deferred(x) = <<>>
      BY <2>2 DEF Deferred
    <3>2. Len(<<>>) = 0 /\ <<>> \in Seq(DeferNames) /\ 1 .. 0 = {}
      BY EmptySeq
    <3> QED BY <3>1, <3>2 DEF Has, PoolFirst
  <2> QED BY <2>1, <2>2
<1> DEFINE b == Deferred("mqtt") \o Deferred("redis")
           p == b \o <<"pool">>
           c == p \o Deferred("mongo")
<1>2. b \in Seq(DeferNames \ {"pool", "mongo", "cancel"})
  <2>1. ASSUME NEW x \in {"mqtt", "redis"}
        PROVE  Deferred(x) \in Seq(DeferNames \ {"pool", "mongo", "cancel"})
    <3>1. x \in DeferNames \ {"pool", "mongo", "cancel"}
      BY DEF DeferNames
    <3>2. \A T : \A y \in T : <<y>> \in Seq(T)
      OBVIOUS
    <3>3. CASE x \in Configured
      BY <3>1, <3>2, <3>3 DEF Deferred
    <3>4. CASE x \notin Configured
      BY <3>4, EmptySeq DEF Deferred
    <3> QED BY <3>3, <3>4
  <2> QED BY <2>1, ConcatProperties
<1>3. p \in Seq(DeferNames) /\ PoolFirst(p) /\ Has(p, "pool")
  <2>1. /\ <<"pool">> \in Seq({"pool"}) /\ Len(<<"pool">>) = 1 /\ <<"pool">>[1] = "pool"
    OBVIOUS
  <2> DEFINE S == DeferNames \ {"mongo", "cancel"}
  <2>2. b \in Seq(S) /\ <<"pool">> \in Seq(S)
    <3>1. DeferNames \ {"pool", "mongo", "cancel"} \subseteq S /\ {"pool"} \subseteq S
      BY DEF DeferNames
    <3>2. \A T : T \subseteq S => Seq(T) \subseteq Seq(S)
      <4> HIDE DEF S
      <4> QED OBVIOUS
    <3> QED BY <1>2, <2>1, <3>1, <3>2
  <2> HIDE DEF b
  <2>3. /\ p \in Seq(S) /\ Len(b) \in Nat /\ Len(p) = Len(b) + 1
        /\ p[Len(b) + 1] = "pool"
    BY <2>1, <2>2, ConcatProperties, LenProperties
  <2> HIDE DEF p
  <2>4. \A i \in 1 .. Len(p) : p[i] \in S
    BY <2>3, ElementOfSeq
  <2>5. PoolFirst(p)
    BY <2>4 DEF PoolFirst
  <2>6. Has(p, "pool")
    BY <2>3 DEF Has
  <2>7. p \in Seq(DeferNames)
    <3>1. S \subseteq DeferNames
      OBVIOUS
    <3> HIDE DEF S
    <3> QED BY <2>3, <3>1
  <2> QED BY <2>5, <2>6, <2>7
<1> HIDE DEF p
<1>4. c \in Seq(DeferNames) /\ PoolFirst(c) /\ Has(c, "pool")
  BY <1>1, <1>3, LaterDefers DEF DeferNames
<1> HIDE DEF c
<1>5. <<"cancel">> \in Seq(DeferNames) /\ ~Has(<<"cancel">>, "pool") /\ Has(<<"cancel">>, "cancel")
  BY DEF Has, DeferNames
<1>6. c \o <<"cancel">> \in Seq(DeferNames) /\ PoolFirst(c \o <<"cancel">>)
      /\ Has(c \o <<"cancel">>, "pool") /\ Has(c \o <<"cancel">>, "cancel")
  BY <1>4, <1>5, LaterDefers
<1> QED BY <1>6 DEF Defers, c, p, b

-----------------------------------------------------------------------------
(* Every step of the server keeps its variables well typed.                *)
LEMMA ServerTypeStep ==
  ServerTypeOK /\ RunnersHold /\ ShutdownOrder /\ [ServerNext]_allVars => ServerTypeOK'
<1> SUFFICES ASSUME ServerTypeOK, RunnersHold, ShutdownOrder, [ServerNext]_allVars
             PROVE  ServerTypeOK'
  OBVIOUS
<1>0. TypeOK'
  BY ServerStepIsPoolStep, TypeStep DEF ServerTypeOK
<1> HIDE DEF TypeOK
<1> USE DEF ServerTypeOK
<1>1. CASE StartUp
  BY <1>0, <1>1, DefersOrder DEF StartUp, DeferNames
<1>2. CASE Signal \/ ShutdownReturns
  BY <1>0, <1>2 DEF Signal, ShutdownReturns
<1>3. ASSUME NEW j \in HttpJobs, Request(j) \/ Answer(j) PROVE ServerTypeOK'
  BY <1>0, <1>3 DEF Request, Answer
<1>4. CASE UNCHANGED serverVars
  BY <1>0, <1>4 DEF serverVars
<1>5. ASSUME NEW w \in Workers, JobStore(w) \/ JobPublish(w) PROVE ServerTypeOK'
  BY <1>0, <1>5 DEF JobStore, JobPublish
<1>6. CASE main = "deferred" /\ (DeferredClose \/ DeferredStop)
  <2>1. defers # <<>>
    BY <1>6, EmptySeq DEF ShutdownOrder, Has
  <2>2. Tail(defers) \in Seq(DeferNames)
    BY <2>1, DefersRun DEF DeferNames
  <2>3. defers' \in Seq(DeferNames)
    BY <1>6, <2>2 DEF DeferredClose, DeferredStop, DeferNames
  <2> QED BY <1>0, <1>6, <2>3 DEF DeferredClose, DeferredStop, DeferNames
<1>7. CASE Exit
  BY <1>0, <1>7, EmptySeq DEF Exit
<1> QED
  BY <1>1, <1>2, <1>3, <1>4, <1>5, <1>6, <1>7
  DEF ServerNext, MainStep, JobStep, Message, Submitted, JobReturn, WorkerLoop, allVars,
      DeferredClose, DeferredStop

(* Every step keeps the order of the shutdown.                             *)
LEMMA ShutdownOrderStep ==
  ServerTypeOK /\ PoolInv /\ ShutdownOrder /\ [ServerNext]_allVars => ShutdownOrder'
<1> SUFFICES ASSUME ServerTypeOK, PoolInv, ShutdownOrder, [ServerNext]_allVars
             PROVE  ShutdownOrder'
  OBVIOUS
<1>0. Main \in Stoppers /\ stop \in [Stoppers -> StopStates] /\ defers \in Seq(DeferNames)
  BY ServerAssumption DEF ServerTypeOK, TypeOK, DeferNames
<1>1. CASE StartUp
  <2>1. /\ PoolFirst(defers') /\ Has(defers', "cancel") /\ Has(defers', "pool")
        /\ open' = Configured /\ main' = "serving"
    BY <1>1, DefersOrder DEF StartUp
  <2> QED BY <2>1 DEF ShutdownOrder
<1>2. CASE Signal \/ ShutdownReturns
  BY <1>2 DEF Signal, ShutdownReturns, ShutdownOrder, vars
<1>3. CASE DeferredClose \/ DeferredStop \/ Exit
  <2>1. main = "deferred" /\ PoolFirst(defers) /\ Has(defers, "cancel")
    BY <1>3 DEF DeferredClose, DeferredStop, Exit, ShutdownOrder
  <2>2. defers # <<>>
    BY <2>1, EmptySeq DEF Has
  <2>3. /\ PoolFirst(Tail(defers))
        /\ \A x : Has(defers, x) /\ Head(defers) # x => Has(Tail(defers), x)
        /\ \A x : Has(Tail(defers), x) => Has(defers, x)
        /\ Head(defers) \in {"mongo", "cancel"} => ~Has(defers, "pool")
    BY <1>0, <2>1, <2>2, DefersRun
  <2>4. CASE DeferredClose
    <3>1. /\ main' = "deferred" /\ defers' = Tail(defers) /\ stop' = stop
          /\ open' = open \ {Head(defers)} /\ Head(defers) \in {"mqtt", "redis", "mongo"}
      BY <2>4 DEF DeferredClose, vars
    <3>2. PoolFirst(defers') /\ Has(defers', "cancel")
      BY <2>1, <2>3, <3>1
    <3>3. ~Has(defers', "pool") => stop'[Main] = "returned"
      BY <2>1, <2>3, <3>1 DEF ShutdownOrder
    <3>4. Has(defers', "pool") => open' \intersect {"mongo"} = Configured \intersect {"mongo"}
      BY <2>1, <2>3, <3>1 DEF ShutdownOrder
    <3> QED BY <3>1, <3>2, <3>3, <3>4 DEF ShutdownOrder
  <2>5. ASSUME DeferredStop, StopCancel(Main), UNCHANGED defers PROVE ShutdownOrder'
    <3>1. main' = "deferred" /\ defers' = defers /\ open' = open
      BY <2>5 DEF DeferredStop
    <3>2. Has(defers, "pool")
      BY <1>0, <2>1, <2>5 DEF StopCancel, ShutdownOrder
    <3> QED BY <2>1, <3>1, <3>2 DEF ShutdownOrder
  <2>6. ASSUME DeferredStop, StopReturn(Main), defers' = Tail(defers) PROVE ShutdownOrder'
    <3>1. main' = "deferred" /\ open' = open /\ Head(defers) = "pool"
      BY <2>6 DEF DeferredStop
    <3>2. stop'[Main] = "returned"
      BY <1>0, <2>6 DEF StopReturn
    <3>3. PoolFirst(defers') /\ Has(defers', "cancel")
      BY <2>1, <2>3, <2>6, <3>1
    <3>4. Has(defers', "pool") => open' \intersect {"mongo"} = Configured \intersect {"mongo"}
      BY <2>1, <2>3, <2>6, <3>1 DEF ShutdownOrder
    <3> QED BY <3>1, <3>2, <3>3, <3>4 DEF ShutdownOrder
  <2>7. CASE Exit
    <3>1. main' = "exited" /\ defers' = <<>> /\ stop' = stop /\ Head(defers) = "cancel"
      BY <2>7 DEF Exit, vars
    <3>2. stop[Main] = "returned"
      BY <2>1, <2>3, <3>1 DEF ShutdownOrder
    <3>3. ~Has(defers', "pool")
      BY <3>1, EmptySeq DEF Has
    <3> QED BY <3>1, <3>2, <3>3 DEF ShutdownOrder
  <2> QED BY <1>3, <2>4, <2>5, <2>6, <2>7 DEF DeferredStop
<1>4. ASSUME UNCHANGED <<main, defers, open, stop>>,
             main = "starting" => UNCHANGED worker
      PROVE  ShutdownOrder'
  BY <1>4 DEF ShutdownOrder
<1>5. ASSUME NEW j \in Jobs, Request(j) \/ Answer(j) \/ Message(j) \/ Submitted(j)
      PROVE  ShutdownOrder'
  BY <1>4, <1>5 DEF Request, Answer, Message, Submitted, SubmitCall, CallReturn, SubmitEnqueue,
                    SubmitReject, serverVars, vars
<1>6. ASSUME NEW w \in Workers, JobStep(w) PROVE ShutdownOrder'
  <2>1. worker[w] # "unborn"
    BY <1>6 DEF JobStep, JobStore, JobPublish, JobReturn, WorkerLoop, WorkerTake, WorkerCount,
                WorkerExit
  <2>2. main # "starting"
    BY <2>1 DEF ShutdownOrder
  <2> QED BY <1>4, <1>6, <2>2 DEF JobStep, JobStore, JobPublish, JobReturn, WorkerLoop,
                WorkerTake, WorkerFinish, WorkerCount, WorkerExit, serverVars, vars
<1>7. CASE UNCHANGED allVars
  BY <1>4, <1>7 DEF allVars, vars, serverVars
<1>8. HttpJobs \subseteq Jobs
  BY ServerAssumption
<1> QED BY <1>1, <1>2, <1>3, <1>5, <1>6, <1>7, <1>8 DEF ServerNext, MainStep

(* Every step keeps the store open under the jobs: the job of a running    *)
(* worker finds Stop not returned, hence the pool's defer not run, hence   *)
(* the store's neither.                                                    *)
LEMMA JobsAreStoredStep ==
  ServerTypeOK /\ PoolInv /\ ShutdownOrder /\ JobsAreStored /\ [ServerNext]_allVars
    => JobsAreStored'
<1> SUFFICES ASSUME ServerTypeOK, PoolInv, ShutdownOrder, JobsAreStored, [ServerNext]_allVars
             PROVE  JobsAreStored'
  OBVIOUS
<1>0. /\ Main \in Stoppers /\ holding \in [Workers -> Jobs \union {NoJob}]
      /\ stored \in [Jobs -> {"no", "yes", "failed"}]
      /\ published \in [Jobs -> {"no", "yes", "lost"}]
      /\ finished \subseteq Jobs
      /\ \A w \in Workers : worker[w] = "running" => holding[w] \in Jobs
  BY ServerAssumption DEF ServerTypeOK, TypeOK, PoolInv, RunnersHold
<1>1. CASE UNCHANGED <<stored, published, finished>>
  BY <1>1 DEF JobsAreStored, JobsFindTheStoreOpen
<1>2. ASSUME NEW w \in Workers, JobStore(w) PROVE JobsAreStored'
  <2>1. worker[w] = "running" /\ UNCHANGED <<published, finished>>
    BY <1>2 DEF JobStore, vars
  <2>2. main # "starting" /\ stop[Main] # "returned"
    BY <1>0, <2>1 DEF ShutdownOrder, PoolInv, StopBehindWorkers, StopReturned
  <2>3. Usable("mongo")
    BY <2>2 DEF ShutdownOrder, Usable
  <2>4. stored' = [stored EXCEPT ![holding[w]] = "yes"]
    BY <1>2, <2>3 DEF JobStore
  <2> QED BY <1>0, <2>1, <2>4 DEF JobsAreStored, JobsFindTheStoreOpen
<1>3. ASSUME NEW w \in Workers, JobPublish(w) PROVE JobsAreStored'
  BY <1>0, <1>3 DEF JobPublish, JobsAreStored, JobsFindTheStoreOpen, vars
<1>4. ASSUME NEW w \in Workers, JobReturn(w) PROVE JobsAreStored'
  <2>1. /\ worker[w] = "running" /\ stored' = stored /\ published' = published
        /\ finished' = finished \union {holding[w]}
        /\ stored[holding[w]] = "failed" \/ published[holding[w]] # "no"
    BY <1>4 DEF JobReturn, WorkerFinish, serverVars
  <2>2. stored[holding[w]] = "yes"
    BY <1>0, <2>1 DEF JobsAreStored, JobsFindTheStoreOpen
  <2> QED BY <2>1, <2>2 DEF JobsAreStored, JobsFindTheStoreOpen
<1>5. ASSUME NEW w \in Workers, WorkerLoop(w) PROVE UNCHANGED <<stored, published, finished>>
  BY <1>5 DEF WorkerLoop, WorkerTake, WorkerCount, WorkerExit, serverVars
<1>6. CASE StartUp \/ Signal \/ MainStep
  BY <1>1, <1>6 DEF StartUp, Signal, MainStep, Start, ShutdownReturns, DeferredClose,
                    DeferredStop, StopCancel, StopReturn, Exit, vars
<1>7. ASSUME NEW j, Request(j) \/ Answer(j) \/ Message(j) \/ Submitted(j)
      PROVE  UNCHANGED <<stored, published, finished>>
  BY <1>7 DEF Request, Answer, Message, Submitted, SubmitCall, CallReturn, SubmitEnqueue,
              SubmitReject, serverVars, vars
<1>8. CASE UNCHANGED allVars
  BY <1>1, <1>8 DEF allVars, vars, serverVars
<1> QED BY <1>1, <1>2, <1>3, <1>4, <1>5, <1>6, <1>7, <1>8 DEF ServerNext, JobStep

\* What holds of the process while it runs and shuts down.
ServerInv == ServerTypeOK /\ ShutdownOrder /\ JobsAreStored

(* The parts of the server agree with each other in every reachable state. *)
LEMMA ServerInvHolds == ServerSpec => [](ServerInv /\ PoolInv)
<1>1. ServerInit => ServerInv
  <2> SUFFICES ASSUME ServerInit PROVE ServerInv
    OBVIOUS
  <2>1. TypeOK
    BY TypeInit DEF ServerInit
  <2>2. ServerTypeOK
    BY <2>1, EmptySeq DEF ServerTypeOK, ServerInit
  <2>3. ShutdownOrder
    BY DEF ShutdownOrder, ServerInit, Init
  <2>4. JobsAreStored
    BY DEF JobsAreStored, JobsFindTheStoreOpen, ServerInit, Init
  <2> QED BY <2>2, <2>3, <2>4 DEF ServerInv
<1>2. ServerInv /\ PoolInv /\ [ServerNext]_allVars => ServerInv'
  <2>1. PoolInv => RunnersHold
    BY DEF PoolInv
  <2> QED BY <2>1, ServerTypeStep, ShutdownOrderStep, JobsAreStoredStep DEF ServerInv
<1>3. ServerSpec => []PoolInv
  BY ServerRunsPool, BookkeepingAgrees, PTL
<1> QED BY <1>1, <1>2, <1>3, PTL DEF ServerSpec

(* Every reachable state of the server is well typed (ServerTypeOK).       *)
THEOREM ServerTypeCorrect == ServerSpec => []ServerTypeOK
<1>1. ServerInv /\ PoolInv => ServerTypeOK
  BY DEF ServerInv
<1> QED BY <1>1, ServerInvHolds, PTL

(* No shutdown closes the store under a job, however many workers are at   *)
(* work when the signal arrives: the job of every worker that has taken    *)
(* one still reaches the database (JobsFindTheStoreOpen).                  *)
THEOREM StoreOutlivesJobs == ServerSpec => []JobsFindTheStoreOpen
<1>1. ServerInv /\ PoolInv => JobsFindTheStoreOpen
  BY DEF ServerInv, JobsAreStored
<1> QED BY <1>1, ServerInvHolds, PTL

(* What a shutdown loses is what was still queued when the process exited: *)
(* every other sample that Submit accepted is in the store                 *)
(* (ExitLosesOnlyQueued).                                                  *)
THEOREM ShutdownLosesOnlyQueued == ServerSpec => []ExitLosesOnlyQueued
<1>1. ServerInv /\ PoolInv /\ FirstInFirstOut /\ StopDrainsInFlight => ExitLosesOnlyQueued
  <2> SUFFICES ASSUME ServerInv, PoolInv, FirstInFirstOut, StopDrainsInFlight,
                      main = "exited", NEW j \in Jobs, call[j] = "accepted"
               PROVE  stored[j] = "yes" \/ \E i \in 1 .. Len(queue) : queue[i] = j
    BY DEF ExitLosesOnlyQueued
  <2>1. PICK i \in 1 .. Len(accepted) : accepted[i] = j
    BY DEF PoolInv, CallsMatchChannel
  <2>2. begun \in Seq(Jobs) /\ queue \in Seq(Jobs) /\ accepted = begun \o queue
    BY DEF ServerInv, ServerTypeOK, TypeOK, FirstInFirstOut
  <2>3. /\ Len(begun) \in Nat /\ Len(queue) \in Nat /\ DOMAIN begun = 1 .. Len(begun)
        /\ Len(accepted) = Len(begun) + Len(queue)
        /\ accepted[i] = IF i <= Len(begun) THEN begun[i] ELSE queue[i - Len(begun)]
    BY <2>1, <2>2, ConcatProperties, LenProperties
  <2>4. CASE i <= Len(begun)
    <3>1. ~Has(defers, "pool")
      BY EmptySeq DEF ServerInv, ShutdownOrder, Has
    <3>2. Main \in Stoppers /\ stop[Main] = "returned"
      BY <3>1, ServerAssumption DEF ServerInv, ShutdownOrder
    <3>3. finished = {begun[k] : k \in DOMAIN begun}
      BY <3>2 DEF StopDrainsInFlight, StopReturned
    <3>4. i \in DOMAIN begun /\ begun[i] = j
      BY <2>1, <2>3, <2>4
    <3> QED BY <3>3, <3>4 DEF ServerInv, JobsAreStored
  <2>5. CASE i > Len(begun)
    <3>1. i - Len(begun) \in 1 .. Len(queue) /\ queue[i - Len(begun)] = j
      BY <2>1, <2>3, <2>5
    <3> QED BY <3>1
  <2> QED BY <2>1, <2>3, <2>4, <2>5
<1> QED BY <1>1, ServerInvHolds, ServerRunsPool, OrderPreserved, StopDrains, PTL
=============================================================================
