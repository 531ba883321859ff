----------------------------- MODULE WorkerPool -----------------------------
(***************************************************************************)
(* internal/worker/pool.go: a fixed number of goroutines consume jobs from *)
(* a bounded channel.  Every call of Submit and TrySubmit is identified by *)
(* the job it carries (in the server each HTTP request or MQTT message     *)
(* submits one closure).  A Go select whose cases are both ready picks     *)
(* either of them, so those cases are separate actions with overlapping    *)
(* guards.  The queue channel is never closed in the code.                 *)
(***************************************************************************)
EXTENDS Integers, Sequences, FiniteSets

CONSTANTS
  WorkersArg,     \* NewPool's workers argument
  QueueSizeArg,   \* NewPool's queueSize argument
  Jobs,           \* the jobs that callers may submit, each at most once
  Stoppers,       \* goroutines that may call Stop
  NoJob           \* what a worker holds between two jobs

ASSUME PoolAssumption ==
  /\ WorkersArg \in Int
  /\ QueueSizeArg \in Int
  /\ IsFiniteSet(Jobs)
  /\ NoJob \notin Jobs

\* NewPool's defaults.
NumWorkers == IF WorkersArg <= 0 THEN 1 ELSE WorkersArg
QueueCap   == IF QueueSizeArg <= 0 THEN NumWorkers ELSE QueueSizeArg

Workers == 1 .. NumWorkers

VARIABLES
  started,    \* Start has run (once)
  cancelled,  \* p.ctx is done
  queue,      \* the buffered channel p.queue
  worker,     \* where each worker goroutine is in run
  holding,    \* the job a worker is executing
  call,       \* outcome of the Submit / TrySubmit call that carries a job
  stop,       \* where each goroutine that calls Stop is
  processed,  \* p.processed
  dropped,    \* p.dropped
  \* History: not in the code, read only by the properties.
  accepted,   \* jobs in the order the channel took them
  begun,      \* jobs in the order workers began them
  finished    \* jobs whose function has returned

vars == <<started, cancelled, queue, worker, holding, call, stop,
          processed, dropped, accepted, begun, finished>>

WorkerStates == {"unborn", "select", "running", "counting", "exited"}
CallStates   == {"new", "blocked", "accepted", "rejected", "refused"}
StopStates   == {"idle", "waiting", "returned"}

StopReturned == \E s \in Stoppers : stop[s] = "returned"

Init ==
  /\ started = FALSE
  /\ cancelled = FALSE
  /\ queue = <<>>
  /\ worker = [w \in Workers |-> "unborn"]
  /\ holding = [w \in Workers |-> NoJob]
  /\ call = [j \in Jobs |-> "new"]
  /\ stop = [s \in Stoppers |-> "idle"]
  /\ processed = 0
  /\ dropped = 0
  /\ accepted = <<>>
  /\ begun = <<>>
  /\ finished = {}

-----------------------------------------------------------------------------
(* Start: once.Do launches every worker goroutine.                         *)
Start ==
  /\ ~started
  /\ started' = TRUE
  /\ worker' = [w \in Workers |-> "select"]
  /\ UNCHANGED <<cancelled, queue, holding, call, stop, processed, dropped,
                 accepted, begun, finished>>

-----------------------------------------------------------------------------
(* Submit and TrySubmit.                                                   *)

\* The channel send that both selects offer.
Enqueue(j) ==
  /\ Len(queue) < QueueCap
  /\ queue' = Append(queue, j)
  /\ accepted' = Append(accepted, j)
  /\ call' = [call EXCEPT ![j] = "accepted"]

\* The caller enters Submit's select.
SubmitCall(j) ==
  /\ call[j] = "new"
  /\ call' = [call EXCEPT ![j] = "blocked"]
  /\ UNCHANGED <<started, cancelled, queue, worker, holding, stop, processed,
                 dropped, accepted, begun, finished>>

\* case p.queue <- job: return true
SubmitEnqueue(j) ==
  /\ call[j] = "blocked"
  /\ Enqueue(j)
  /\ UNCHANGED <<started, cancelled, worker, holding, stop, processed,
                 dropped, begun, finished>>

\* Mutant: the context is looked at on entry, not while waiting for room.
SubmitRejectOnEntry(j) ==
  /\ call[j] = "new"
  /\ cancelled
  /\ call' = [call EXCEPT ![j] = "rejected"]
  /\ UNCHANGED <<started, cancelled, queue, worker, holding, stop, processed,
                 dropped, accepted, begun, finished>>

\* case <-p.ctx.Done(): return false
SubmitReject(j) ==
  /\ call[j] = "blocked"
  /\ cancelled
  /\ call' = [call EXCEPT ![j] = "rejected"]
  /\ UNCHANGED <<started, cancelled, queue, worker, holding, stop, processed,
                 dropped, accepted, begun, finished>>

\* Mutant: a job that was refused is queued after all when there is room.
TrySubmitEnqueueLater(j) ==
  /\ call[j] \in {"new", "refused"}
  /\ Enqueue(j)
  /\ UNCHANGED <<started, cancelled, worker, holding, stop, processed,
                 dropped, begun, finished>>

\* TrySubmit's send case.
TrySubmitEnqueue(j) ==
  /\ call[j] = "new"
  /\ Enqueue(j)
  /\ UNCHANGED <<started, cancelled, worker, holding, stop, processed,
                 dropped, begun, finished>>

\* TrySubmit's ctx.Done case: false, and the dropped counter is left alone.
TrySubmitStopped(j) ==
  /\ call[j] = "new"
  /\ cancelled
  /\ call' = [call EXCEPT ![j] = "refused"]
  /\ UNCHANGED <<started, cancelled, queue, worker, holding, stop, processed,
                 dropped, accepted, begun, finished>>

\* TrySubmit's default case: neither other case is ready.
TrySubmitDrop(j) ==
  /\ call[j] = "new"
  /\ ~cancelled
  /\ Len(queue) >= QueueCap
  /\ dropped' = dropped + 1
  /\ call' = [call EXCEPT ![j] = "refused"]
  /\ UNCHANGED <<started, cancelled, queue, worker, holding, stop, processed,
                 accepted, begun, finished>>

-----------------------------------------------------------------------------
(* The worker loop, run.                                                   *)

\* Mutant: the worker takes the newest job instead of the oldest.
WorkerTakeNewest(w) ==
  /\ worker[w] = "select"
  /\ queue # <<>>
  /\ queue' = SubSeq(queue, 1, Len(queue) - 1)
  /\ worker' = [worker EXCEPT ![w] = "running"]
  /\ holding' = [holding EXCEPT ![w] = queue[Len(queue)]]
  /\ begun' = Append(begun, queue[Len(queue)])
  /\ UNCHANGED <<started, cancelled, call, stop, processed, dropped,
                 accepted, finished>>

\* case job := <-p.queue
WorkerTake(w) ==
  /\ worker[w] = "select"
  /\ queue # <<>>
  /\ queue' = Tail(queue)
  /\ worker' = [worker EXCEPT ![w] = "running"]
  /\ holding' = [holding EXCEPT ![w] = Head(queue)]
  /\ begun' = Append(begun, Head(queue))
  /\ UNCHANGED <<started, cancelled, call, stop, processed, dropped,
                 accepted, finished>>

\* Mutant: the worker leaves without finishing the job it had taken.
WorkerFinishAborts(w) ==
  /\ worker[w] = "running"
  /\ worker' = [worker EXCEPT ![w] = "counting"]
  /\ holding' = [holding EXCEPT ![w] = NoJob]
  /\ UNCHANGED <<started, cancelled, queue, call, stop, processed, dropped,
                 accepted, begun, finished>>

\* job(p.ctx) returns; the counter has not been incremented yet.
WorkerFinish(w) ==
  /\ worker[w] = "running"
  /\ worker' = [worker EXCEPT ![w] = "counting"]
  /\ holding' = [holding EXCEPT ![w] = NoJob]
  /\ finished' = finished \union {holding[w]}
  /\ UNCHANGED <<started, cancelled, queue, call, stop, processed, dropped,
                 accepted, begun>>

\* Mutant: run handles one job and returns (the for loop is missing).
WorkerCountReturns(w) ==
  /\ worker[w] = "counting"
  /\ processed' = processed + 1
  /\ worker' = [worker EXCEPT ![w] = "exited"]
  /\ UNCHANGED <<started, cancelled, queue, holding, call, stop, dropped,
                 accepted, begun, finished>>

\* atomic.AddInt64(&p.processed, 1), then round the loop.
WorkerCount(w) ==
  /\ worker[w] = "counting"
  /\ processed' = processed + 1
  /\ worker' = [worker EXCEPT ![w] = "select"]
  /\ UNCHANGED <<started, cancelled, queue, holding, call, stop, dropped,
                 accepted, begun, finished>>

\* Mutant: the worker only looks at the context after finding a job in the
\* queue, so that an idle worker misses the cancellation.
WorkerExitMissed(w) ==
  /\ worker[w] = "select"
  /\ cancelled
  /\ queue # <<>>
  /\ worker' = [worker EXCEPT ![w] = "exited"]
  /\ UNCHANGED <<started, cancelled, queue, holding, call, stop, processed,
                 dropped, accepted, begun, finished>>

\* case <-p.ctx.Done(): return, which runs the deferred wg.Done.
WorkerExit(w) ==
  /\ worker[w] = "select"
  /\ cancelled
  /\ worker' = [worker EXCEPT ![w] = "exited"]
  /\ UNCHANGED <<started, cancelled, queue, holding, call, stop, processed,
                 dropped, accepted, begun, finished>>

-----------------------------------------------------------------------------
(* Stop: cancel the context, then wait for the wait group.  Callers start  *)
(* the pool before they stop it (cmd/server/main.go and every test).       *)
StopCancel(s) ==
  /\ started
  /\ stop[s] = "idle"
  /\ stop' = [stop EXCEPT ![s] = "waiting"]
  /\ cancelled' = TRUE
  /\ UNCHANGED <<started, queue, worker, holding, call, processed, dropped,
                 accepted, begun, finished>>

\* Mutant: Stop returns without waiting for the wait group.
StopReturnEarly(s) ==
  /\ stop[s] = "waiting"
  /\ stop' = [stop EXCEPT ![s] = "returned"]
  /\ UNCHANGED <<started, cancelled, queue, worker, holding, call, processed,
                 dropped, accepted, begun, finished>>

StopReturn(s) ==
  /\ stop[s] = "waiting"
  /\ \A w \in Workers : worker[w] = "exited"
  /\ stop' = [stop EXCEPT ![s] = "returned"]
  /\ UNCHANGED <<started, cancelled, queue, worker, holding, call, processed,
                 dropped, accepted, begun, finished>>

-----------------------------------------------------------------------------
WorkerStep(w) ==
  WorkerTake(w) \/ WorkerFinish(w) \/ WorkerCount(w) \/ WorkerExit(w)

CallReturn(j) == SubmitEnqueue(j) \/ SubmitReject(j)

Next ==
  \/ Start
  \/ \E j \in Jobs :
       \/ SubmitCall(j) \/ CallReturn(j)
       \/ TrySubmitEnqueue(j) \/ TrySubmitStopped(j) \/ TrySubmitDrop(j)
  \/ \E w \in Workers : WorkerStep(w)
  \/ \E s \in Stoppers : StopCancel(s) \/ StopReturn(s)

Spec == Init /\ [][Next]_vars

\* The Go scheduler runs every goroutine that can run: workers, callers
\* inside Submit and callers inside Stop.  Nobody is obliged to submit a job
\* or to call Start or Stop.
Fairness ==
  /\ \A w \in Workers : WF_vars(WorkerStep(w))
  /\ \A j \in Jobs : WF_vars(CallReturn(j))
  /\ \A s \in Stoppers : WF_vars(StopReturn(s))

FairSpec == Spec /\ Fairness

-----------------------------------------------------------------------------
(* Properties.                                                             *)

\* Every variable has its type, and the channel never exceeds its capacity.
TypeOK ==
  /\ started \in BOOLEAN
  /\ cancelled \in BOOLEAN
  /\ queue \in Seq(Jobs)
  /\ Len(queue) <= QueueCap
  /\ worker \in [Workers -> WorkerStates]
  /\ holding \in [Workers -> Jobs \union {NoJob}]
  /\ call \in [Jobs -> CallStates]
  /\ stop \in [Stoppers -> StopStates]
  /\ processed \in Nat
  /\ dropped \in Nat
  /\ accepted \in Seq(Jobs)
  /\ begun \in Seq(Jobs)
  /\ finished \in SUBSET Jobs

\* Workers begin jobs in the order in which the channel accepted them, and
\* what has not begun is still queued: no job is lost, duplicated or
\* overtaken between Submit and run, however many workers compete.
FirstInFirstOut == accepted = begun \o queue

\* Once a Stop has returned, every worker has left run, every job that had
\* begun has finished, and each of them has been counted ("signals workers
\* to finish in-flight jobs and waits for them to exit").
StopDrainsInFlight ==
  StopReturned =>
    /\ \A w \in Workers : worker[w] = "exited"
    /\ finished = {begun[i] : i \in DOMAIN begun}
    /\ processed = Len(begun)

\* What the callers of the pool see of a job.
StatusOf(j) ==
  CASE call[j] \in {"new", "blocked"}      -> "new"
    [] call[j] \in {"rejected", "refused"} -> "refused"
    [] call[j] = "accepted" ->
         IF j \in finished THEN "done"
         ELSE IF \E w \in Workers : holding[w] = j THEN "running"
         ELSE IF StopReturned THEN "lost"
         ELSE "pending"

Executor == INSTANCE JobExecutor WITH
  status <- [j \in Jobs |-> StatusOf(j)],
  closed <- StopReturned

\* The pool implements JobExecutor: a job is decided once, runs at most once
\* and only if Submit or TrySubmit returned true, and after Stop has returned
\* no job begins, none is still running, and whatever the queue still holds or
\* takes is lost for good.
ImplementsExecutor == Executor!Spec

\* While the pool is not stopped, a job that Submit or TrySubmit accepted is
\* eventually executed, whichever worker takes it.
AcceptedJobRuns ==
  \A j \in Jobs :
    (started /\ call[j] = "accepted") ~> (j \in finished \/ cancelled)

\* A caller blocked in Submit always gets an answer: space in the queue, or
\* false once the pool is stopped.  A full queue never strands a request.
BlockedSubmitReturns ==
  \A j \in Jobs : (started /\ call[j] = "blocked") ~> (call[j] # "blocked")

\* A call of Stop returns: every worker notices the cancellation, idle or
\* after its current job.
StopTerminates ==
  \A s \in Stoppers : (stop[s] = "waiting") ~> (stop[s] = "returned")

-----------------------------------------------------------------------------
(* A statement of comment and test that the code does not keep.            *)

\* pool.go on Submit: "Returns false if the pool has been stopped."  A pool
\* whose Stop has returned accepts no job.
StoppedRefuses == [][StopReturned => accepted' = accepted]_vars

-----------------------------------------------------------------------------
(* The inductive invariant behind the theorems of WorkerPoolProofs.        *)

Busy == {w \in Workers : worker[w] \in {"running", "counting"}}

\* The channel has taken exactly the jobs whose call returned true, each once.
CallsMatchChannel ==
  /\ \A j \in Jobs :
       (call[j] = "accepted") <=> (\E i \in 1 .. Len(accepted) : accepted[i] = j)
  /\ \A i, k \in 1 .. Len(accepted) : accepted[i] = accepted[k] => i = k

\* Before Start there are no workers; a worker holds a job exactly while it
\* runs it.
RunnersHold ==
  \A w \in Workers :
    /\ ~started => worker[w] = "unborn"
    /\ (worker[w] = "running") <=> (holding[w] # NoJob)

\* No two workers hold the same job, and the jobs that have begun are those
\* held and those finished.
HoldersMatchHistory ==
  /\ \A w, v \in Workers :
       (holding[w] = holding[v] /\ holding[w] # NoJob) => w = v
  /\ \A w \in Workers : holding[w] \notin finished
  /\ \A j \in Jobs :
       (\E i \in 1 .. Len(begun) : begun[i] = j)
         <=> (j \in finished \/ \E w \in Workers : holding[w] = j)

\* Stop is only under way on a started pool, and returns behind the workers.
StopBehindWorkers ==
  /\ \A s \in Stoppers : stop[s] # "idle" => started
  /\ StopReturned => \A w \in Workers : worker[w] = "exited"

\* Every job begun has been counted or is about to be by the worker that
\* took it.
CountMatchesBusy == Len(begun) = processed + Cardinality(Busy)

\* The bookkeeping of the pool agrees with what its callers have been told:
\* the channel with the outcomes of Submit and TrySubmit, the workers with the
\* jobs begun and finished, Stop with the workers, and the processed counter
\* with the busy workers.
PoolInv ==
  /\ CallsMatchChannel
  /\ RunnersHold
  /\ HoldersMatchHistory
  /\ StopBehindWorkers
  /\ CountMatchesBusy
=============================================================================
