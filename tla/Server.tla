------------------------------- MODULE Server -------------------------------
(***************************************************************************)
(* cmd/server/main.go: the life of a server process, from the start of the *)
(* worker pool to the last deferred call, over the whole of WorkerPool.    *)
(* The jobs are the samples that HTTP requests and MQTT messages bring in; *)
(* both submit with Submit (Service.IngestTelemetry).  A job writes to the *)
(* store and then publishes (Service.processTelemetry, whose steps are     *)
(* modelled one by one in DeviceService).                                  *)
(*                                                                         *)
(* MongoDB and Redis answer as long as their clients are open: what this   *)
(* module is about is the order in which main takes them away.             *)
(***************************************************************************)
EXTENDS WorkerPool

CONSTANTS
  HttpJobs,    \* samples that come over HTTP; the others come over MQTT
  Configured,  \* which of "mongo", "redis" and "mqtt" are configured
  Main         \* the main goroutine, the only caller of Stop

ASSUME ServerAssumption ==
  /\ HttpJobs \subseteq Jobs
  /\ Configured \subseteq {"mongo", "redis", "mqtt"}
  /\ Stoppers = {Main}

VARIABLES
  main,       \* where main is
  defers,     \* the deferred calls still to run, the next one first
  open,       \* which clients are connected
  handler,    \* where each HTTP handler is
  stored,     \* what AddTelemetry did for a job
  published   \* what became of a job's event

serverVars == <<main, defers, open, handler, stored, published>>
allVars == <<vars, serverVars>>

\* Every goroutine ends with the process.
Running == main # "exited"

\* A client that is not configured is not opened and has no defer.
Deferred(client) == IF client \in Configured THEN <<client>> ELSE <<>>

\* Mutant: the store is closed before the pool is stopped.
DefersStoreFirst ==
  Deferred("mqtt") \o Deferred("redis") \o Deferred("mongo") \o <<"pool", "cancel">>

\* The defer statements of main, last one first.
Defers ==
  Deferred("mqtt") \o Deferred("redis") \o <<"pool">> \o Deferred("mongo") \o <<"cancel">>

ServerInit ==
  /\ Init
  /\ main = "starting"
  /\ defers = <<>>
  /\ open = {}
  /\ handler = [j \in HttpJobs |-> "none"]
  /\ stored = [j \in Jobs |-> "no"]
  /\ published = [j \in Jobs |-> "no"]

-----------------------------------------------------------------------------
(* main, up to the signal.  The pool is started before anything can submit *)
(* to it; what may arrive in between is what may arrive afterwards.        *)

StartUp ==
  /\ main = "starting"
  /\ Start
  /\ main' = "serving"
  /\ defers' = Defers
  /\ open' = Configured
  /\ UNCHANGED <<handler, stored, published>>

Signal ==
  /\ main = "serving"
  /\ main' = "draining"
  /\ UNCHANGED <<vars, defers, open, handler, stored, published>>

-----------------------------------------------------------------------------
(* Ingestion.                                                              *)

\* A request arrives while the listener is open, and its handler submits.
Request(j) ==
  /\ main = "serving"
  /\ handler[j] = "none"
  /\ SubmitCall(j)
  /\ handler' = [handler EXCEPT ![j] = "running"]
  /\ UNCHANGED <<main, defers, open, stored, published>>

\* 202 or 503, whichever Submit returned.
Answer(j) ==
  /\ Running
  /\ handler[j] = "running"
  /\ call[j] # "blocked"
  /\ handler' = [handler EXCEPT ![j] = IF call[j] = "accepted" THEN "202" ELSE "503"]
  /\ UNCHANGED <<vars, main, defers, open, stored, published>>

\* A message arrives while the broker is connected.
Message(j) ==
  /\ "mqtt" \in open
  /\ SubmitCall(j)
  /\ UNCHANGED serverVars

\* Submit returns.
Submitted(j) ==
  /\ Running
  /\ CallReturn(j)
  /\ UNCHANGED serverVars

-----------------------------------------------------------------------------
(* Workers.                                                                *)

\* The in-memory store and the in-process hub are always there.
Usable(client) == client \in open \/ client \notin Configured

JobStore(w) ==
  /\ Running
  /\ worker[w] = "running"
  /\ stored[holding[w]] = "no"
  /\ stored' = [stored EXCEPT ![holding[w]] = IF Usable("mongo") THEN "yes" ELSE "failed"]
  /\ UNCHANGED <<vars, main, defers, open, handler, published>>

\* Redis.Broadcast ignores the error of a closed client.
JobPublish(w) ==
  /\ Running
  /\ worker[w] = "running"
  /\ stored[holding[w]] = "yes"
  /\ published[holding[w]] = "no"
  /\ published' = [published EXCEPT ![holding[w]] =
                     IF Usable("redis") THEN "yes" ELSE "lost"]
  /\ UNCHANGED <<vars, main, defers, open, handler, stored>>

\* The job function returns: after an error of the store, or at its end.
JobReturn(w) ==
  /\ Running
  /\ worker[w] = "running"
  /\ stored[holding[w]] = "failed" \/ published[holding[w]] # "no"
  /\ WorkerFinish(w)
  /\ UNCHANGED serverVars

WorkerLoop(w) ==
  /\ Running
  /\ WorkerTake(w) \/ WorkerCount(w) \/ WorkerExit(w)
  /\ UNCHANGED serverVars

-----------------------------------------------------------------------------
(* Shutdown.                                                               *)

\* srv.Shutdown returns when no handler is running, or after ten seconds.
\* Then main returns and its deferred calls begin.
ShutdownReturns ==
  /\ main = "draining"
  /\ main' = "deferred"
  /\ UNCHANGED <<vars, defers, open, handler, stored, published>>

\* bridge.Disconnect, rc.Close, ms.Close.
DeferredClose ==
  /\ main = "deferred"
  /\ Head(defers) \in {"mqtt", "redis", "mongo"}
  /\ open' = open \ {Head(defers)}
  /\ defers' = Tail(defers)
  /\ UNCHANGED <<vars, main, handler, stored, published>>

\* Mutant: Stop waits for the workers without telling them to leave.
DeferredStopWaits ==
  /\ main = "deferred"
  /\ Head(defers) = "pool"
  /\ StopReturn(Main)
  /\ defers' = Tail(defers)
  /\ UNCHANGED <<main, open, handler, stored, published>>

\* pool.Stop: cancel, then wait.
DeferredStop ==
  /\ main = "deferred"
  /\ Head(defers) = "pool"
  /\ \/ StopCancel(Main) /\ UNCHANGED defers
     \/ StopReturn(Main) /\ defers' = Tail(defers)
  /\ UNCHANGED <<main, open, handler, stored, published>>

\* cancel, the first defer of main and the last to run; the process exits.
Exit ==
  /\ main = "deferred"
  /\ Head(defers) = "cancel"
  /\ defers' = <<>>
  /\ main' = "exited"
  /\ UNCHANGED <<vars, open, handler, stored, published>>

-----------------------------------------------------------------------------
JobStep(w) == JobStore(w) \/ JobPublish(w) \/ JobReturn(w) \/ WorkerLoop(w)
MainStep == ShutdownReturns \/ DeferredClose \/ DeferredStop \/ Exit

ServerNext ==
  \/ StartUp \/ Signal \/ MainStep
  \/ \E j \in HttpJobs : Request(j) \/ Answer(j)
  \/ \E j \in Jobs \ HttpJobs : Message(j)
  \/ \E j \in Jobs : Submitted(j)
  \/ \E w \in Workers : JobStep(w)

ServerSpec == ServerInit /\ [][ServerNext]_allVars

\* Goroutines that can run do: handlers, callers of Submit, workers and,
\* once the signal has arrived, main.  Nobody has to send a sample or a
\* signal.
ServerFairness ==
  /\ \A j \in HttpJobs : WF_allVars(Answer(j))
  /\ \A j \in Jobs : WF_allVars(Submitted(j))
  /\ \A w \in Workers : WF_allVars(JobStep(w))
  /\ WF_allVars(MainStep)

FairServerSpec == ServerSpec /\ ServerFairness

-----------------------------------------------------------------------------
(* Properties.                                                             *)

\* Every variable has its type, those of the pool included.
ServerTypeOK ==
  /\ TypeOK
  /\ main \in {"starting", "serving", "draining", "deferred", "exited"}
  /\ defers \in Seq({"mqtt", "redis", "pool", "mongo", "cancel"})
  /\ open \in SUBSET Configured
  /\ handler \in [HttpJobs -> {"none", "running", "202", "503"}]
  /\ stored \in [Jobs -> {"no", "yes", "failed"}]
  /\ published \in [Jobs -> {"no", "yes", "lost"}]

\* The shutdown never closes the store under a job: whatever a worker has
\* begun by the time the pool is stopped still reaches the database.
JobsFindTheStoreOpen == \A j \in Jobs : stored[j] # "failed"

\* When the process has exited, a sample that was accepted is in the store,
\* unless it was still waiting in the queue: that is all a shutdown loses.
ExitLosesOnlyQueued ==
  (main = "exited") =>
    \A j \in Jobs :
      call[j] = "accepted" =>
        stored[j] = "yes" \/ \E i \in 1 .. Len(queue) : queue[i] = j

\* After the signal the process exits, with handlers blocked in Submit, a
\* full queue or jobs under way.
ShutdownCompletes == (main = "draining") ~> (main = "exited")

\* A request is answered, or the process exits.
RequestsAreAnswered ==
  \A j \in HttpJobs :
    (handler[j] = "running") ~> (handler[j] \in {"202", "503"} \/ main = "exited")
=============================================================================
