----------------------------- MODULE JobExecutor -----------------------------
(***************************************************************************)
(* What callers may rely on of a worker pool, with no queue and no         *)
(* workers: a job is decided once (accepted or refused), an accepted job   *)
(* begins at most once and finishes at most once, a refused job never      *)
(* begins, and after the executor has closed nothing begins and nothing is *)
(* left running: what was pending then is lost.                            *)
(*                                                                         *)
(* A closed executor ought to refuse (Accept), but the pool may also       *)
(* answer that it has accepted, and lose the job at once: AcceptTooLate is *)
(* the exception that WorkerPool needs to implement this specification.    *)
(***************************************************************************)
CONSTANT Jobs

VARIABLES
  status,   \* status[j]: how far job j has got
  closed    \* some caller has been told that the executor has stopped

vars == <<status, closed>>

Statuses == {"new", "pending", "running", "done", "refused", "lost"}

Init ==
  /\ status = [j \in Jobs |-> "new"]
  /\ closed = FALSE

Move(j, from, to) ==
  /\ status[j] = from
  /\ status' = [status EXCEPT ![j] = to]
  /\ UNCHANGED closed

Accept(j) == ~closed /\ Move(j, "new", "pending")
Refuse(j) == Move(j, "new", "refused")
Begin(j)  == ~closed /\ Move(j, "pending", "running")
Finish(j) == ~closed /\ Move(j, "running", "done")

AcceptTooLate(j) == closed /\ Move(j, "new", "lost")

Close ==
  /\ \A j \in Jobs : status[j] # "running"
  /\ closed' = TRUE
  /\ status' = [j \in Jobs |-> IF status[j] = "pending" THEN "lost" ELSE status[j]]

Next ==
  \/ \E j \in Jobs : \/ Accept(j) \/ Refuse(j) \/ Begin(j) \/ Finish(j)
                     \/ AcceptTooLate(j)
  \/ Close

Spec == Init /\ [][Next]_vars
=============================================================================
