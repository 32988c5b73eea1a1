-------------------------- MODULE TaskQueueProperties --------------------------
(***************************************************************************)
(* What must hold of the task queue.                                       *)
(***************************************************************************)
EXTENDS TaskQueue

\* Every variable has its type; a thread inside run_job has a job.
TypeOK ==
    /\ jobs \in [Jobs -> Job]
    /\ ring \subseteq Jobs
    /\ thread \in [Drainers -> Thread]
    /\ \A d \in Drainers : thread[d].pc \in {"count", "start", "run"} => thread[d].job \in Jobs
    /\ clock \in Nat
    /\ owed \subseteq Tasks
    /\ orphans \subseteq Jobs
    /\ failures \in Nat /\ requeues \in Nat /\ deaths \in Nat /\ restarts \in Nat

Runs(d, j) == thread[d].pc = "run" /\ thread[d].job = j

(***************************************************************************)
(* A listed job in state "running" is being run: whatever two threads, the *)
(* admin's buttons and late outcomes do to its state, only the death of a  *)
(* thread leaves a job behind that no drain will pick up (drain takes      *)
(* "queued" and "retry", requeue refuses "running").                       *)
(***************************************************************************)
RunningHasRunner ==
    \A j \in ring : jobs[j].state = "running" =>
        j \in orphans \/ \E d \in Drainers : Runs(d, j)

\* The log never holds more than RING_SIZE jobs.
LogBounded == Cardinality(ring) <= RingSize

\* Live jobs leave the log only when it overflows with live jobs, or with the
\* process.
LiveJobsKept ==
    [][\A j \in ring :
          (Live(j) /\ j \notin ring' /\ restarts' = restarts)
          => \A k \in ring : Live(k) \/ k \notin ring']_vars

(***************************************************************************)
(* What durable state says is outstanding gets done.  It holds while the   *)
(* process lives and the task does not fail MAX_ATTEMPTS times;            *)
(* task_queue.py:25-29 promises it across a redeploy as well.              *)
(***************************************************************************)
OwedIsDone ==
    \A t \in Tasks : (t \in owed) ~> (t \notin owed)

------------------------------------------------------------------------------
(* What the documentation of the code says.                                *)

\* "Execute one job exactly once": two threads are never in one job's handler.
OneRunnerPerJob ==
    \A d, e \in Drainers, j \in Jobs : Runs(d, j) /\ Runs(e, j) => d = e

\* "an identical task already waiting is returned instead of appended".
OneWaitingPerTask ==
    \A j, k \in ring :
        (Waiting(j) /\ Waiting(k) /\ jobs[j].task = jobs[k].task) => j = k

\* "a job that was ... left behind by a death+restart ... is picked up on the
\* next five-minute tick".
OrphansPickedUp ==
    \A j \in Jobs : (j \in orphans) ~> (jobs[j].state # "running")
==============================================================================
