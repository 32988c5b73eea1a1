------------------------------ MODULE TaskQueue ------------------------------
(***************************************************************************)
(* The in-process queue of slow work (task_queue.py): what requests put in *)
(* it, the two threads that drain it, the retries, the bounded log the     *)
(* admin sees, the admin's buttons, dead threads and a restart.            *)
(*                                                                         *)
(* `jobs` holds the job objects and `ring` the ones the module's           *)
(* dictionary still lists: a thread keeps the object it picked even when   *)
(* the dictionary drops it.  The dictionary is ordered by insertion; each  *)
(* job carries its number (`born`) instead.  Every block under the         *)
(* module's lock is one step; what runs outside the lock is not.           *)
(*                                                                         *)
(* Ghost variables: `owed`, the tasks whose durable record (a tombstone, a *)
(* campaign row) says they are outstanding, and `orphans`, the jobs whose  *)
(* thread died while it ran them.                                          *)
(***************************************************************************)
EXTENDS Integers, FiniteSets

CONSTANTS
    Jobs,           \* job ids, each drawn once
    Tasks,          \* what can be asked for: a kind and its payload
    Chained,        \* tasks queued without the duplicate check
    Drainers,       \* threads that drain: the worker, the scheduler's sweep
    NoJob,          \* the job of a thread that has none
    MaxAttempts,    \* MAX_ATTEMPTS
    RingSize,       \* RING_SIZE
    BatchSize,      \* BATCH_SIZE
    MaxFailures,    \* bound: handlers that raise
    MaxRequeues,    \* bound: retries the admin asks for
    MaxDeaths,      \* bound: draining threads that die
    MaxRestarts     \* bound: restarts of the process

ASSUME TaskQueueAssumption ==
    /\ Chained \subseteq Tasks
    /\ NoJob \notin Jobs
    /\ MaxAttempts \in Nat \ {0} /\ RingSize \in Nat \ {0}
    /\ BatchSize \in Nat \ {0}
    /\ MaxFailures \in Nat /\ MaxRequeues \in Nat
    /\ MaxDeaths \in Nat /\ MaxRestarts \in Nat

VARIABLES jobs, ring, thread, clock, owed, orphans,
          failures, requeues, deaths, restarts

log    == <<jobs, ring>>
counts == <<failures, requeues, deaths, restarts>>
vars   == <<jobs, ring, thread, clock, owed, orphans,
            failures, requeues, deaths, restarts>>

------------------------------------------------------------------------------
States == {"new", "queued", "running", "retry", "done", "failed"}

\* `due`: the time of the next attempt has come.
Job == [task : Tasks, state : States, attempts : Nat, due : BOOLEAN, born : Nat]

\* A thread in drain(): the batch it still has to look at, the job it is on,
\* and the attempt number it has read but not stored.
PCs == {"idle", "check", "count", "start", "run", "dead"}

Thread == [pc : PCs, batch : SUBSET Jobs, job : Jobs \cup {NoJob}, attempt : Nat]

Resting == [pc |-> "idle", batch |-> {}, job |-> NoJob, attempt |-> 0]

Waiting(j)  == jobs[j].state \in {"queued", "retry"}
Live(j)     == jobs[j].state \in {"queued", "running", "retry"}
Finished(j) == jobs[j].state \in {"done", "failed"}

Older(j, k) == jobs[j].born < jobs[k].born

\* The first of some jobs in the dictionary's order (none if there are none).
Oldest(S) == {j \in S : \A k \in S \ {j} : Older(j, k)}

Init ==
    /\ jobs \in [Jobs -> {[task |-> t, state |-> "new", attempts |-> 0,
                           due |-> FALSE, born |-> 0] : t \in Tasks}]
    /\ ring = {}
    /\ thread = [d \in Drainers |-> Resting]
    /\ clock = 0
    /\ owed = {}
    /\ orphans = {}
    /\ failures = 0 /\ requeues = 0 /\ deaths = 0 /\ restarts = 0

------------------------------------------------------------------------------
(* Putting work in.                                                        *)

\* A live job for the same task that the duplicate check can see.
SameTask(t) == {j \in ring : jobs[j].task = t /\ jobs[j].state \in {"queued", "running"}}

\* Mutant: only finished jobs leave a full log.
MutListing(r, j) ==
    IF Cardinality(r) < RingSize THEN r \cup {j}
    ELSE (r \ Oldest({k \in r : Finished(k)})) \cup {j}

\* Mutant: a full log drops its oldest entry, whatever its state.
MutListingFirst(r, j) ==
    IF Cardinality(r) < RingSize THEN r \cup {j} ELSE (r \ Oldest(r)) \cup {j}

\* The log takes a job and keeps RingSize: the oldest finished one goes first,
\* and when none is finished the oldest of all.
Listing(r, j) ==
    LET over == {k \in r : Finished(k)} IN
    IF Cardinality(r) < RingSize THEN r \cup {j}
    ELSE (r \ Oldest(IF over # {} THEN over ELSE r)) \cup {j}

\* The durable record is written, then the task is queued unless the same
\* one is queued or running; finished jobs past their day leave the log.
Enqueue(j) ==
    LET t == jobs[j].task IN
    /\ jobs[j].state = "new"
    /\ t \in Chained \/ SameTask(t) = {}
    /\ clock' = clock + 1
    /\ jobs' = [jobs EXCEPT ![j].state = "queued", ![j].born = clock + 1,
                            ![j].due = t \notin Chained]
    /\ \E expired \in SUBSET {k \in ring : Finished(k)} :
          ring' = Listing(ring \ expired, j)
    /\ owed' = owed \cup {t}
    /\ UNCHANGED <<thread, orphans, counts>>

EnqueueDuplicate(t) ==
    /\ t \notin Chained
    /\ SameTask(t) # {}
    /\ owed' = owed \cup {t}
    /\ UNCHANGED <<log, thread, clock, orphans, counts>>

\* The delay of a chained task, or the backoff of a failed one, runs out.
BecomeDue(j) ==
    /\ Waiting(j)
    /\ ~jobs[j].due
    /\ jobs' = [jobs EXCEPT ![j].due = TRUE]
    /\ UNCHANGED <<ring, thread, clock, owed, orphans, counts>>

------------------------------------------------------------------------------
(* Draining.                                                               *)

Ready == {j \in ring : Waiting(j) /\ jobs[j].due}

\* Under the lock: the oldest BatchSize jobs that are due.
Scan(d) ==
    /\ thread[d].pc = "idle"
    /\ Ready # {}
    /\ \E batch \in SUBSET Ready :
          /\ \A j \in batch, k \in Ready \ batch : Older(j, k)
          /\ Cardinality(batch) =
                IF Cardinality(Ready) < BatchSize THEN Cardinality(Ready) ELSE BatchSize
          /\ thread' = [thread EXCEPT ![d] = [Resting EXCEPT !.pc = "check",
                                                             !.batch = batch]]
    /\ UNCHANGED <<log, clock, owed, orphans, counts>>

\* Mutant: the thread goes on to run a job before it has picked one.
MutRest(d, left) == IF left = {} THEN Resting
                    ELSE [Resting EXCEPT !.pc = "count", !.batch = left]

\* What is left of a batch after one of its jobs.
Rest(d, left) == IF left = {} THEN Resting
                 ELSE [Resting EXCEPT !.pc = "check", !.batch = left]

\* Under the lock again: the next job must still be waiting.  The lock is
\* released before the job is marked.
Check(d) ==
    /\ thread[d].pc = "check"
    /\ \E j \in Oldest(thread[d].batch) :
       LET left == thread[d].batch \ {j} IN
       thread' = [thread EXCEPT ![d] =
                    IF Waiting(j) THEN [@ EXCEPT !.pc = "count",
                                                 !.batch = left, !.job = j]
                    ELSE Rest(d, left)]
    /\ UNCHANGED <<log, clock, owed, orphans, counts>>

\* run_job reads the number of attempts,
Count(d) ==
    /\ thread[d].pc = "count"
    /\ thread' = [thread EXCEPT ![d].pc = "start",
                                ![d].attempt = jobs[thread[d].job].attempts + 1]
    /\ UNCHANGED <<log, clock, owed, orphans, counts>>

\* stores it, marks the job and calls the handler.
Start(d) ==
    LET j == thread[d].job IN
    /\ thread[d].pc = "start"
    /\ jobs' = [jobs EXCEPT ![j].attempts = thread[d].attempt,
                            ![j].state = "running"]
    /\ thread' = [thread EXCEPT ![d].pc = "run"]
    /\ UNCHANGED <<ring, clock, owed, orphans, counts>>

\* The thread goes on with its batch, or stops at the chunk's deadline.
GoOn(d) ==
    \E left \in {{}, thread[d].batch} :
       thread' = [thread EXCEPT ![d] = Rest(d, left)]

Succeed(d) ==
    LET j == thread[d].job IN
    /\ thread[d].pc = "run"
    /\ jobs' = [jobs EXCEPT ![j].state = "done"]
    /\ owed' = owed \ {jobs[j].task}
    /\ GoOn(d)
    /\ UNCHANGED <<ring, clock, orphans, counts>>

\* Mutant: a job that raised is not parked.
MutParked(j) == [j EXCEPT !.due = FALSE]

\* Parked with a backoff, or failed for good.
Parked(j) ==
    IF j.attempts < MaxAttempts THEN [j EXCEPT !.state = "retry", !.due = FALSE]
    ELSE [j EXCEPT !.state = "failed"]

Fail(d) ==
    LET j == thread[d].job IN
    /\ thread[d].pc = "run"
    /\ failures < MaxFailures
    /\ failures' = failures + 1
    /\ jobs' = [jobs EXCEPT ![j] = Parked(@)]
    /\ GoOn(d)
    /\ UNCHANGED <<ring, clock, owed, orphans, requeues, deaths, restarts>>

------------------------------------------------------------------------------
(* The admin's job panel.                                                  *)

Requeueable(j) == jobs[j].state \notin {"queued", "running"}

\* "Retry".
Requeue(j) ==
    /\ j \in ring
    /\ Requeueable(j)
    /\ requeues < MaxRequeues
    /\ requeues' = requeues + 1
    /\ jobs' = [jobs EXCEPT ![j].state = "queued", ![j].attempts = 0,
                            ![j].due = TRUE]
    /\ UNCHANGED <<ring, thread, clock, owed, orphans, failures, deaths, restarts>>

\* "Clear completed", with or without the failed ones.
ClearCompleted ==
    /\ \E states \in {{"done"}, {"done", "failed"}} :
          ring' = {j \in ring : jobs[j].state \notin states}
    /\ ring' # ring
    /\ UNCHANGED <<jobs, thread, clock, owed, orphans, counts>>

------------------------------------------------------------------------------
(* Dead threads and restarts.                                              *)

Die(d) ==
    /\ thread[d].pc # "dead"
    /\ deaths < MaxDeaths
    /\ deaths' = deaths + 1
    /\ thread' = [thread EXCEPT ![d] = [Resting EXCEPT !.pc = "dead"]]
    /\ orphans' = orphans \cup (IF thread[d].pc = "run" THEN {thread[d].job} ELSE {})
    /\ UNCHANGED <<log, clock, owed, failures, requeues, restarts>>

\* A dead thread is replaced; nothing is done about the job it was on.
EnsureAlive(d) ==
    /\ thread[d].pc = "dead"
    /\ thread' = [thread EXCEPT ![d] = Resting]
    /\ UNCHANGED <<log, clock, owed, orphans, counts>>

\* The process starts again: the queue was only in its memory.
Restart ==
    /\ restarts < MaxRestarts
    /\ restarts' = restarts + 1
    /\ ring' = {}
    /\ thread' = [d \in Drainers |-> Resting]
    /\ UNCHANGED <<jobs, clock, owed, orphans, failures, requeues, deaths>>

------------------------------------------------------------------------------
Drain(d) == Scan(d) \/ Check(d) \/ Count(d) \/ Start(d) \/ Succeed(d) \/ Fail(d)

Next ==
    \/ \E j \in Jobs : Enqueue(j) \/ BecomeDue(j) \/ Requeue(j)
    \/ \E t \in Tasks : EnqueueDuplicate(t)
    \/ \E d \in Drainers : Drain(d) \/ Die(d) \/ EnsureAlive(d)
    \/ ClearCompleted
    \/ Restart

Spec == Init /\ [][Next]_vars

\* Time passes; a draining thread that is alive goes on and a dead one is
\* replaced on the scheduler's next tick.
FairSpec ==
    /\ Spec
    /\ \A d \in Drainers : WF_vars(Drain(d)) /\ WF_vars(EnsureAlive(d))
    /\ \A j \in Jobs : WF_vars(BecomeDue(j))
==============================================================================
