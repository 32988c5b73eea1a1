---------------------------- MODULE TaskQueueProofs ----------------------------
(***************************************************************************)
(* A listed job in state "running" is being run, or its thread died on it: *)
(* for any number of jobs, threads, attempts and restarts.  The log keeps  *)
(* its limit, and drops finished jobs before live ones.                    *)
(***************************************************************************)
EXTENDS TaskQueueProperties, Sums

\* The changes a step makes to a job.
LEMMA FreshJob ==
  ASSUME NEW t \in Tasks
  PROVE  [task |-> t, state |-> "new", attempts |-> 0, due |-> FALSE, born |-> 0] \in Job
  BY DEF Job, States

\* A job that _claim marks running is a job.
LEMMA StartedJob ==
  ASSUME NEW j \in Job, NEW n \in Nat
  PROVE  [j EXCEPT !.attempts = n, !.state = "running"] \in Job
  BY DEF Job, States

\* A job that is queued again after a failure, or anew, is a job.
LEMMA QueuedJob ==
  ASSUME NEW j \in Job, NEW n \in Nat, NEW b \in BOOLEAN
  PROVE  [j EXCEPT !.state = "queued", !.born = n, !.due = b] \in Job
  BY DEF Job, States

\* A job that an admin's retry resets is a job, and is queued.
LEMMA RequeuedJob ==
  ASSUME NEW j \in Job
  PROVE  /\ [j EXCEPT !.state = "queued", !.attempts = 0, !.due = TRUE] \in Job
         /\ [j EXCEPT !.state = "queued", !.attempts = 0, !.due = TRUE].state = "queued"
  BY DEF Job, States

\* A job whose time has come is a job in the same state.
LEMMA DueJob ==
  ASSUME NEW j \in Job
  PROVE  [j EXCEPT !.due = TRUE] \in Job /\ [j EXCEPT !.due = TRUE].state = j.state
  BY DEF Job

\* A job that is done or parked does not run.
LEMMA EndedJob ==
  ASSUME NEW j \in Job
  PROVE  /\ [j EXCEPT !.state = "done"].state # "running"
         /\ Parked(j).state # "running"
  BY DEF Job, Parked

\* A thread after it has finished with a job.
LEMMA RestTyped ==
  ASSUME NEW d \in Drainers, NEW left \in SUBSET Jobs
  PROVE  Rest(d, left) \in Thread /\ Rest(d, left).pc \in {"idle", "check"}
  BY DEF Rest, Resting, Thread, PCs

\* A drainer that goes on is idle or at the next check.
LEMMA GoneOn ==
  ASSUME TypeOK, NEW d \in Drainers, GoOn(d)
  PROVE  /\ thread' \in [Drainers -> Thread]
         /\ thread'[d].pc \in {"idle", "check"}
         /\ \A e \in Drainers \ {d} : thread'[e] = thread[e]
  <1>1. PICK left \in {{}, thread[d].batch} :
           thread' = [thread EXCEPT ![d] = Rest(d, left)]
    BY DEF GoOn
  <1>2. left \in SUBSET Jobs
    BY DEF TypeOK, Thread
  <1> QED
    BY <1>1, <1>2, RestTyped DEF TypeOK

\* The empty queue is well typed.
LEMMA InitTyped == Init => TypeOK
  <1> SUFFICES ASSUME Init PROVE TypeOK
    OBVIOUS
  <1>1. jobs \in [Jobs -> Job]
    <2> DEFINE fresh == {[task |-> t, state |-> "new", attempts |-> 0,
                          due |-> FALSE, born |-> 0] : t \in Tasks}
    <2>1. jobs \in [Jobs -> fresh]
      BY DEF Init
    <2>2. \A r \in fresh : r \in Job
      BY FreshJob
    <2> HIDE DEF fresh
    <2> QED
      BY <2>1, <2>2
  <1>2. thread \in [Drainers -> Thread] /\ \A d \in Drainers : thread[d].pc = "idle"
    BY DEF Init, Resting, Thread, PCs
  <1> QED
    BY <1>1, <1>2 DEF Init, TypeOK

\* One step of a draining thread.
LEMMA DrainTyped ==
  ASSUME TypeOK, NEW d \in Drainers, Drain(d)
  PROVE  TypeOK'
<1> USE DEF TypeOK
<1>1. CASE Scan(d)
  <2>1. PICK batch \in SUBSET Jobs :
           thread' = [thread EXCEPT ![d] = [Resting EXCEPT !.pc = "check",
                                                           !.batch = batch]]
    BY <1>1 DEF Scan, Ready
  <2>2. [Resting EXCEPT !.pc = "check", !.batch = batch] \in Thread
    BY DEF Resting, Thread, PCs
  <2> QED
    BY <1>1, <2>1, <2>2 DEF Scan, log, counts, Resting
<1>2. CASE Check(d)
  <2>1. PICK j \in Oldest(thread[d].batch) :
           thread' = [thread EXCEPT ![d] =
                        IF Waiting(j) THEN [@ EXCEPT !.pc = "count",
                                                     !.batch = thread[d].batch \ {j},
                                                     !.job = j]
                        ELSE Rest(d, thread[d].batch \ {j})]
    BY <1>2 DEF Check
  <2>2. j \in Jobs /\ thread[d].batch \ {j} \in SUBSET Jobs
    BY DEF Oldest, Thread
  <2>3. [thread[d] EXCEPT !.pc = "count", !.batch = thread[d].batch \ {j},
                          !.job = j] \in Thread
    BY <2>2 DEF Thread, PCs
  <2> QED
    BY <1>2, <2>1, <2>2, <2>3, RestTyped DEF Check, log, counts, Thread
<1>3. CASE Count(d)
  <2>1. thread[d].job \in Jobs /\ jobs[thread[d].job].attempts + 1 \in Nat
    BY <1>3 DEF Count, Job
  <2>2. [thread[d] EXCEPT !.pc = "start",
                          !.attempt = jobs[thread[d].job].attempts + 1] \in Thread
    BY <2>1 DEF Thread, PCs
  <2>3. thread' = [thread EXCEPT ![d] =
           [thread[d] EXCEPT !.pc = "start",
                             !.attempt = jobs[thread[d].job].attempts + 1]]
    BY <1>3 DEF Count
  <2> QED
    BY <1>3, <2>1, <2>2, <2>3 DEF Count, log, counts, Thread
<1>4. CASE Start(d)
  <2>1. thread[d].job \in Jobs
    BY <1>4 DEF Start
  <2>2. [thread[d] EXCEPT !.pc = "run"] \in Thread
    BY DEF Thread, PCs
  <2>3. [jobs[thread[d].job] EXCEPT !.attempts = thread[d].attempt,
                                    !.state = "running"] \in Job
    BY <2>1, StartedJob DEF Thread
  <2>4. thread' = [thread EXCEPT ![d] = [thread[d] EXCEPT !.pc = "run"]]
    BY <1>4 DEF Start
  <2>5. jobs' = [jobs EXCEPT ![thread[d].job] =
                   [jobs[thread[d].job] EXCEPT !.attempts = thread[d].attempt,
                                               !.state = "running"]]
    BY <1>4 DEF Start
  <2> QED
    BY <1>4, <2>1, <2>2, <2>3, <2>4, <2>5 DEF Start, counts, Thread
<1>5. CASE Succeed(d)
  <2>1. thread[d].job \in Jobs
    BY <1>5 DEF Succeed
  <2>2. [jobs[thread[d].job] EXCEPT !.state = "done"] \in Job
    BY <2>1 DEF Job, States
  <2>3. jobs' = [jobs EXCEPT ![thread[d].job] =
                   [jobs[thread[d].job] EXCEPT !.state = "done"]]
    BY <1>5 DEF Succeed
  <2>4. /\ thread' \in [Drainers -> Thread]
        /\ \A e \in Drainers :
              thread'[e].pc \in {"count", "start", "run"} => thread'[e].job \in Jobs
    BY <1>5, GoneOn DEF Succeed
  <2>5. jobs' \in [Jobs -> Job]
    BY <2>1, <2>2, <2>3
  <2> QED
    BY <1>5, <2>4, <2>5 DEF Succeed, counts
<1>6. CASE Fail(d)
  <2>1. thread[d].job \in Jobs
    BY <1>6 DEF Fail
  <2>2. Parked(jobs[thread[d].job]) \in Job
    BY <2>1 DEF Parked, Job, States
  <2> QED
    BY <1>6, <2>1, <2>2, GoneOn DEF Fail
<1> QED
  BY <1>1, <1>2, <1>3, <1>4, <1>5, <1>6 DEF Drain

\* Every action keeps the types, one case for each.
LEMMA NextTyped == TypeOK /\ [Next]_vars => TypeOK'
<1> SUFFICES ASSUME TypeOK, [Next]_vars PROVE TypeOK'
  OBVIOUS
<1> USE DEF TypeOK
<1>1. ASSUME NEW j \in Jobs, Enqueue(j) PROVE TypeOK'
  <2>1. [jobs[j] EXCEPT !.state = "queued", !.born = clock + 1,
                        !.due = jobs[j].task \notin Chained] \in Job
    <3>1. clock + 1 \in Nat /\ (jobs[j].task \notin Chained) \in BOOLEAN
      OBVIOUS
    <3> QED
      BY <3>1, QueuedJob
  <2>2. ring' \subseteq Jobs
    BY <1>1 DEF Enqueue, Listing
  <2>3. owed' \subseteq Tasks
    BY <1>1 DEF Enqueue, Job
  <2>4. jobs' = [jobs EXCEPT ![j] =
                   [jobs[j] EXCEPT !.state = "queued", !.born = clock + 1,
                                   !.due = jobs[j].task \notin Chained]]
    BY <1>1 DEF Enqueue
  <2>5. jobs' \in [Jobs -> Job]
    BY <2>1, <2>4
  <2>6. clock' \in Nat /\ thread' = thread /\ UNCHANGED <<orphans, counts>>
    BY <1>1 DEF Enqueue
  <2> QED
    BY <2>2, <2>3, <2>5, <2>6 DEF counts
<1>2. ASSUME NEW j \in Jobs, BecomeDue(j) PROVE TypeOK'
  <2>1. [jobs[j] EXCEPT !.due = TRUE] \in Job
    BY DueJob
  <2>2. jobs' = [jobs EXCEPT ![j] = [jobs[j] EXCEPT !.due = TRUE]]
    BY <1>2 DEF BecomeDue
  <2> QED
    BY <1>2, <2>1, <2>2 DEF BecomeDue, counts
<1>3. ASSUME NEW j \in Jobs, Requeue(j) PROVE TypeOK'
  <2>1. [jobs[j] EXCEPT !.state = "queued", !.attempts = 0, !.due = TRUE] \in Job
    BY RequeuedJob
  <2>2. jobs' = [jobs EXCEPT ![j] = [jobs[j] EXCEPT !.state = "queued",
                                       !.attempts = 0, !.due = TRUE]]
    BY <1>3 DEF Requeue
  <2> QED
    BY <1>3, <2>1, <2>2 DEF Requeue
<1>4. ASSUME NEW t \in Tasks, EnqueueDuplicate(t) PROVE TypeOK'
  BY <1>4 DEF EnqueueDuplicate, log, counts
<1>5. ASSUME NEW d \in Drainers, Drain(d) PROVE TypeOK'
  BY <1>5, DrainTyped
<1>6. ASSUME NEW d \in Drainers, Die(d) PROVE TypeOK'
  <2>1. [Resting EXCEPT !.pc = "dead"] \in Thread
    BY DEF Resting, Thread, PCs
  <2> QED
    BY <1>6, <2>1 DEF Die, log, Resting
<1>7. ASSUME NEW d \in Drainers, EnsureAlive(d) PROVE TypeOK'
  <2>1. Resting \in Thread
    BY DEF Resting, Thread, PCs
  <2> QED
    BY <1>7, <2>1 DEF EnsureAlive, log, counts, Resting
<1>8. CASE ClearCompleted
  BY <1>8 DEF ClearCompleted, counts
<1>9. CASE Restart
  <2>1. Resting \in Thread
    BY DEF Resting, Thread, PCs
  <2> QED
    BY <1>9, <2>1 DEF Restart, Resting
<1>10. CASE UNCHANGED vars
  BY <1>10 DEF vars
<1> QED
  BY <1>1, <1>2, <1>3, <1>4, <1>5, <1>6, <1>7, <1>8, <1>9, <1>10 DEF Next

(***************************************************************************)
(* Every variable keeps its type; a thread inside run_job has a job.       *)
(***************************************************************************)
THEOREM TaskTypes == Spec => []TypeOK
  BY InitTyped, NextTyped, PTL DEF Spec

------------------------------------------------------------------------------
\* A running job whose thread keeps running it stays accounted for.
LEMMA DrainKeepsRunner ==
  ASSUME TypeOK, RunningHasRunner, NEW d \in Drainers, Drain(d)
  PROVE  RunningHasRunner'
<1> SUFFICES ASSUME NEW j \in ring', jobs'[j].state = "running"
             PROVE  (j \in orphans \/ \E e \in Drainers : Runs(e, j))'
  BY DEF RunningHasRunner
<1>0. ring' = ring /\ orphans' = orphans /\ j \in Jobs
  BY DEF Drain, Scan, Check, Count, Start, Succeed, Fail, log, TypeOK
<1>1. CASE /\ jobs' = jobs /\ thread[d].pc # "run"
           /\ \A e \in Drainers \ {d} : thread'[e] = thread[e]
  BY <1>0, <1>1 DEF RunningHasRunner, Runs
<1>2. CASE Start(d)
  <2>1. thread'[d].pc = "run" /\ thread'[d].job = thread[d].job
    BY <1>2 DEF Start, TypeOK, Thread
  <2>2. CASE j = thread[d].job
    BY <2>1, <2>2 DEF Runs
  <2>3. CASE j # thread[d].job
    <3>1. jobs'[j] = jobs[j] /\ thread[d].pc # "run"
      BY <1>0, <1>2, <2>3 DEF Start, TypeOK
    <3>2. \A e \in Drainers \ {d} : thread'[e] = thread[e]
      BY <1>2 DEF Start, TypeOK
    <3> QED
      BY <1>0, <3>1, <3>2 DEF RunningHasRunner, Runs
  <2> QED
    BY <2>2, <2>3
<1>3. CASE Succeed(d) \/ Fail(d)
  <2>1. thread[d].job \in Jobs /\ \A e \in Drainers \ {d} : thread'[e] = thread[e]
    BY <1>3, GoneOn DEF Succeed, Fail, TypeOK
  <2>2. jobs'[thread[d].job].state # "running"
    <3> DEFINE k == thread[d].job
    <3>1. jobs[k] \in Job
      BY <2>1 DEF TypeOK
    <3>2. jobs' = [jobs EXCEPT ![k] = [jobs[k] EXCEPT !.state = "done"]]
          \/ jobs' = [jobs EXCEPT ![k] = Parked(jobs[k])]
      BY <1>3 DEF Succeed, Fail
    <3>3. jobs'[k] = [jobs[k] EXCEPT !.state = "done"] \/ jobs'[k] = Parked(jobs[k])
      BY <2>1, <3>2 DEF TypeOK
    <3> QED
      BY <3>1, <3>3, EndedJob
  <2>3. j # thread[d].job
    BY <2>2
  <2>4. jobs'[j] = jobs[j]
    BY <1>0, <1>3, <2>3 DEF Succeed, Fail, TypeOK
  <2> QED
    BY <1>0, <2>1, <2>3, <2>4 DEF RunningHasRunner, Runs
<1>4. Scan(d) \/ Check(d) \/ Count(d) =>
        /\ jobs' = jobs /\ thread[d].pc # "run"
        /\ \A e \in Drainers \ {d} : thread'[e] = thread[e]
  BY DEF Scan, Check, Count, log, TypeOK
<1> QED
  BY <1>1, <1>2, <1>3, <1>4 DEF Drain

\* Every action keeps a running job in the hands of a thread, or recoverable.
LEMMA NextKeepsRunner ==
  TypeOK /\ RunningHasRunner /\ [Next]_vars => RunningHasRunner'
<1> SUFFICES ASSUME TypeOK, RunningHasRunner, [Next]_vars PROVE RunningHasRunner'
  OBVIOUS
<1> USE DEF RunningHasRunner, Runs
<1>1. ASSUME NEW j \in Jobs, Enqueue(j) PROVE RunningHasRunner'
  <2>1. /\ jobs'[j].state = "queued" /\ \A k \in Jobs \ {j} : jobs'[k] = jobs[k]
        /\ thread' = thread /\ orphans' = orphans
    BY <1>1 DEF Enqueue, TypeOK, Job
  <2>2. ring' \subseteq ring \cup {j}
    BY <1>1 DEF Enqueue, Listing
  <2> QED
    BY <2>1, <2>2 DEF TypeOK
<1>2. ASSUME NEW j \in Jobs, BecomeDue(j) \/ Requeue(j) PROVE RunningHasRunner'
  <2>1. \A k \in Jobs \ {j} : jobs'[k] = jobs[k]
    BY <1>2 DEF BecomeDue, Requeue, TypeOK
  <2>2. jobs'[j].state # "running"
    <3>1. CASE BecomeDue(j)
      <4>1. jobs'[j] = [jobs[j] EXCEPT !.due = TRUE] /\ Waiting(j)
        BY <3>1 DEF BecomeDue, TypeOK
      <4> QED
        BY <4>1, DueJob DEF Waiting, TypeOK
    <3>2. CASE Requeue(j)
      <4>1. jobs'[j] = [jobs[j] EXCEPT !.state = "queued", !.attempts = 0,
                                       !.due = TRUE]
        BY <3>2 DEF Requeue, TypeOK
      <4> QED
        BY <4>1, RequeuedJob DEF TypeOK
    <3> QED
      BY <1>2, <3>1, <3>2
  <2> QED
    BY <1>2, <2>1, <2>2 DEF BecomeDue, Requeue, TypeOK
<1>3. ASSUME NEW t \in Tasks, EnqueueDuplicate(t) PROVE RunningHasRunner'
  BY <1>3 DEF EnqueueDuplicate, log
<1>4. ASSUME NEW d \in Drainers, Drain(d) PROVE RunningHasRunner'
  BY <1>4, DrainKeepsRunner
<1>5. ASSUME NEW d \in Drainers, Die(d) PROVE RunningHasRunner'
  <2>1. /\ \A e \in Drainers \ {d} : thread'[e] = thread[e]
        /\ jobs' = jobs /\ ring' = ring
        /\ orphans' = orphans \cup (IF thread[d].pc = "run" THEN {thread[d].job} ELSE {})
    BY <1>5 DEF Die, log, TypeOK
  <2> QED
    BY <2>1
<1>6. ASSUME NEW d \in Drainers, EnsureAlive(d) PROVE RunningHasRunner'
  <2>1. /\ \A e \in Drainers \ {d} : thread'[e] = thread[e]
        /\ jobs' = jobs /\ ring' = ring /\ orphans' = orphans /\ thread[d].pc = "dead"
    BY <1>6 DEF EnsureAlive, log, TypeOK
  <2> QED
    BY <2>1
<1>7. CASE ClearCompleted
  BY <1>7 DEF ClearCompleted
<1>8. CASE Restart
  BY <1>8 DEF Restart
<1>9. CASE UNCHANGED vars
  BY <1>9 DEF vars
<1> QED
  BY <1>1, <1>2, <1>3, <1>4, <1>5, <1>6, <1>7, <1>8, <1>9 DEF Next

(***************************************************************************)
(* Two threads may take the same job, a late outcome may overwrite an      *)
(* earlier one and the admin may press every button: a listed job marked   *)
(* "running" is being run unless its thread died on it.                    *)
(***************************************************************************)
THEOREM RunningAlwaysHasRunner == Spec => []RunningHasRunner
  <1>1. Init => RunningHasRunner
    BY DEF Init, RunningHasRunner
  <1> QED
    BY <1>1, TaskTypes, NextKeepsRunner, PTL DEF Spec

------------------------------------------------------------------------------
(***************************************************************************)
(* The log.  Its jobs are numbered in the order of their arrival, so a full*)
(* log has an oldest finished job, or an oldest job, that makes room.      *)
(***************************************************************************)

\* The jobs of r came one after the other, and all of them have come.
Numbered(r) ==
    /\ \A j \in r : jobs[j].state # "new" /\ jobs[j].born <= clock
    /\ \A j, k \in r : jobs[j].born = jobs[k].born => j = k

\* The inductive invariant behind LogBounded.
LogOrdered == IsFiniteSet(ring) /\ Numbered(ring) /\ LogBounded

\* Some jobs that came one after the other have an oldest one.
LEMMA OldestExists ==
  ASSUME TypeOK, NEW r \in SUBSET Jobs, r # {}, Numbered(r)
  PROVE  Oldest(r) # {} /\ Oldest(r) \subseteq r
<1> DEFINE D == {jobs[j].born : j \in r}
<1>1. \A j \in r : jobs[j].born \in Nat
  BY DEF TypeOK, Job
<1>2. D \in SUBSET Nat /\ D # {}
  BY <1>1
<1> HIDE DEF D
<1>3. PICK i \in D : \A n \in D : i <= n
  BY <1>2, LeastNatural
<1>4. PICK j \in r : i = jobs[j].born
  BY <1>3 DEF D
<1>5. ASSUME NEW k \in r \ {j} PROVE Older(j, k)
  <2>1. jobs[k].born \in D /\ jobs[j].born <= jobs[k].born
    BY <1>3, <1>4 DEF D
  <2>2. jobs[j].born # jobs[k].born
    BY <1>5 DEF Numbered
  <2> QED
    BY <1>1, <2>1, <2>2 DEF Older
<1> QED
  BY <1>5 DEF Oldest

\* A log that takes one more job stays within RING_SIZE.
LEMMA ListingFits ==
  ASSUME TypeOK, NEW r \in SUBSET Jobs, IsFiniteSet(r), Numbered(r),
         Cardinality(r) <= RingSize, NEW j \in Jobs
  PROVE  /\ Listing(r, j) \subseteq r \cup {j} /\ IsFiniteSet(Listing(r, j))
         /\ Cardinality(Listing(r, j)) <= RingSize
<1>1. Cardinality(r) \in Nat /\ RingSize \in Nat \ {0}
  BY FS_CardinalityType, TaskQueueAssumption
<1>2. CASE Cardinality(r) < RingSize
  <2>1. Listing(r, j) = r \cup {j}
    BY <1>2 DEF Listing
  <2> QED
    BY <1>1, <1>2, <2>1, FS_AddElement
<1>3. CASE ~ (Cardinality(r) < RingSize)
  <2> DEFINE over == {k \in r : Finished(k)}
             from == IF over # {} THEN over ELSE r
             rest == r \ Oldest(from)
  <2>1. Listing(r, j) = rest \cup {j}
    BY <1>3 DEF Listing
  <2>2. from \in SUBSET r /\ from # {}
    BY <1>1, <1>3, FS_EmptySet
  <2>3. Numbered(from)
    BY <2>2 DEF Numbered
  <2> HIDE DEF from
  <2>4. from \in SUBSET Jobs
    BY <2>2
  <2>5. PICK o \in Oldest(from) : o \in r
    BY <2>2, <2>3, <2>4, OldestExists
  <2>6. IsFiniteSet(r \ {o}) /\ Cardinality(r \ {o}) = Cardinality(r) - 1
    BY <2>5, FS_RemoveElement
  <2>7. rest \in SUBSET (r \ {o})
    BY <2>5
  <2> HIDE DEF rest
  <2>8. IsFiniteSet(rest) /\ Cardinality(rest) <= Cardinality(r) - 1
    BY <2>6, <2>7, FS_Subset
  <2>9. Cardinality(rest) \in Nat
    BY <2>8, FS_CardinalityType
  <2>10. /\ IsFiniteSet(rest \cup {j})
         /\ Cardinality(rest \cup {j}) <= Cardinality(rest) + 1
    <3>1. /\ IsFiniteSet(rest \cup {j})
          /\ Cardinality(rest \cup {j}) =
               IF j \in rest THEN Cardinality(rest) ELSE Cardinality(rest) + 1
      BY <2>8, FS_AddElement
    <3> QED
      BY <2>9, <3>1
  <2>11. Cardinality(rest \cup {j}) \in Nat
    BY <2>10, FS_CardinalityType
  <2>12. Cardinality(rest \cup {j}) <= RingSize
    BY <1>1, <2>8, <2>9, <2>10, <2>11
  <2>13. rest \subseteq r
    BY <2>7
  <2> QED
    BY <2>1, <2>10, <2>12, <2>13
<1> QED
  BY <1>2, <1>3

\* A step that lists no job and renumbers none keeps the log in order.
SameNumbers ==
    /\ clock' = clock
    /\ \A k \in ring : /\ jobs'[k].born = jobs[k].born
                       /\ jobs[k].state # "new" => jobs'[k].state # "new"

\* A log that only loses entries, with the counters unchanged, stays ordered.
LEMMA ShorterLog ==
  ASSUME LogOrdered, TypeOK, ring' \subseteq ring, SameNumbers
  PROVE  LogOrdered'
<1>1. IsFiniteSet(ring') /\ Cardinality(ring') <= Cardinality(ring)
  BY FS_Subset DEF LogOrdered
<1>2. Cardinality(ring) \in Nat /\ Cardinality(ring') \in Nat /\ RingSize \in Nat
  BY <1>1, FS_CardinalityType, TaskQueueAssumption DEF LogOrdered
<1>3. LogBounded'
  BY <1>1, <1>2 DEF LogOrdered, LogBounded
<1>4. Numbered(ring)'
  BY DEF LogOrdered, Numbered, SameNumbers
<1> QED
  BY <1>1, <1>3, <1>4 DEF LogOrdered

\* A new job gets the next number.
LEMMA EnqueueOrdered ==
  ASSUME LogOrdered, TypeOK, NEW j \in Jobs, Enqueue(j)
  PROVE  LogOrdered'
<1>1. PICK expired \in SUBSET ring : ring' = Listing(ring \ expired, j)
  BY DEF Enqueue
<1>2. /\ clock' = clock + 1 /\ clock \in Nat
      /\ jobs'[j].state = "queued" /\ jobs'[j].born = clock + 1
      /\ \A k \in Jobs \ {j} : jobs'[k] = jobs[k]
  BY DEF Enqueue, TypeOK, Job
<1> DEFINE r == ring \ expired
<1>3. r \in SUBSET Jobs /\ r \in SUBSET ring
  BY DEF TypeOK
<1>4. Numbered(r)
  BY <1>3 DEF Numbered, LogOrdered
<1> HIDE DEF r
<1>5. IsFiniteSet(r) /\ Cardinality(r) <= Cardinality(ring)
  BY <1>3, FS_Subset DEF LogOrdered
<1>6. Cardinality(r) <= RingSize
  <2>1. Cardinality(r) \in Nat /\ Cardinality(ring) \in Nat /\ RingSize \in Nat
    BY <1>5, FS_CardinalityType, TaskQueueAssumption DEF LogOrdered
  <2> QED
    BY <1>5, <2>1 DEF LogOrdered, LogBounded
<1>7. /\ Listing(r, j) \subseteq r \cup {j} /\ IsFiniteSet(Listing(r, j))
      /\ Cardinality(Listing(r, j)) <= RingSize
  BY <1>3, <1>4, <1>5, <1>6, ListingFits
<1>8. ring' = Listing(r, j)
  BY <1>1 DEF r
<1>9. Numbered(ring)'
  <2>1. \A k \in r \ {j} : /\ jobs'[k].state # "new"
                           /\ jobs'[k].born \in Nat /\ jobs'[k].born <= clock
    BY <1>2, <1>3, <1>4 DEF Numbered, TypeOK, Job
  <2>2. \A k, l \in r \ {j} : jobs'[k].born = jobs'[l].born => k = l
    BY <1>2, <1>3, <1>4 DEF Numbered
  <2> QED
    BY <1>2, <1>7, <1>8, <2>1, <2>2 DEF Numbered
<1> QED
  BY <1>7, <1>8, <1>9 DEF LogOrdered, LogBounded

\* A thread changes no job's number.
LEMMA DrainOrdered ==
  ASSUME LogOrdered, TypeOK, NEW d \in Drainers, Drain(d)
  PROVE  LogOrdered'
<1>1. ring' = ring /\ clock' = clock
  BY DEF Drain, Scan, Check, Count, Start, Succeed, Fail, log
<1>2. \A k \in ring : k \in Jobs /\ jobs[k] \in Job
  BY DEF TypeOK
<1>3. CASE jobs' = jobs
  BY <1>1, <1>3, ShorterLog DEF SameNumbers
<1>4. CASE Start(d) \/ Succeed(d) \/ Fail(d)
  <2> DEFINE j == thread[d].job
  <2>1. j \in Jobs /\ jobs[j] \in Job
    BY <1>4 DEF Start, Succeed, Fail, TypeOK
  <2>2. PICK new : /\ jobs' = [jobs EXCEPT ![j] = new]
                   /\ new.born = jobs[j].born /\ new.state # "new"
    <3>1. CASE Start(d)
      <4> DEFINE new == [jobs[j] EXCEPT !.attempts = thread[d].attempt,
                                        !.state = "running"]
      <4>1. jobs' = [jobs EXCEPT ![j] = new]
        BY <3>1 DEF Start
      <4>2. new.born = jobs[j].born /\ new.state # "new"
        BY <2>1 DEF Job
      <4> HIDE DEF new
      <4> QED
        BY <4>1, <4>2
    <3>2. CASE Succeed(d)
      <4> DEFINE new == [jobs[j] EXCEPT !.state = "done"]
      <4>1. jobs' = [jobs EXCEPT ![j] = new]
        BY <3>2 DEF Succeed
      <4>2. new.born = jobs[j].born /\ new.state # "new"
        BY <2>1 DEF Job
      <4> HIDE DEF new
      <4> QED
        BY <4>1, <4>2
    <3>3. CASE Fail(d)
      <4> DEFINE new == Parked(jobs[j])
      <4>1. jobs' = [jobs EXCEPT ![j] = new]
        BY <3>3 DEF Fail
      <4>2. new.born = jobs[j].born /\ new.state # "new"
        BY <2>1 DEF Job, Parked
      <4> HIDE DEF new
      <4> QED
        BY <4>1, <4>2
    <3> QED
      BY <1>4, <3>1, <3>2, <3>3
  <2>3. SameNumbers
    BY <1>1, <1>2, <2>1, <2>2 DEF SameNumbers, TypeOK
  <2> QED
    BY <1>1, <2>3, ShorterLog
<1> QED
  BY <1>3, <1>4 DEF Drain, Scan, Check, Count, log

\* Every action keeps the numbers of the log's entries distinct and in range.
LEMMA NextOrdered == TypeOK /\ LogOrdered /\ [Next]_vars => LogOrdered'
<1> SUFFICES ASSUME TypeOK, LogOrdered, [Next]_vars PROVE LogOrdered'
  OBVIOUS
<1>1. ASSUME NEW j \in Jobs, BecomeDue(j) \/ Requeue(j) PROVE LogOrdered'
  <2>1. PICK new : /\ jobs' = [jobs EXCEPT ![j] = new]
                   /\ new.born = jobs[j].born /\ new.state # "new"
    <3>1. CASE BecomeDue(j)
      <4> DEFINE new == [jobs[j] EXCEPT !.due = TRUE]
      <4>1. jobs' = [jobs EXCEPT ![j] = new] /\ Waiting(j)
        BY <3>1 DEF BecomeDue
      <4>2. new.born = jobs[j].born /\ new.state # "new"
        BY <4>1 DEF TypeOK, Job, Waiting
      <4> HIDE DEF new
      <4> QED
        BY <4>1, <4>2
    <3>2. CASE Requeue(j)
      <4> DEFINE new == [jobs[j] EXCEPT !.state = "queued", !.attempts = 0, !.due = TRUE]
      <4>1. jobs' = [jobs EXCEPT ![j] = new]
        BY <3>2 DEF Requeue
      <4>2. new.born = jobs[j].born /\ new.state # "new"
        BY DEF TypeOK, Job
      <4> HIDE DEF new
      <4> QED
        BY <4>1, <4>2
    <3> QED
      BY <1>1, <3>1, <3>2
  <2>2. ring' = ring /\ clock' = clock
    BY <1>1 DEF BecomeDue, Requeue
  <2>3. SameNumbers
    BY <2>1, <2>2 DEF SameNumbers, TypeOK
  <2> QED
    BY <2>2, <2>3, ShorterLog
<1>2. CASE \/ \E t \in Tasks : EnqueueDuplicate(t)
           \/ \E d \in Drainers : Die(d) \/ EnsureAlive(d)
           \/ ClearCompleted \/ Restart \/ UNCHANGED vars
  <2>1. ring' \subseteq ring /\ jobs' = jobs /\ clock' = clock
    BY <1>2 DEF EnqueueDuplicate, Die, EnsureAlive, ClearCompleted, Restart, vars, log
  <2> QED
    BY <2>1, ShorterLog DEF SameNumbers
<1> QED
  BY <1>1, <1>2, EnqueueOrdered, DrainOrdered DEF Next

\* At the start the log is empty.
LEMMA InitOrdered == Init => LogOrdered
<1> SUFFICES ASSUME Init PROVE LogOrdered
  OBVIOUS
<1>1. ring = {} /\ IsFiniteSet({}) /\ Cardinality({}) = 0
  BY FS_EmptySet DEF Init
<1> QED
  BY <1>1, TaskQueueAssumption DEF LogOrdered, Numbered, LogBounded

\* The log's entries are ordered in every reachable state.
LEMMA AlwaysOrdered == Spec => []LogOrdered
  BY InitOrdered, TaskTypes, NextOrdered, PTL DEF Spec

(***************************************************************************)
(* The log never outgrows RING_SIZE: a job that comes in when it is full   *)
(* always finds an older one to replace.                                   *)
(***************************************************************************)
THEOREM LogAlwaysBounded == Spec => []LogBounded
<1>1. LogOrdered => LogBounded
  BY DEF LogOrdered
<1> QED
  BY <1>1, AlwaysOrdered, PTL

\* A step drops a live job only with all that is listed, or to make room
\* among live jobs.
LEMMA StepKeepsLive ==
  TypeOK /\ LogOrdered /\ [Next]_vars =>
     \A j \in ring : (Live(j) /\ j \notin ring' /\ restarts' = restarts)
                     => \A k \in ring : Live(k) \/ k \notin ring'
<1> SUFFICES ASSUME TypeOK, LogOrdered, [Next]_vars, NEW j \in ring, Live(j),
                    j \notin ring', restarts' = restarts, NEW k \in ring, k \in ring'
             PROVE  Live(k)
  OBVIOUS
<1>1. \A i \in ring : Live(i) <=> ~ Finished(i)
  BY DEF LogOrdered, Numbered, TypeOK, Job, States, Live, Finished
<1>2. ring' # ring
  OBVIOUS
<1>3. ~ ClearCompleted
  BY <1>1 DEF ClearCompleted, Live
<1>4. ~ Restart
  BY DEF Restart, TypeOK
<1>5. PICK i \in Jobs : Enqueue(i)
  BY <1>2, <1>3, <1>4 DEF Next, vars, BecomeDue, Requeue, EnqueueDuplicate, Die, EnsureAlive,
     Drain, Scan, Check, Count, Start, Succeed, Fail, log
<1>6. PICK expired \in SUBSET {h \in ring : Finished(h)} :
         ring' = Listing(ring \ expired, i)
  BY <1>5 DEF Enqueue
<1> DEFINE r == ring \ expired
           over == {h \in r : Finished(h)}
<1>7. j \in r
  BY <1>1, <1>6
<1>8. ring' = (r \ Oldest(IF over # {} THEN over ELSE r)) \cup {i}
  BY <1>6, <1>7 DEF Listing
<1>9. over = {}
  <2> SUFFICES ASSUME over # {} PROVE FALSE
    OBVIOUS
  <2>1. j \in Oldest(over)
    BY <1>7, <1>8
  <2> QED
    BY <1>1, <2>1 DEF Oldest
<1>10. k # i
  BY <1>5 DEF Enqueue, LogOrdered, Numbered
<1>11. k \in r
  BY <1>8, <1>10
<1> QED
  BY <1>1, <1>9, <1>11

(***************************************************************************)
(* A live job leaves the log only with the process, or when no finished    *)
(* job is listed that could go instead.                                    *)
(***************************************************************************)
THEOREM LiveJobsAlwaysKept == Spec => LiveJobsKept
<1> DEFINE Kept == \A j \in ring : (Live(j) /\ j \notin ring' /\ restarts' = restarts)
                                   => \A k \in ring : Live(k) \/ k \notin ring'
<1>1. TypeOK /\ LogOrdered /\ [Next]_vars => [Kept]_vars
  BY StepKeepsLive
<1>2. Spec => [][Kept]_vars
  BY <1>1, TaskTypes, AlwaysOrdered, PTL DEF Spec
<1> QED
  BY <1>2 DEF LiveJobsKept
==============================================================================
