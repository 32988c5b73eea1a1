----------------------------- MODULE OutboxProofs -----------------------------
(***************************************************************************)
(* The browser's outbox loses nothing and sends nothing that was withdrawn,*)
(* for every number of tabs, calls, retries and closed tabs.               *)
(***************************************************************************)
EXTENDS OutboxProperties, Sums

------------------------------------------------------------------------------
(* What `Remaining` leaves of a queue.                                     *)

\* A job appended to a queue is added to its jobs.
LEMMA AppendedRange ==
  ASSUME NEW S, NEW q \in Seq(S), NEW j \in S
  PROVE  Append(q, j) \in Seq(S) /\ Range(Append(q, j)) = Range(q) \cup {j}
<1>1. /\ DOMAIN q = 1..Len(q) /\ Len(q) \in Nat
      /\ DOMAIN Append(q, j) = 1..(Len(q) + 1)
      /\ \A i \in 1..Len(q) : Append(q, j)[i] = q[i]
      /\ Append(q, j)[Len(q) + 1] = j
  OBVIOUS
<1>2. 1..(Len(q) + 1) = (1..Len(q)) \cup {Len(q) + 1}
  BY <1>1
<1> QED
  BY <1>1, <1>2 DEF Range

\* The first job of a queue, and the rest, are jobs of the queue.
LEMMA QueueParts ==
  ASSUME NEW S, NEW q \in Seq(S), q # <<>>
  PROVE  /\ Head(q) \in Range(q) /\ Tail(q) \in Seq(S)
         /\ Range(q) = {Head(q)} \cup Range(Tail(q))
<1>1. /\ Len(q) \in Nat /\ Len(q) > 0 /\ DOMAIN q = 1..Len(q) /\ Head(q) = q[1]
      /\ Tail(q) \in Seq(S) /\ DOMAIN Tail(q) = 1..(Len(q) - 1)
      /\ \A i \in 1..(Len(q) - 1) : Tail(q)[i] = q[i + 1]
  OBVIOUS
<1>2. \A i \in 1..Len(q) : i = 1 \/ i - 1 \in 1..(Len(q) - 1)
  BY <1>1
<1>3. \A i \in 1..(Len(q) - 1) : i + 1 \in 1..Len(q)
  BY <1>1
<1>4. Range(q) \subseteq {Head(q)} \cup Range(Tail(q))
  <2> SUFFICES ASSUME NEW i \in 1..Len(q)
               PROVE  q[i] = q[1] \/ q[i] \in Range(Tail(q))
    BY <1>1 DEF Range
  <2>1. CASE i # 1
    <3>1. i - 1 \in 1..(Len(q) - 1) /\ Tail(q)[i - 1] = q[(i - 1) + 1]
      BY <1>1, <1>2, <2>1
    <3>2. (i - 1) + 1 = i
      OBVIOUS
    <3> QED
      BY <1>1, <3>1, <3>2 DEF Range
  <2> QED
    BY <2>1
<1>5. Range(Tail(q)) \subseteq Range(q) /\ Head(q) \in Range(q)
  BY <1>1, <1>3 DEF Range
<1> QED
  BY <1>1, <1>4, <1>5

\* `upTo` of Remaining, as far as index k.
KeptUpTo(q, js, k, f) ==
    f = [i \in 0..k |-> IF i = 0 THEN <<>>
                        ELSE IF q[i] \in js THEN f[i - 1]
                        ELSE Append(f[i - 1], q[i])]

\* Its entries.
LEMMA KeptAt ==
  ASSUME NEW q, NEW js, NEW k, NEW f, KeptUpTo(q, js, k, f), NEW i \in 0..k
  PROVE  f[i] = IF i = 0 THEN <<>> ELSE IF q[i] \in js THEN f[i - 1]
                ELSE Append(f[i - 1], q[i])
<1> DEFINE g == [h \in 0..k |-> IF h = 0 THEN <<>>
                                ELSE IF q[h] \in js THEN f[h - 1]
                                ELSE Append(f[h - 1], q[h])]
<1>1. g[i] = IF i = 0 THEN <<>> ELSE IF q[i] \in js THEN f[i - 1]
             ELSE Append(f[i - 1], q[i])
  OBVIOUS
<1>2. f = g
  BY DEF KeptUpTo
<1> HIDE DEF g
<1> QED
  BY <1>1, <1>2

\* There is one for every sequence.
LEMMA KeptExists ==
  ASSUME NEW q, NEW js, NEW n \in Nat
  PROVE  \E f : KeptUpTo(q, js, n, f)
<1> DEFINE D == {k \in 0..n : ~ \E f : KeptUpTo(q, js, k, f)}
<1> SUFFICES ASSUME D # {} PROVE FALSE
  OBVIOUS
<1>1. D \in SUBSET (0..n)
  OBVIOUS
<1> HIDE DEF D
<1>2. PICK k \in D : \A j \in D : k <= j
  BY <1>1, LeastNumber
<1>3. k \in 0..n /\ ~ \E f : KeptUpTo(q, js, k, f)
  BY DEF D
<1>4. CASE k = 0
  <2> DEFINE f == [i \in 0..0 |-> <<>>]
  <2>1. KeptUpTo(q, js, 0, f)
    BY DEF KeptUpTo
  <2> QED
    BY <1>3, <1>4, <2>1
<1>5. CASE k # 0
  <2>1. k - 1 \in 0..n /\ k - 1 \notin D
    BY <1>2, <1>3, <1>5
  <2>2. PICK f : KeptUpTo(q, js, k - 1, f)
    BY <2>1 DEF D
  <2> DEFINE e(h, i) == IF i = 0 THEN <<>>
                        ELSE IF q[i] \in js THEN h[i - 1]
                        ELSE Append(h[i - 1], q[i])
             g == [i \in 0..k |-> IF i = k THEN e(f, k) ELSE f[i]]
  <2>3. ASSUME NEW i \in 0..k PROVE g[i] = e(g, i)
    <3>1. i # 0 => g[i - 1] = f[i - 1]
      BY <1>3
    <3>2. e(g, i) = e(f, i)
      BY <3>1
    <3>3. i # k => f[i] = e(f, i)
      BY <1>3, <2>2, KeptAt
    <3> QED
      BY <3>2, <3>3
  <2>4. KeptUpTo(q, js, k, g)
    BY <2>3 DEF KeptUpTo
  <2> QED
    BY <1>3, <2>4
<1> QED
  BY <1>4, <1>5

\* What remains of a queue are its jobs without those of js.
LEMMA RemainingIs ==
  ASSUME NEW S, NEW q \in Seq(S), NEW js
  PROVE  /\ Remaining(q, js) \in Seq(S)
         /\ Range(Remaining(q, js)) = Range(q) \ js
<1>1. Len(q) \in Nat /\ DOMAIN q = 1..Len(q) /\ \A i \in 1..Len(q) : q[i] \in S
  OBVIOUS
<1>2. PICK f : KeptUpTo(q, js, Len(q), f) /\ Remaining(q, js) = f[Len(q)]
  <2> DEFINE g == CHOOSE h : KeptUpTo(q, js, Len(q), h)
  <2>1. KeptUpTo(q, js, Len(q), g)
    BY <1>1, KeptExists
  <2>2. Remaining(q, js) = g[Len(q)]
    BY DEF Remaining, KeptUpTo
  <2> QED
    BY <2>1, <2>2
<1>3. /\ f[0] = <<>>
      /\ \A i \in 1..Len(q) : f[i] = IF q[i] \in js THEN f[i - 1]
                                     ELSE Append(f[i - 1], q[i])
  <2>1. 0 \in 0..Len(q) /\ \A i \in 1..Len(q) : i \in 0..Len(q) /\ i # 0
    BY <1>1
  <2> QED
    BY <1>2, <2>1, KeptAt
<1> DEFINE P(i) == f[i] \in Seq(S) /\ Range(f[i]) = {q[j] : j \in 1..i} \ js
           D == {i \in 0..Len(q) : ~ P(i)}
<1>4. D = {}
  <2> SUFFICES ASSUME D # {} PROVE FALSE
    OBVIOUS
  <2>1. D \in SUBSET (0..Len(q))
    OBVIOUS
  <2> HIDE DEF D
  <2>2. PICK k \in D : \A j \in D : k <= j
    BY <1>1, <2>1, LeastNumber
  <2>3. k \in 0..Len(q) /\ ~ P(k)
    BY DEF D
  <2>4. CASE k = 0
    <3>1. <<>> \in Seq(S) /\ Range(<<>>) = {}
      BY DEF Range
    <3>2. {q[j] : j \in 1..0} = {}
      OBVIOUS
    <3> QED
      BY <1>3, <2>3, <2>4, <3>1, <3>2
  <2>5. CASE k # 0
    <3>1. k - 1 \in 0..Len(q) /\ k - 1 \notin D /\ k \in 1..Len(q)
      BY <1>1, <2>2, <2>3, <2>5
    <3>2. P(k - 1)
      BY <3>1 DEF D
    <3>3. {q[j] : j \in 1..k} = {q[j] : j \in 1..(k - 1)} \cup {q[k]}
      <4>1. 1..k = (1..(k - 1)) \cup {k}
        BY <3>1
      <4> QED
        BY <4>1
    <3>4. CASE q[k] \in js
      BY <1>3, <2>3, <3>1, <3>2, <3>3, <3>4
    <3>5. CASE q[k] \notin js
      <4>1. f[k] = Append(f[k - 1], q[k]) /\ q[k] \in S /\ f[k - 1] \in Seq(S)
        BY <1>1, <1>3, <3>1, <3>2, <3>5
      <4>2. f[k] \in Seq(S) /\ Range(f[k]) = Range(f[k - 1]) \cup {q[k]}
        BY <4>1, AppendedRange
      <4> QED
        BY <2>3, <3>2, <3>3, <3>5, <4>2
    <3> QED
      BY <3>4, <3>5
  <2> QED
    BY <2>4, <2>5
<1>5. P(Len(q))
  <2>1. Len(q) \in 0..Len(q)
    BY <1>1
  <2> HIDE DEF P
  <2> QED
    BY <1>4, <2>1
<1>6. Range(q) = {q[j] : j \in 1..Len(q)}
  BY <1>1 DEF Range
<1> QED
  BY <1>2, <1>5, <1>6

------------------------------------------------------------------------------
(* What the operations make of the queue and of the storage.               *)

Attempts == 0..(MaxAttempts - 1)

\* The storage without some jobs, and with one more.
LEMMA StoreIs ==
  ASSUME kept \in [Stored -> Attempts]
  PROVE  /\ \A js : /\ DOMAIN Without(js) = Stored \ js
                    /\ Without(js) \in [Stored \ js -> Attempts]
         /\ \A j, n : n \in Attempts =>
              /\ DOMAIN StoredWith(j, n) = Stored \cup {j}
              /\ StoredWith(j, n) \in [Stored \cup {j} -> Attempts]
  BY DEF Without, Restrict, Stored, StoredWith

\* A job is queued, and jobs in gone and out leave the queue.
Enqueued(t, j, gone, out) ==
    /\ queue' \in [Tabs -> Seq(Jobs)]
    /\ \A u \in Tabs \ {t} : queue'[u] = queue[u]
    /\ Range(queue'[t]) = Range(queue[t]) \ (gone \cup out)
    /\ kept' \in [Stored \ (gone \cup out) -> Attempts]
    /\ Stored' = Stored \ (gone \cup out)
    /\ evicted' = evicted \cup out
    /\ made' \in Seq(Jobs)
    /\ storing' \in [Tabs -> SUBSET Jobs]
    /\ \A u \in Tabs : storing'[u] = storing[u] \cup (IF u = t THEN {j} ELSE {})

\* What enqueueing throws out was in the queue, and is marked as evicted.
LEMMA EnqueueIs ==
  ASSUME OutboxTypeOK, NEW t \in Tabs, NEW j \in Jobs, NEW gone, Enqueue(t, j, gone)
  PROVE  \E out \in SUBSET Range(queue[t]) : Enqueued(t, j, gone, out)
<1> DEFINE rest == Remaining(queue[t], gone)
           out  == Overflow(rest)
<1>1. queue[t] \in Seq(Jobs) /\ made \in Seq(Jobs) /\ kept \in [Stored -> Attempts]
  BY DEF OutboxTypeOK, Attempts
<1>2. rest \in Seq(Jobs) /\ Range(rest) = Range(queue[t]) \ gone
  BY <1>1, RemainingIs
<1>3. out \in SUBSET Range(queue[t])
  <2>1. CASE Len(rest) < MaxQueue
    BY <2>1 DEF Overflow
  <2>2. CASE ~ (Len(rest) < MaxQueue)
    <3>1. rest # <<>>
      BY <2>2, OutboxAssumption
    <3> HIDE DEF rest
    <3>2. Head(rest) \in Range(rest)
      BY <1>2, <3>1, QueueParts
    <3> QED
      BY <1>2, <2>2, <3>2 DEF Overflow
  <2> QED
    BY <2>1, <2>2
<1>4. /\ queue' = [queue EXCEPT ![t] = Remaining(queue[t], gone \cup out)]
      /\ kept' = Without(gone \cup out)
      /\ evicted' = evicted \cup out
      /\ made' = Append(made, j)
      /\ storing' = [storing EXCEPT ![t] = @ \cup {j}]
  BY DEF Enqueue
<1> HIDE DEF out
<1>5. /\ Remaining(queue[t], gone \cup out) \in Seq(Jobs)
      /\ Range(Remaining(queue[t], gone \cup out)) = Range(queue[t]) \ (gone \cup out)
  BY <1>1, RemainingIs
<1>6. /\ DOMAIN Without(gone \cup out) = Stored \ (gone \cup out)
      /\ Without(gone \cup out) \in [Stored \ (gone \cup out) -> Attempts]
  BY <1>1, StoreIs
<1>7. /\ queue' \in [Tabs -> Seq(Jobs)]
      /\ \A u \in Tabs \ {t} : queue'[u] = queue[u]
      /\ Range(queue'[t]) = Range(queue[t]) \ (gone \cup out)
  BY <1>4, <1>5 DEF OutboxTypeOK
<1>8. /\ kept' \in [Stored \ (gone \cup out) -> Attempts]
      /\ Stored' = Stored \ (gone \cup out)
  BY <1>4, <1>6 DEF Stored
<1>9. made' \in Seq(Jobs)
  BY <1>1, <1>4
<1>10. /\ storing' \in [Tabs -> SUBSET Jobs]
       /\ \A u \in Tabs : storing'[u] = storing[u] \cup (IF u = t THEN {j} ELSE {})
  BY <1>4 DEF OutboxTypeOK
<1>11. Enqueued(t, j, gone, out)
  BY <1>4, <1>7, <1>8, <1>9, <1>10 DEF Enqueued
<1> QED
  BY <1>3, <1>11

\* The jobs of a queue are jobs.
LEMMA QueueOfJobs ==
  ASSUME NEW S, NEW q \in Seq(S)
  PROVE  Range(q) \subseteq S
  BY DEF Range

------------------------------------------------------------------------------
(* Types.                                                                  *)

\* The server's reply, or none, leaves it with a save or a verdict.
LEMMA AttemptTyped ==
  ASSUME OutboxTypeOK, NEW j \in Jobs, NEW how, Attempt(j, how)
  PROVE  shop' \in Saves \cup {"listed", "deleted"} /\ late' \subseteq late \cup {j}
  BY DEF OutboxTypeOK, Attempt, Applied, server

\* At the start every variable has its type.
LEMMA InitTyped == Init => OutboxTypeOK
<1> SUFFICES ASSUME Init PROVE OutboxTypeOK
  OBVIOUS
<1>1. kept \in [Stored -> 0..(MaxAttempts - 1)] /\ Stored = {}
  BY DEF Init, Stored
<1>2. 0 \in 0..(MaxAttempts - 1) /\ 0 \in 0..MaxCloses /\ 0 \in 0..MaxCuts
  BY OutboxAssumption
<1>3. <<>> \in Seq(Jobs)
  OBVIOUS
<1> QED
  BY <1>1, <1>2, <1>3 DEF Init, OutboxTypeOK

\* A save that is asked for, queued or answered keeps the types.
LEMMA CallsTyped ==
  ASSUME OutboxTypeOK, NEW t \in Tabs, NEW j \in Jobs
  PROVE  /\ Ask(t, j) => OutboxTypeOK'
         /\ Push(t, j) => OutboxTypeOK'
         /\ \A how \in Outcomes : CallEnds(t, j, how) => OutboxTypeOK'
<1>a. /\ queue[t] \in Seq(Jobs) /\ kept \in [Stored -> Attempts]
      /\ Stored \subseteq Durable /\ 0 \in Attempts
  BY OutboxAssumption DEF OutboxTypeOK, Attempts
<1>1. ASSUME Ask(t, j) PROVE OutboxTypeOK'
  <2> DEFINE doomed == Doomed(t, j)
  <2>1. CASE connected
    <3>1. /\ queue' = [queue EXCEPT ![t] = Remaining(queue[t], doomed)]
          /\ kept' = Without(doomed)
          /\ calling' = [calling EXCEPT ![t] = @ \cup {j}]
          /\ UNCHANGED <<made, storing, evicted>>
      BY <1>1, <2>1 DEF Ask
    <3> HIDE DEF doomed
    <3>2. Remaining(queue[t], doomed) \in Seq(Jobs)
      BY <1>a, RemainingIs
    <3>3. queue' \in [Tabs -> Seq(Jobs)]
      BY <3>1, <3>2 DEF OutboxTypeOK
    <3>4. /\ DOMAIN kept' = Stored \ doomed
          /\ kept' \in [Stored \ doomed -> Attempts]
      BY <1>a, <3>1, StoreIs
    <3>5. kept' \in [Stored' -> Attempts] /\ Stored' \subseteq Durable
      BY <1>a, <3>4 DEF Stored
    <3> QED
      BY <1>1, <3>1, <3>3, <3>5 DEF Ask, OutboxTypeOK, Attempts, device, server, flushv
  <2>2. CASE ~ connected
    <3>1. Enqueue(t, j, doomed) /\ UNCHANGED calling
      BY <1>1, <2>2 DEF Ask
    <3> HIDE DEF doomed
    <3>2. PICK out \in SUBSET Range(queue[t]) : Enqueued(t, j, doomed, out)
      BY <3>1, EnqueueIs
    <3>3. kept' \in [Stored' -> Attempts] /\ Stored' \subseteq Durable
      BY <1>a, <3>2 DEF Enqueued
    <3> QED
      BY <1>1, <3>1, <3>2, <3>3 DEF Ask, Enqueued, OutboxTypeOK, Attempts, device,
         server, flushv
  <2> QED
    BY <2>1, <2>2
<1>2. ASSUME Push(t, j) PROVE OutboxTypeOK'
  <2>1. kept' \in [Stored' -> Attempts] /\ Stored' \subseteq Durable
    <3>1. CASE j \in Durable
      <4>1. kept' = StoredWith(j, 0)
        BY <1>2, <3>1 DEF Push
      <4>2. DOMAIN kept' = Stored \cup {j} /\ kept' \in [Stored \cup {j} -> Attempts]
        BY <1>a, <4>1, StoreIs
      <4> QED
        BY <1>a, <3>1, <4>2 DEF Stored
    <3>2. CASE j \notin Durable
      BY <1>2, <1>a, <3>2 DEF Push, Stored
    <3> QED
      BY <3>1, <3>2
  <2>2. queue' \in [Tabs -> Seq(Jobs)]
    BY <1>2, <1>a DEF Push, OutboxTypeOK
  <2>3. tries' \in [Tabs -> [Jobs -> Attempts]]
    BY <1>2, <1>a DEF Push, OutboxTypeOK, Attempts
  <2> QED
    BY <1>2, <2>1, <2>2, <2>3 DEF Push, OutboxTypeOK, Attempts, device, server, flushv
<1>3. ASSUME NEW how \in Outcomes, CallEnds(t, j, how) PROVE OutboxTypeOK'
  <2>1. shop' \in Saves \cup {"listed", "deleted"}
    BY <1>3, AttemptTyped DEF CallEnds
  <2>2. CASE how \in {"ok", "refused"}
    <3>1. UNCHANGED <<queue, kept, evicted, made, storing>> /\ closed' = closed \cup {j}
      BY <1>3, <2>2 DEF CallEnds
    <3> QED
      BY <1>3, <2>1, <3>1 DEF CallEnds, OutboxTypeOK, Stored, device, flushv
  <2>3. CASE how \notin {"ok", "refused"}
    <3>1. Enqueue(t, j, {}) /\ UNCHANGED closed
      BY <1>3, <2>3 DEF CallEnds
    <3>2. PICK out \in SUBSET Range(queue[t]) : Enqueued(t, j, {}, out)
      BY <3>1, EnqueueIs
    <3>3. kept' \in [Stored' -> Attempts] /\ Stored' \subseteq Durable
      BY <1>a, <3>2 DEF Enqueued
    <3> QED
      BY <1>3, <2>1, <3>1, <3>2, <3>3 DEF CallEnds, Enqueued, OutboxTypeOK, Attempts,
         device, flushv
  <2> QED
    BY <2>2, <2>3
<1> QED
  BY <1>1, <1>2, <1>3

\* So does every step of a flush.
LEMMA FlushTyped ==
  ASSUME OutboxTypeOK, NEW t \in Tabs
  PROVE  /\ Flush(t) => OutboxTypeOK'
         /\ SendNext(t) => OutboxTypeOK'
         /\ \A how \in Outcomes : SendEnds(t, how) => OutboxTypeOK'
<1>a. /\ queue[t] \in Seq(Jobs) /\ left[t] \in Seq(Jobs)
      /\ kept \in [Stored -> Attempts] /\ Stored \subseteq Durable
      /\ tries \in [Tabs -> [Jobs -> Attempts]]
  BY DEF OutboxTypeOK, Attempts
<1>1. ASSUME Flush(t) PROVE OutboxTypeOK'
  <2>1. PICK waiting : left' = [left EXCEPT ![t] = Remaining(queue[t], waiting)]
    BY <1>1 DEF Flush
  <2>2. Remaining(queue[t], waiting) \in Seq(Jobs)
    BY <1>a, RemainingIs
  <2>3. left' \in [Tabs -> Seq(Jobs)]
    BY <2>1, <2>2 DEF OutboxTypeOK
  <2> QED
    BY <1>1, <2>3 DEF Flush, OutboxTypeOK, Stored, device, server
<1>2. ASSUME SendNext(t) PROVE OutboxTypeOK'
  <2>1. /\ Tail(left[t]) \in Seq(Jobs) /\ Head(left[t]) \in Range(left[t])
        /\ Range(left[t]) \subseteq Jobs
    BY <1>2, <1>a, QueueParts, QueueOfJobs DEF SendNext
  <2>2. left' \in [Tabs -> Seq(Jobs)] /\ sending' \in [Tabs -> Jobs \cup {NoJob}]
    BY <1>2, <2>1 DEF SendNext, OutboxTypeOK
  <2> QED
    BY <1>2, <2>2 DEF SendNext, OutboxTypeOK, Stored, device, server
<1>3. ASSUME NEW how \in Outcomes, SendEnds(t, how) PROVE OutboxTypeOK'
  <2> DEFINE j == sending[t]
  <2>1. j \in Jobs
    BY <1>3 DEF SendEnds, OutboxTypeOK
  <2>2. /\ shop' \in Saves \cup {"listed", "deleted"}
        /\ sending' \in [Tabs -> Jobs \cup {NoJob}]
    BY <1>3, <2>1, AttemptTyped DEF SendEnds, OutboxTypeOK
  <2>3. CASE Over(t, j, how)
    <3>1. /\ queue' = [queue EXCEPT ![t] = Remaining(queue[t], {j})]
          /\ kept' = Without({j}) /\ closed' = closed \cup {j} /\ UNCHANGED tries
      BY <1>3, <2>3 DEF SendEnds
    <3>2. Remaining(queue[t], {j}) \in Seq(Jobs)
      BY <1>a, RemainingIs
    <3>3. queue' \in [Tabs -> Seq(Jobs)]
      BY <3>1, <3>2 DEF OutboxTypeOK
    <3>4. DOMAIN kept' = Stored \ {j} /\ kept' \in [Stored \ {j} -> Attempts]
      BY <1>a, <3>1, StoreIs
    <3>5. kept' \in [Stored' -> Attempts] /\ Stored' \subseteq Durable
      BY <1>a, <3>4 DEF Stored
    <3> QED
      BY <1>3, <2>1, <2>2, <3>1, <3>3, <3>5 DEF SendEnds, OutboxTypeOK, Attempts, device
  <2>4. CASE ~ Over(t, j, how)
    <3>1. /\ tries' = [tries EXCEPT ![t][j] = tries[t][j] + 1]
          /\ kept' = IF j \in Durable THEN StoredWith(j, tries[t][j] + 1) ELSE kept
          /\ UNCHANGED <<queue, closed>>
      BY <1>3, <2>1, <2>4, <1>a DEF SendEnds
    <3>2. tries[t][j] + 1 \in Attempts
      BY <1>a, <2>1, <2>4, OutboxAssumption DEF Over, Attempts
    <3>3. tries' \in [Tabs -> [Jobs -> Attempts]]
      BY <1>a, <2>1, <3>1, <3>2
    <3>4. kept' \in [Stored' -> Attempts] /\ Stored' \subseteq Durable
      <4>1. CASE j \in Durable
        <5> DEFINE n == tries[t][j] + 1
        <5>1. kept' = StoredWith(j, n) /\ n \in Attempts
          BY <3>1, <3>2, <4>1
        <5> HIDE DEF n
        <5>2. DOMAIN kept' = Stored \cup {j} /\ kept' \in [Stored \cup {j} -> Attempts]
          BY <1>a, <5>1, StoreIs
        <5> QED
          BY <1>a, <4>1, <5>2 DEF Stored
      <4>2. CASE j \notin Durable
        BY <1>a, <3>1, <4>2 DEF Stored
      <4> QED
        BY <4>1, <4>2
    <3> QED
      BY <1>3, <2>1, <2>2, <3>1, <3>3, <3>4 DEF SendEnds, OutboxTypeOK, Attempts, device
  <2> QED
    BY <2>3, <2>4
<1> QED
  BY <1>1, <1>2, <1>3

\* So does what happens to the tabs, the network and the server.
LEMMA DeviceTyped ==
  ASSUME OutboxTypeOK
  PROVE  /\ \A t \in Tabs : Close(t) => OutboxTypeOK'
         /\ \A t \in Tabs : Open(t) => OutboxTypeOK'
         /\ \A j \in Jobs : ServedLate(j) => OutboxTypeOK'
         /\ Connect => OutboxTypeOK'
         /\ Disconnect => OutboxTypeOK'
<1>a. <<>> \in Seq(Jobs) /\ 0 \in Attempts /\ Durable \subseteq Jobs
  BY OutboxAssumption DEF Attempts
<1>1. ASSUME NEW t \in Tabs, Close(t) PROVE OutboxTypeOK'
  <2>1. closed' \subseteq Jobs
    <3>1. queue[t] \in Seq(Jobs)
      BY DEF OutboxTypeOK
    <3>2. Range(queue[t]) \subseteq Jobs
      BY <3>1, QueueOfJobs
    <3> QED
      BY <1>1, <3>2 DEF Close, OutboxTypeOK
  <2>2. closes' \in 0..MaxCloses /\ open' \subseteq Tabs
    BY <1>1, OutboxAssumption DEF Close, OutboxTypeOK
  <2>3. /\ queue' \in [Tabs -> Seq(Jobs)] /\ left' \in [Tabs -> Seq(Jobs)]
        /\ sending' \in [Tabs -> Jobs \cup {NoJob}]
    BY <1>1, <1>a DEF Close, OutboxTypeOK
  <2>4. tries' \in [Tabs -> [Jobs -> Attempts]]
    BY <1>1, <1>a DEF Close, OutboxTypeOK, Attempts
  <2>5. calling' \in [Tabs -> SUBSET Jobs] /\ storing' \in [Tabs -> SUBSET Jobs]
    BY <1>1 DEF Close, OutboxTypeOK
  <2> QED
    BY <1>1, <2>1, <2>2, <2>3, <2>4, <2>5 DEF Close, OutboxTypeOK, Stored, Attempts
<1>2. ASSUME NEW t \in Tabs, Open(t) PROVE OutboxTypeOK'
  <2>1. Remaining(made, Jobs \ Stored) \in Seq(Jobs)
    BY RemainingIs DEF OutboxTypeOK
  <2>2. queue' \in [Tabs -> Seq(Jobs)]
    BY <1>2, <2>1 DEF Open, OutboxTypeOK
  <2>3. tries' \in [Tabs -> [Jobs -> Attempts]]
    BY <1>2, <1>a DEF Open, OutboxTypeOK, Attempts
  <2> QED
    BY <1>2, <2>2, <2>3 DEF Open, OutboxTypeOK, Stored, Attempts, flushv, server
<1>3. ASSUME NEW j \in Jobs, ServedLate(j) PROVE OutboxTypeOK'
  <2>1. shop' \in Saves \cup {"listed", "deleted"} /\ closed' \subseteq Jobs
    BY <1>3 DEF ServedLate, Applied, OutboxTypeOK
  <2> QED
    BY <1>3, <2>1 DEF ServedLate, OutboxTypeOK, Stored, device, flushv
<1>4. ASSUME Connect \/ Disconnect PROVE OutboxTypeOK'
  <2>1. cuts' \in 0..MaxCuts /\ connected' \in BOOLEAN
    <3>1. CASE Connect
      BY <3>1 DEF Connect, OutboxTypeOK
    <3>2. CASE Disconnect
      <4>1. cuts < MaxCuts /\ cuts' = cuts + 1 /\ connected' = FALSE
        BY <3>2 DEF Disconnect
      <4>2. cuts \in 0..MaxCuts /\ MaxCuts \in Nat
        BY OutboxAssumption DEF OutboxTypeOK
      <4>3. cuts' \in 0..MaxCuts
        BY <4>1, <4>2
      <4> QED
        BY <4>1, <4>3
    <3> QED
      BY <1>4, <3>1, <3>2
  <2> QED
    BY <1>4, <2>1 DEF Connect, Disconnect, OutboxTypeOK, Stored, flushv, server
<1> QED
  BY <1>1, <1>2, <1>3, <1>4

\* Every action keeps the types.
LEMMA NextTyped == OutboxTypeOK /\ [Next]_vars => OutboxTypeOK'
<1> SUFFICES ASSUME OutboxTypeOK, [Next]_vars PROVE OutboxTypeOK'
  OBVIOUS
<1>1. CASE UNCHANGED vars
  BY <1>1 DEF vars, OutboxTypeOK, Stored
<1> QED
  BY <1>1, CallsTyped, FlushTyped, DeviceTyped DEF Next

(***************************************************************************)
(* Every variable of the outbox keeps its type: no job is tried more often *)
(* than MAX_ATTEMPTS allows, and the storage holds only what it accepts.   *)
(***************************************************************************)
THEOREM OutboxTypes == Spec => []OutboxTypeOK
  BY InitTyped, NextTyped, PTL DEF Spec

------------------------------------------------------------------------------
(***************************************************************************)
(* Nothing is lost.  A step concerns one tab.  It keeps the invariant if   *)
(* what the tab holds afterwards it held before, or found in the storage,  *)
(* or was just asked for, and if what leaves the tab or the storage is     *)
(* settled.                                                                *)
(***************************************************************************)

\* Nothing that the invariant says of the other tabs changes.
OthersRest(t) ==
    \A u \in Tabs \ {t} :
       /\ calling'[u] = calling[u] /\ storing'[u] = storing[u]
       /\ queue'[u] = queue[u] /\ left'[u] = left[u] /\ sending'[u] = sending[u]
       /\ u \in open' <=> u \in open

\* What is settled stays settled, and what was asked stays asked.
Onward ==
    /\ asked \subseteq asked' /\ closed \subseteq closed'
    /\ replaced \subseteq replaced' /\ evicted \subseteq evicted'
    /\ replaced' \cup evicted' \subseteq asked'

New == asked' \ asked

\* Where the jobs of tab t, the server's latecomers and the stored jobs come from.
Sourced(t) ==
    /\ InMemory(t)' \subseteq InMemory(t) \cup Stored \cup New
    /\ late' \subseteq late \cup InMemory(t)
    /\ Stored' \subseteq Stored \cup InMemory(t)
    /\ t \notin open' => InMemory(t)' = {}

\* Where the jobs that tab t and the storage held have gone.
Traced(t) ==
    /\ \A j \in InFlush(t)' : j \in Range(queue'[t]) \/ Settled(j)'
    /\ \A j \in Range(queue'[t]) \cap Durable : j \in Stored' \/ Settled(j)'
    /\ \A j \in Stored \ Stored' : Settled(j)'
    /\ \A j \in InMemory(t) \cup New :
          j \in Stored' \/ Settled(j)' \/ (t \in open' /\ j \in InMemory(t)')

\* What is withdrawn is nowhere else.
CleanlyWithdrawn(t) ==
    \A j \in withdrawn' \ withdrawn :
       /\ j \in asked /\ j \notin Stored' \cup late' \cup InMemory(t)'
       /\ \A u \in Tabs \ {t} : j \notin InMemory(u)

\* A step of one tab that says where its jobs came from and went keeps the invariant.
LEMMA TabStepKeeps ==
  ASSUME OutboxInductive, OutboxTypeOK', NEW t \in Tabs,
         OthersRest(t), Onward, Sourced(t), Traced(t), CleanlyWithdrawn(t)
  PROVE  OutboxInductive'
<1>1. \A u \in Tabs \ {t} : /\ InMemory(u)' = InMemory(u) /\ InFlush(u)' = InFlush(u)
                            /\ Range(queue'[u]) = Range(queue[u])
                            /\ u \in open' <=> u \in open
  BY DEF OthersRest, InMemory, OnTheWay, InFlush
<1>2. \A j : Settled(j) => Settled(j)'
  BY DEF Onward, Settled
<1>3. late' \cup replaced' \cup withdrawn' \cup evicted' \cup Stored' \subseteq asked'
  BY DEF OutboxInductive, Onward, Sourced, CleanlyWithdrawn
<1>4. ASSUME NEW u \in Tabs
      PROVE  /\ InMemory(u)' \subseteq asked'
             /\ u \notin open' => InMemory(u)' = {}
             /\ \A j \in InFlush(u)' : j \in Range(queue'[u]) \/ Settled(j)'
             /\ \A j \in Range(queue'[u]) \cap Durable : j \in Stored' \/ Settled(j)'
  <2>1. CASE u = t
    BY <2>1 DEF OutboxInductive, Onward, Sourced, Traced, New
  <2>2. CASE u # t
    BY <1>1, <1>2, <2>2 DEF OutboxInductive, Onward, Traced
  <2> QED
    BY <2>1, <2>2
<1>5. NothingLost'
  <2> SUFFICES ASSUME NEW j \in asked'
               PROVE  Settled(j)' \/ j \in Stored' \/ \E u \in open' : j \in InMemory(u)'
    BY DEF NothingLost
  <2>1. CASE j \in New \/ j \in InMemory(t)
    BY <2>1 DEF Traced
  <2>2. CASE j \in asked /\ j \notin InMemory(t)
    <3>1. Settled(j) \/ j \in Stored \/ \E u \in open : j \in InMemory(u)
      BY <2>2 DEF OutboxInductive, NothingLost
    <3>2. \A u \in open : u \in Tabs
      BY DEF OutboxInductive, OutboxTypeOK
    <3> QED
      BY <1>1, <1>2, <2>2, <3>1, <3>2 DEF Traced
  <2> QED
    BY <2>1, <2>2 DEF New
<1>6. WithdrawnIsGone'
  <2> SUFFICES ASSUME NEW j \in withdrawn'
               PROVE  j \notin Stored' \cup late' /\ \A u \in Tabs : j \notin InMemory(u)'
    BY DEF WithdrawnIsGone
  <2>1. CASE j \in withdrawn
    BY <1>1, <2>1 DEF OutboxInductive, WithdrawnIsGone, Sourced, New
  <2>2. CASE j \notin withdrawn
    BY <1>1, <2>2 DEF CleanlyWithdrawn
  <2> QED
    BY <2>1, <2>2
<1> QED
  BY <1>3, <1>4, <1>5, <1>6 DEF OutboxInductive

\* What every step of a tab may count on.
LEMMA BeforeStep ==
  ASSUME OutboxInductive, NEW t \in Tabs
  PROVE  /\ OutboxTypeOK /\ InMemory(t) \subseteq asked /\ Stored \subseteq asked
         /\ replaced \cup evicted \subseteq asked
         /\ t \notin open => InMemory(t) = {}
         /\ \A j \in InFlush(t) : j \in Range(queue[t]) \/ Settled(j)
         /\ \A j \in Range(queue[t]) \cap Durable : j \in Stored \/ Settled(j)
         /\ queue[t] \in Seq(Jobs) /\ left[t] \in Seq(Jobs)
         /\ kept \in [Stored -> Attempts]
  BY DEF OutboxInductive, OutboxTypeOK, Attempts

\* A call that is made and sent, or queued, by an open tab.
LEMMA AskKeeps ==
  ASSUME OutboxInductive, OutboxTypeOK', NEW t \in Tabs, NEW j \in Jobs, Ask(t, j)
  PROVE  OutboxInductive'
<1> DEFINE doomed == Doomed(t, j)
<1>1. /\ t \in open /\ j \notin asked /\ asked' = asked \cup {j}
      /\ replaced' = replaced \cup doomed
      /\ withdrawn' = withdrawn \cup Idle(t, doomed)
      /\ UNCHANGED <<open, shop, late, left, sending, tries, closed>>
  BY DEF Ask, device, server, flushv
<1>2. doomed \subseteq Range(queue[t])
  BY DEF Doomed
<1>3. \E out \in SUBSET Range(queue[t]) :
         /\ Range(queue'[t]) = Range(queue[t]) \ (doomed \cup out)
         /\ Stored' = Stored \ (doomed \cup out)
         /\ evicted' = evicted \cup out
         /\ calling'[t] \cup storing'[t] = calling[t] \cup storing[t] \cup {j}
         /\ \A u \in Tabs \ {t} : /\ queue'[u] = queue[u]
                                  /\ calling'[u] = calling[u] /\ storing'[u] = storing[u]
  <2> HIDE DEF doomed
  <2>1. CASE connected
    <3>1. /\ queue' = [queue EXCEPT ![t] = Remaining(queue[t], doomed)]
          /\ kept' = Without(doomed)
          /\ calling' = [calling EXCEPT ![t] = @ \cup {j}]
          /\ UNCHANGED <<made, storing, evicted>>
      BY <2>1 DEF Ask, doomed
    <3>2. Range(Remaining(queue[t], doomed)) = Range(queue[t]) \ doomed
      BY BeforeStep, RemainingIs
    <3>3. Stored' = Stored \ doomed
      BY <3>1, BeforeStep, StoreIs DEF Stored
    <3>4. /\ Range(queue'[t]) = Range(queue[t]) \ doomed
          /\ calling'[t] = calling[t] \cup {j} /\ storing'[t] = storing[t]
          /\ \A u \in Tabs \ {t} : /\ queue'[u] = queue[u]
                                   /\ calling'[u] = calling[u] /\ storing'[u] = storing[u]
      BY <3>1, <3>2, BeforeStep DEF OutboxTypeOK
    <3>5. {} \in SUBSET Range(queue[t]) /\ doomed \cup {} = doomed
      OBVIOUS
    <3> QED
      BY <3>1, <3>3, <3>4, <3>5
  <2>2. CASE ~ connected
    <3>1. Enqueue(t, j, doomed) /\ UNCHANGED calling
      BY <2>2 DEF Ask, doomed
    <3>2. PICK out \in SUBSET Range(queue[t]) : Enqueued(t, j, doomed, out)
      BY <3>1, BeforeStep, EnqueueIs
    <3> QED
      BY <3>1, <3>2 DEF Enqueued
  <2> QED
    BY <2>1, <2>2
<1> HIDE DEF doomed
<1>4. PICK out \in SUBSET Range(queue[t]) :
         /\ Range(queue'[t]) = Range(queue[t]) \ (doomed \cup out)
         /\ Stored' = Stored \ (doomed \cup out)
         /\ evicted' = evicted \cup out
         /\ calling'[t] \cup storing'[t] = calling[t] \cup storing[t] \cup {j}
         /\ \A u \in Tabs \ {t} : /\ queue'[u] = queue[u]
                                  /\ calling'[u] = calling[u] /\ storing'[u] = storing[u]
  BY <1>3
<1>5. InMemory(t)' = (InMemory(t) \ ((doomed \cup out) \ OnTheWay(t))) \cup {j}
  BY <1>1, <1>4 DEF InMemory, OnTheWay
<1>6. OthersRest(t)
  BY <1>1, <1>4 DEF OthersRest
<1>7. Onward
  BY <1>1, <1>2, <1>4, BeforeStep DEF Onward, InMemory
<1>8. Sourced(t)
  BY <1>1, <1>4, <1>5 DEF Sourced, New
<1>9. Traced(t)
  <2>1. \A i : Settled(i)' <=> Settled(i) \/ i \in doomed \/ i \in out
    BY <1>1, <1>4 DEF Settled
  <2>2. InFlush(t)' = InFlush(t) /\ New = {j}
    BY <1>1 DEF InFlush, New
  <2>3. \A i \in InFlush(t)' : i \in Range(queue'[t]) \/ Settled(i)'
    BY <1>4, <2>1, <2>2, BeforeStep
  <2>4. \A i \in Range(queue'[t]) \cap Durable : i \in Stored' \/ Settled(i)'
    BY <1>4, <2>1, BeforeStep
  <2>5. \A i \in InMemory(t) \cup New :
          i \in Stored' \/ Settled(i)' \/ (t \in open' /\ i \in InMemory(t)')
    BY <1>1, <1>5, <2>1, <2>2
  <2> QED
    BY <1>4, <2>1, <2>3, <2>4, <2>5 DEF Traced
<1>10. CleanlyWithdrawn(t)
  BY <1>1, <1>2, <1>4, <1>5, BeforeStep DEF CleanlyWithdrawn, Idle, InMemory
<1> QED
  BY <1>6, <1>7, <1>8, <1>9, <1>10, TabStepKeeps

\* A job whose storing has been answered joins the queue.
LEMMA PushKeeps ==
  ASSUME OutboxInductive, OutboxTypeOK', NEW t \in Tabs, NEW j \in Jobs, Push(t, j)
  PROVE  OutboxInductive'
<1>1. /\ j \in storing[t] /\ storing' = [storing EXCEPT ![t] = @ \ {j}]
      /\ queue' = [queue EXCEPT ![t] = Append(queue[t], j)]
      /\ UNCHANGED <<open, calling, left, sending, shop, late, asked, closed,
                     replaced, withdrawn, evicted>>
  BY DEF Push, device, server, flushv, OutboxInductive, OutboxTypeOK
<1>2. Range(Append(queue[t], j)) = Range(queue[t]) \cup {j}
  BY BeforeStep, AppendedRange
<1>3. /\ Range(queue'[t]) = Range(queue[t]) \cup {j}
      /\ storing'[t] = storing[t] \ {j}
      /\ \A u \in Tabs \ {t} : queue'[u] = queue[u] /\ storing'[u] = storing[u]
  BY <1>1, <1>2, BeforeStep DEF OutboxTypeOK
<1>4. /\ Stored' \subseteq Stored \cup {j} /\ Stored \subseteq Stored'
      /\ j \in Durable => j \in Stored'
  <2>1. CASE j \in Durable
    <3>1. kept' = StoredWith(j, 0) /\ 0 \in Attempts
      BY <2>1, OutboxAssumption DEF Push, Attempts
    <3>2. DOMAIN kept' = Stored \cup {j}
      BY <3>1, BeforeStep, StoreIs
    <3> QED
      BY <3>2 DEF Stored
  <2>2. CASE j \notin Durable
    BY <2>2 DEF Push, Stored
  <2> QED
    BY <2>1, <2>2
<1>5. InMemory(t)' = InMemory(t) /\ InFlush(t)' = InFlush(t) /\ j \in InMemory(t)
  BY <1>1, <1>3 DEF InMemory, OnTheWay, InFlush
<1>6. \A i : Settled(i)' <=> Settled(i)
  BY <1>1 DEF Settled
<1>7. OthersRest(t) /\ Onward /\ CleanlyWithdrawn(t)
  BY <1>1, <1>3, BeforeStep DEF OthersRest, Onward, CleanlyWithdrawn
<1>8. Sourced(t)
  BY <1>1, <1>4, <1>5, BeforeStep DEF Sourced
<1>9. Traced(t)
  BY <1>1, <1>3, <1>4, <1>5, <1>6, BeforeStep DEF Traced, New
<1> QED
  BY <1>7, <1>8, <1>9, TabStepKeeps

\* An attempt leaves behind the job itself at most.
LEMMA AttemptLeaves ==
  ASSUME NEW j, NEW how, Attempt(j, how)
  PROVE  late' \subseteq late \cup {j}
  BY DEF Attempt, server

\* A call that was sent at once is answered, or queued.
LEMMA CallEndsKeeps ==
  ASSUME OutboxInductive, OutboxTypeOK', NEW t \in Tabs, NEW j \in Jobs,
         NEW how \in Outcomes, CallEnds(t, j, how)
  PROVE  OutboxInductive'
<1>1. /\ j \in calling[t] /\ calling' = [calling EXCEPT ![t] = @ \ {j}]
      /\ UNCHANGED <<open, left, sending, asked, replaced, withdrawn>>
      /\ late' \subseteq late \cup {j}
  BY AttemptLeaves DEF CallEnds, device, flushv
<1>2. /\ calling'[t] = calling[t] \ {j}
      /\ \A u \in Tabs \ {t} : calling'[u] = calling[u]
  BY <1>1, BeforeStep DEF OutboxTypeOK
<1>3. j \in InMemory(t) /\ InFlush(t)' = InFlush(t) /\ New = {}
  BY <1>1 DEF InMemory, OnTheWay, InFlush, New
<1>4. t \in open
  BY <1>3, BeforeStep
<1>5. CASE how \in {"ok", "refused"}
  <2>1. UNCHANGED <<queue, kept, evicted, made, storing>> /\ closed' = closed \cup {j}
    BY <1>5 DEF CallEnds
  <2>2. /\ InMemory(t)' \subseteq InMemory(t) /\ InMemory(t) \subseteq InMemory(t)' \cup {j}
        /\ Stored' = Stored
    BY <1>1, <1>2, <2>1 DEF InMemory, OnTheWay, Stored
  <2>3. \A i : Settled(i)' <=> Settled(i) \/ i = j
    BY <1>1, <2>1 DEF Settled
  <2>4. OthersRest(t) /\ Onward /\ CleanlyWithdrawn(t)
    BY <1>1, <1>2, <2>1, BeforeStep DEF OthersRest, Onward, CleanlyWithdrawn
  <2>5. Sourced(t)
    BY <1>1, <1>3, <1>4, <2>2 DEF Sourced
  <2>6. Traced(t)
    BY <1>1, <1>3, <1>4, <2>1, <2>2, <2>3, BeforeStep DEF Traced
  <2> QED
    BY <2>4, <2>5, <2>6, TabStepKeeps
<1>6. CASE how \notin {"ok", "refused"}
  <2>1. Enqueue(t, j, {}) /\ UNCHANGED closed
    BY <1>6 DEF CallEnds
  <2>2. PICK out \in SUBSET Range(queue[t]) : Enqueued(t, j, {}, out)
    BY <2>1, BeforeStep, EnqueueIs
  <2>3. /\ Range(queue'[t]) = Range(queue[t]) \ out /\ Stored' = Stored \ out
        /\ storing'[t] = storing[t] \cup {j} /\ evicted' = evicted \cup out
        /\ \A u \in Tabs \ {t} : queue'[u] = queue[u] /\ storing'[u] = storing[u]
    BY <2>2 DEF Enqueued
  <2>4. /\ InMemory(t)' \subseteq InMemory(t)
        /\ InMemory(t) \subseteq InMemory(t)' \cup out
        /\ out \subseteq InMemory(t)
    BY <1>1, <1>2, <2>3 DEF InMemory, OnTheWay
  <2>5. \A i : Settled(i)' <=> Settled(i) \/ i \in out
    BY <1>1, <2>1, <2>3 DEF Settled
  <2>6. OthersRest(t) /\ Onward /\ CleanlyWithdrawn(t)
    BY <1>1, <1>2, <2>1, <2>3, <2>4, BeforeStep DEF OthersRest, Onward, CleanlyWithdrawn
  <2>7. Sourced(t)
    BY <1>1, <1>3, <1>4, <2>3, <2>4 DEF Sourced
  <2>8. Traced(t)
    BY <1>1, <1>3, <1>4, <2>3, <2>4, <2>5, BeforeStep DEF Traced
  <2> QED
    BY <2>6, <2>7, <2>8, TabStepKeeps
<1> QED
  BY <1>5, <1>6

\* A flush begins with a copy of jobs of the queue.
LEMMA FlushKeeps ==
  ASSUME OutboxInductive, OutboxTypeOK', NEW t \in Tabs, Flush(t)
  PROVE  OutboxInductive'
<1>1. PICK js : left' = [left EXCEPT ![t] = Remaining(queue[t], js)]
  BY DEF Flush
<1>2. UNCHANGED <<open, calling, storing, queue, sending, kept, late, asked,
                  closed, replaced, withdrawn, evicted>>
  BY DEF Flush, device, server
<1>3. Range(Remaining(queue[t], js)) = Range(queue[t]) \ js
  BY BeforeStep, RemainingIs
<1>4. t \in open /\ left[t] = <<>> /\ sending[t] = NoJob
  BY DEF Flush, Flushing
<1>5. /\ Range(left'[t]) = Range(queue[t]) \ js
      /\ \A u \in Tabs \ {t} : left'[u] = left[u]
  BY <1>1, <1>3, BeforeStep DEF OutboxTypeOK
<1>6. Range(left[t]) = {}
  BY <1>4 DEF Range
<1>7. InMemory(t)' = InMemory(t) /\ Stored' = Stored /\ New = {}
  BY <1>2, <1>5, <1>6 DEF InMemory, OnTheWay, Stored, New
<1>8. InFlush(t)' \subseteq Range(queue[t])
  BY <1>2, <1>4, <1>5 DEF InFlush
<1>9. \A i : Settled(i)' <=> Settled(i)
  BY <1>2 DEF Settled
<1>10. OthersRest(t) /\ Onward /\ CleanlyWithdrawn(t)
  BY <1>2, <1>5, BeforeStep DEF OthersRest, Onward, CleanlyWithdrawn
<1>11. Sourced(t)
  BY <1>2, <1>4, <1>7 DEF Sourced
<1>12. Traced(t)
  BY <1>2, <1>4, <1>7, <1>8, <1>9, BeforeStep DEF Traced
<1> QED
  BY <1>10, <1>11, <1>12, TabStepKeeps

\* The flush takes its next job, or passes it over: it is still in the queue,
\* or settled.
LEMMA SendNextKeeps ==
  ASSUME OutboxInductive, OutboxTypeOK', NEW t \in Tabs, SendNext(t)
  PROVE  OutboxInductive'
<1>1. /\ sending[t] = NoJob /\ left[t] # <<>>
      /\ left' = [left EXCEPT ![t] = Tail(left[t])]
      /\ sending' = IF connected THEN [sending EXCEPT ![t] = Head(left[t])]
                                 ELSE sending
      /\ UNCHANGED <<open, calling, storing, queue, kept, late, asked, closed,
                     replaced, withdrawn, evicted>>
  BY DEF SendNext, device, server
<1>2. Range(left[t]) = {Head(left[t])} \cup Range(Tail(left[t]))
  BY <1>1, BeforeStep, QueueParts
<1>3. /\ left'[t] = Tail(left[t])
      /\ \A u \in Tabs \ {t} : left'[u] = left[u] /\ sending'[u] = sending[u]
      /\ sending'[t] \in {NoJob, Head(left[t])}
  BY <1>1, BeforeStep DEF OutboxTypeOK
<1>4. InFlush(t)' \subseteq InFlush(t) /\ InFlush(t) \subseteq InMemory(t)
  BY <1>1, <1>2, <1>3 DEF InFlush, InMemory, OnTheWay
<1>5. InMemory(t)' \subseteq InMemory(t) /\ Stored' = Stored /\ New = {}
  BY <1>1, <1>2, <1>3 DEF InMemory, OnTheWay, Stored, New
<1>6. InMemory(t) \subseteq InMemory(t)' \cup {Head(left[t])}
  BY <1>1, <1>2, <1>3 DEF InMemory, OnTheWay
<1>7. Head(left[t]) \in InFlush(t)
  BY <1>2 DEF InFlush
<1>8. t \in open
  BY <1>4, <1>7, BeforeStep
<1>9. \A i : Settled(i)' <=> Settled(i)
  BY <1>1 DEF Settled
<1>10. Range(queue'[t]) \subseteq InMemory(t)' /\ Range(queue'[t]) = Range(queue[t])
  BY <1>1 DEF InMemory
<1>11. OthersRest(t) /\ Onward /\ CleanlyWithdrawn(t)
  BY <1>1, <1>3, BeforeStep DEF OthersRest, Onward, CleanlyWithdrawn
<1>12. Sourced(t)
  BY <1>1, <1>5, <1>8 DEF Sourced
<1>13. Traced(t)
  <2>1. Head(left[t]) \in Range(queue[t]) \/ Settled(Head(left[t]))
    BY <1>7, BeforeStep
  <2>2. \A i \in InMemory(t) : Settled(i) \/ i \in InMemory(t)'
    BY <1>6, <1>10, <2>1
  <2> QED
    BY <1>1, <1>4, <1>5, <1>8, <1>9, <1>10, <2>2, BeforeStep DEF Traced
<1> QED
  BY <1>11, <1>12, <1>13, TabStepKeeps

\* The flush's request ends: the job is closed, or still in the queue.
LEMMA SendEndsKeeps ==
  ASSUME OutboxInductive, OutboxTypeOK', NEW t \in Tabs, NEW how \in Outcomes,
         SendEnds(t, how)
  PROVE  OutboxInductive'
<1> DEFINE j == sending[t]
<1>1. /\ j # NoJob /\ sending' = [sending EXCEPT ![t] = NoJob]
      /\ UNCHANGED <<open, calling, storing, left, asked, replaced, withdrawn, evicted>>
      /\ late' \subseteq late \cup {j}
  BY AttemptLeaves DEF SendEnds, device
<1>2. j \in Jobs
  BY <1>1, BeforeStep DEF OutboxTypeOK
<1>3. /\ sending'[t] = NoJob
      /\ \A u \in Tabs \ {t} : sending'[u] = sending[u]
  BY <1>1, BeforeStep DEF OutboxTypeOK
<1>4. j \in InFlush(t) /\ j \in InMemory(t)
  BY <1>1 DEF InFlush, InMemory, OnTheWay
<1>5. t \in open
  BY <1>4, BeforeStep
<1>6. InFlush(t)' \subseteq InFlush(t) /\ New = {}
  BY <1>1, <1>3 DEF InFlush, New
<1>7. CASE Over(t, j, how)
  <2>1. /\ queue' = [queue EXCEPT ![t] = Remaining(queue[t], {j})]
        /\ kept' = Without({j})
        /\ closed' = closed \cup {j}
    BY <1>7 DEF SendEnds
  <2> HIDE DEF j
  <2>2. Range(Remaining(queue[t], {j})) = Range(queue[t]) \ {j}
    BY BeforeStep, RemainingIs
  <2>3. Stored' = Stored \ {j}
    BY <2>1, BeforeStep, StoreIs DEF Stored
  <2>4. /\ Range(queue'[t]) = Range(queue[t]) \ {j}
        /\ \A u \in Tabs \ {t} : queue'[u] = queue[u]
    BY <2>1, <2>2, BeforeStep DEF OutboxTypeOK
  <2>5. InMemory(t)' \subseteq InMemory(t) /\ InMemory(t) \subseteq InMemory(t)' \cup {j}
    BY <1>1, <1>3, <2>4 DEF InMemory, OnTheWay, j
  <2>6. \A i : Settled(i)' <=> Settled(i) \/ i = j
    BY <1>1, <2>1 DEF Settled
  <2>7. OthersRest(t) /\ Onward /\ CleanlyWithdrawn(t)
    BY <1>1, <1>3, <2>1, <2>4, BeforeStep DEF OthersRest, Onward, CleanlyWithdrawn
  <2>8. Sourced(t)
    BY <1>1, <1>4, <1>5, <2>3, <2>5 DEF Sourced
  <2>9. Traced(t)
    BY <1>1, <1>4, <1>5, <1>6, <2>3, <2>4, <2>5, <2>6, BeforeStep DEF Traced
  <2> QED
    BY <2>7, <2>8, <2>9, TabStepKeeps
<1>8. CASE ~ Over(t, j, how)
  <2>1. /\ UNCHANGED <<queue, closed>>
        /\ kept' = IF j \in Durable THEN StoredWith(j, tries[t][j] + 1) ELSE kept
    BY <1>8 DEF SendEnds
  <2>2. tries[t][j] + 1 \in Attempts
    <3>1. tries[t][j] \in 0..(MaxAttempts - 1) /\ MaxAttempts \in Nat
      BY <1>2, BeforeStep, OutboxAssumption DEF OutboxTypeOK
    <3>2. ~ (tries[t][j] + 1 >= MaxAttempts)
      BY <1>8 DEF Over
    <3> HIDE DEF j
    <3> QED
      BY <3>1, <3>2 DEF Attempts
  <2> HIDE DEF j
  <2>3. Stored \subseteq Stored' /\ Stored' \subseteq Stored \cup {j}
    <3>1. CASE j \in Durable
      <4>1. DOMAIN kept' = Stored \cup {j}
        BY <2>1, <2>2, <3>1, BeforeStep, StoreIs
      <4> QED
        BY <4>1 DEF Stored
    <3>2. CASE j \notin Durable
      BY <2>1, <3>2 DEF Stored
    <3> QED
      BY <3>1, <3>2
  <2>4. InMemory(t)' \subseteq InMemory(t) /\ InMemory(t) \subseteq InMemory(t)' \cup {j}
    BY <1>1, <1>3, <2>1 DEF InMemory, OnTheWay, j
  <2>5. \A i : Settled(i)' <=> Settled(i)
    BY <1>1, <2>1 DEF Settled
  <2>6. j \in InMemory(t)' \/ Settled(j)
    <3>1. j \in Range(queue[t]) \/ Settled(j)
      BY <1>4, BeforeStep
    <3>2. Range(queue[t]) \subseteq InMemory(t)'
      BY <2>1 DEF InMemory
    <3> QED
      BY <3>1, <3>2
  <2>7. OthersRest(t) /\ Onward /\ CleanlyWithdrawn(t)
    BY <1>1, <1>3, <2>1, BeforeStep DEF OthersRest, Onward, CleanlyWithdrawn
  <2>8. Sourced(t)
    BY <1>1, <1>4, <1>5, <2>3, <2>4 DEF Sourced
  <2>9. Traced(t)
    BY <1>1, <1>4, <1>5, <1>6, <2>1, <2>3, <2>4, <2>5, <2>6, BeforeStep DEF Traced
  <2> QED
    BY <2>7, <2>8, <2>9, TabStepKeeps
<1> QED
  BY <1>7, <1>8

\* A tab is closed: what it only remembered is closed with it, and what it
\* had queued is in the storage, or settled.
LEMMA CloseKeeps ==
  ASSUME OutboxInductive, OutboxTypeOK', NEW t \in Tabs, Close(t)
  PROVE  OutboxInductive'
<1>1. /\ open' = open \ {t}
      /\ \E through \in SUBSET (calling[t] \cup ({sending[t]} \ {NoJob})) :
            late' = late \cup through
      /\ closed' = closed \cup calling[t] \cup storing[t]
                      \cup (Range(queue[t]) \ Durable)
      /\ calling' = [calling EXCEPT ![t] = {}]
      /\ storing' = [storing EXCEPT ![t] = {}]
      /\ queue' = [queue EXCEPT ![t] = <<>>]
      /\ left' = [left EXCEPT ![t] = <<>>]
      /\ sending' = [sending EXCEPT ![t] = NoJob]
      /\ UNCHANGED <<kept, asked, replaced, withdrawn, evicted>>
  BY DEF Close
<1>2. late' \subseteq late \cup InMemory(t)
  BY <1>1 DEF InMemory, OnTheWay
<1>3. /\ calling'[t] = {} /\ storing'[t] = {} /\ queue'[t] = <<>>
      /\ left'[t] = <<>> /\ sending'[t] = NoJob
  BY <1>1, BeforeStep DEF OutboxTypeOK
<1>4. Range(<<>>) = {}
  BY DEF Range
<1>5. InMemory(t)' = {} /\ InFlush(t)' = {} /\ Stored' = Stored /\ New = {}
  BY <1>1, <1>3, <1>4 DEF InMemory, OnTheWay, InFlush, Stored, New
<1>6. \A i : Settled(i)' <=> \/ Settled(i) \/ i \in calling[t] \cup storing[t]
                            \/ i \in Range(queue[t]) \ Durable
  BY <1>1 DEF Settled
<1>7. \A i \in InMemory(t) : i \in Stored' \/ Settled(i)'
  <2>1. \A i \in Range(queue[t]) : i \in Stored' \/ Settled(i)'
    BY <1>5, <1>6, BeforeStep
  <2>2. \A i \in InFlush(t) : i \in Range(queue[t]) \/ Settled(i)'
    BY <1>6, BeforeStep
  <2>3. InMemory(t) = calling[t] \cup storing[t] \cup InFlush(t) \cup Range(queue[t])
    BY DEF InMemory, OnTheWay, InFlush
  <2> QED
    BY <1>6, <2>1, <2>2, <2>3
<1>8. OthersRest(t)
  <2>1. \A u \in Tabs \ {t} :
           /\ calling'[u] = calling[u] /\ storing'[u] = storing[u]
           /\ queue'[u] = queue[u] /\ left'[u] = left[u] /\ sending'[u] = sending[u]
    BY <1>1, BeforeStep DEF OutboxTypeOK
  <2> QED
    BY <1>1, <2>1 DEF OthersRest
<1>9. Onward /\ CleanlyWithdrawn(t)
  BY <1>1, BeforeStep DEF Onward, CleanlyWithdrawn
<1>10. Sourced(t)
  BY <1>2, <1>5 DEF Sourced
<1>11. Traced(t)
  BY <1>1, <1>3, <1>4, <1>5, <1>7, BeforeStep DEF Traced
<1> QED
  BY <1>8, <1>9, <1>10, <1>11, TabStepKeeps

\* A page is loaded: its queue is what the storage holds.
LEMMA OpenKeeps ==
  ASSUME OutboxInductive, OutboxTypeOK', NEW t \in Tabs, Open(t)
  PROVE  OutboxInductive'
<1>1. /\ t \notin open /\ open' = open \cup {t}
      /\ queue' = [queue EXCEPT ![t] = Remaining(made, Jobs \ Stored)]
      /\ UNCHANGED <<calling, storing, left, sending, kept, late, asked, closed,
                     replaced, withdrawn, evicted>>
  BY DEF Open, flushv, server
<1>2. /\ Remaining(made, Jobs \ Stored) \in Seq(Jobs)
      /\ Range(Remaining(made, Jobs \ Stored)) = Range(made) \ (Jobs \ Stored)
  <2>1. made \in Seq(Jobs)
    BY BeforeStep DEF OutboxTypeOK
  <2> QED
    BY <2>1, RemainingIs
<1>3. Range(made) \ (Jobs \ Stored) \subseteq Stored
  <2>1. Range(made) \subseteq Jobs
    BY BeforeStep, QueueOfJobs DEF OutboxTypeOK
  <2> QED
    BY <2>1
<1>4. /\ Range(queue'[t]) \subseteq Stored
      /\ \A u \in Tabs \ {t} : queue'[u] = queue[u]
  BY <1>1, <1>2, <1>3, BeforeStep DEF OutboxTypeOK
<1>5. InMemory(t) = {}
  BY <1>1, BeforeStep
<1>6. /\ InMemory(t)' \subseteq Stored /\ InFlush(t)' = {}
      /\ Stored' = Stored /\ New = {}
  BY <1>1, <1>4, <1>5 DEF InMemory, OnTheWay, InFlush, Stored, New
<1>7. OthersRest(t) /\ Onward /\ CleanlyWithdrawn(t)
  BY <1>1, <1>4, BeforeStep DEF OthersRest, Onward, CleanlyWithdrawn
<1>8. Sourced(t)
  BY <1>1, <1>6 DEF Sourced
<1>9. Traced(t)
  BY <1>1, <1>4, <1>5, <1>6 DEF Traced
<1> QED
  BY <1>7, <1>8, <1>9, TabStepKeeps

\* The steps of the server and of the network leave the tabs alone.
LEMMA ElsewhereKeeps ==
  ASSUME OutboxInductive, OutboxTypeOK',
         UNCHANGED <<open, calling, storing, queue, left, sending, kept, asked,
                     replaced, withdrawn, evicted>>,
         late' \subseteq late, closed \subseteq closed'
  PROVE  OutboxInductive'
<1>1. \A t \in Tabs : /\ InMemory(t)' = InMemory(t) /\ InFlush(t)' = InFlush(t)
                      /\ Range(queue'[t]) = Range(queue[t])
                      /\ t \in open' <=> t \in open
  BY DEF InMemory, OnTheWay, InFlush
<1>2. Stored' = Stored /\ \A j : Settled(j) => Settled(j)'
  BY DEF Stored, Settled
<1>3. NothingLost'
  <2> SUFFICES ASSUME NEW j \in asked
               PROVE  Settled(j)' \/ j \in Stored' \/ \E u \in open' : j \in InMemory(u)'
    BY DEF NothingLost
  <2>1. Settled(j) \/ j \in Stored \/ \E u \in open : j \in InMemory(u)
    BY DEF OutboxInductive, NothingLost
  <2>2. \A u \in open : u \in Tabs
    BY BeforeStep DEF OutboxInductive, OutboxTypeOK
  <2> QED
    BY <1>1, <1>2, <2>1, <2>2
<1>4. WithdrawnIsGone'
  BY <1>1, <1>2 DEF OutboxInductive, WithdrawnIsGone
<1> QED
  BY <1>1, <1>2, <1>3, <1>4 DEF OutboxInductive

\* At the start nothing is asked for.
LEMMA InductiveInit == Init => OutboxInductive
<1> SUFFICES ASSUME Init PROVE OutboxInductive
  OBVIOUS
<1>1. Range(<<>>) = {}
  BY DEF Range
<1>2. Stored = {}
  BY DEF Init, Stored
<1>3. \A t \in Tabs : InMemory(t) = {} /\ InFlush(t) = {} /\ Range(queue[t]) = {}
  BY <1>1 DEF Init, InMemory, OnTheWay, InFlush
<1> QED
  BY <1>2, <1>3, InitTyped DEF Init, OutboxInductive, NothingLost, WithdrawnIsGone

\* Every step keeps the invariant.
LEMMA InductiveNext == OutboxInductive /\ [Next]_vars => OutboxInductive'
<1> SUFFICES ASSUME OutboxInductive, [Next]_vars PROVE OutboxInductive'
  OBVIOUS
<1>1. OutboxTypeOK'
  BY NextTyped DEF OutboxInductive
<1>2. CASE UNCHANGED vars
  BY <1>1, <1>2, ElsewhereKeeps DEF vars
<1>3. ASSUME NEW j \in Jobs, ServedLate(j) PROVE OutboxInductive'
  BY <1>1, <1>3, ElsewhereKeeps DEF ServedLate, device, flushv
<1>4. CASE Connect \/ Disconnect
  BY <1>1, <1>4, ElsewhereKeeps DEF Connect, Disconnect, flushv, server
<1> QED
  BY <1>1, <1>2, <1>3, <1>4, AskKeeps, PushKeeps, CallEndsKeeps, FlushKeeps,
     SendNextKeeps, SendEndsKeeps, CloseKeeps, OpenKeeps DEF Next

(***************************************************************************)
(* The outbox keeps its invariant, for every number of tabs and calls and  *)
(* any order of losses, late answers, closed tabs and reloads.             *)
(***************************************************************************)
THEOREM OutboxKeepsInvariant == Spec => []OutboxInductive
  BY InductiveInit, InductiveNext, PTL DEF Spec

(***************************************************************************)
(* Every save is settled, or a tab or the storage still holds it: neither  *)
(* two tabs over one storage, nor a discard that races a failed attempt,   *)
(* nor a closed tab loses it silently.                                     *)
(***************************************************************************)
THEOREM SavesNeverLost == Spec => []NothingLost
<1>1. OutboxInductive => NothingLost
  BY DEF OutboxInductive
<1> QED
  BY <1>1, OutboxKeepsInvariant, PTL

(***************************************************************************)
(* A save that only a queue held when a newer call discarded it is sent by *)
(* no tab again, not even after a reload.                                  *)
(***************************************************************************)
THEOREM WithdrawnNeverReturns == Spec => []WithdrawnIsGone
<1>1. OutboxInductive => WithdrawnIsGone
  BY DEF OutboxInductive
<1> QED
  BY <1>1, OutboxKeepsInvariant, PTL
==============================================================================
