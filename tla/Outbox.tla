------------------------------- MODULE Outbox -------------------------------
(***************************************************************************)
(* The browser's outbox (js/net.js) with its two kinds of callers in       *)
(* js/store.js: a checkout, and the product editor's save and permanent    *)
(* delete of one product.                                                  *)
(*                                                                         *)
(* A call is sent at once; one that fails in a retryable way is queued, in *)
(* the tab's memory and in the browser's storage, which the tabs share.    *)
(* `flush` takes a copy of the queue and sends its jobs one after another; *)
(* a later save or delete discards the product's queued saves before it is *)
(* sent.  An attempt that times out may still be served afterwards.        *)
(*                                                                         *)
(* Ghost variables: `asked` holds the calls made; `closed` those that the  *)
(* server accepted, that the user saw fail, or that were only in a tab's   *)
(* memory when it closed; `replaced` the saves a newer call discarded,     *)
(* `withdrawn` those of them that were nowhere but in the discarding tab's *)
(* queue, and `evicted` the jobs a full queue threw out.                   *)
(***************************************************************************)
EXTENDS Integers, Sequences, Functions

CONSTANTS
    Tabs,
    Orders, Saves, Deletes,     \* the calls, each made once
    NoJob,
    Durable,        \* the jobs that the browser's storage accepts
    Outcomes,       \* how an attempt may end
    MaxQueue,       \* MAX_QUEUE
    MaxAttempts,    \* MAX_ATTEMPTS
    MaxCloses,      \* bound: tabs closed
    MaxCuts         \* bound: connections lost

Jobs == Orders \cup Saves \cup Deletes

\* "late": the attempt is given up, and may be served all the same.
AllOutcomes == {"ok", "refused", "failed", "late"}

ASSUME OutboxAssumption ==
    /\ Orders \cap Saves = {} /\ (Orders \cup Saves) \cap Deletes = {}
    /\ NoJob \notin Jobs /\ Durable \subseteq Jobs
    /\ Outcomes \subseteq AllOutcomes
    /\ MaxQueue \in Nat \ {0} /\ MaxAttempts \in Nat \ {0}
    /\ MaxCloses \in Nat /\ MaxCuts \in Nat

VARIABLES
    connected, open,
    calling, storing,       \* per tab: calls being sent, calls being queued
    queue, tries,           \* per tab: `jobs`, and the attempts of each
    left, sending,          \* per tab: the rest of a flush, and its request
    made,                   \* the jobs in the order of their ids
    kept,                   \* the stored jobs, with their attempts
    shop, late,             \* the server, and what is still on its way to it
    asked, closed, replaced, withdrawn, evicted, closes, cuts

device == <<connected, open, closes, cuts>>
flushv == <<left, sending>>
server == <<shop, late>>
vars   == <<connected, open, calling, storing, queue, tries, left, sending,
            made, kept, shop, late, asked, closed, replaced, withdrawn,
            evicted, closes, cuts>>

------------------------------------------------------------------------------
Flushing(t) == left[t] # <<>> \/ sending[t] # NoJob

\* What tab t is about to send or is sending: no discard reaches it.
OnTheWay(t) == calling[t] \cup storing[t] \cup Range(left[t])
                 \cup ({sending[t]} \ {NoJob})

InMemory(t) == OnTheWay(t) \cup Range(queue[t])

Stored == DOMAIN kept

Init ==
    /\ connected \in BOOLEAN
    /\ open = Tabs
    /\ calling = [t \in Tabs |-> {}] /\ storing = [t \in Tabs |-> {}]
    /\ queue = [t \in Tabs |-> <<>>] /\ left = [t \in Tabs |-> <<>>]
    /\ sending = [t \in Tabs |-> NoJob]
    /\ tries = [t \in Tabs |-> [j \in Jobs |-> 0]]
    /\ made = <<>> /\ kept = <<>>
    /\ shop = "listed" /\ late = {}
    /\ asked = {} /\ closed = {} /\ replaced = {} /\ withdrawn = {} /\ evicted = {}
    /\ closes = 0 /\ cuts = 0

------------------------------------------------------------------------------
(* The server: a product deleted for good refuses every save.              *)

Accepts(j) == ~ (j \in Saves /\ shop = "deleted")

Applied(j) ==
    shop' = CASE j \in Saves   -> j
              [] j \in Deletes -> "deleted"
              [] OTHER         -> shop

\* An attempt to send j ends: `send`.
Attempt(j, how) ==
    /\ how \in {"ok", "refused"} => connected
    /\ \/ how = "ok" /\ Accepts(j) /\ Applied(j) /\ UNCHANGED late
       \/ how \in {"refused", "failed"} /\ UNCHANGED server
       \/ how = "late" /\ late' = late \cup {j} /\ UNCHANGED shop

\* An attempt that the browser gave up is served, or refused, after all.
ServedLate(j) ==
    /\ j \in late
    /\ late' = late \ {j}
    /\ \/ Accepts(j) /\ Applied(j) /\ closed' = closed \cup {j}
       \/ ~ Accepts(j) /\ UNCHANGED <<shop, closed>>
    /\ UNCHANGED <<device, calling, storing, queue, tries, flushv, made, kept,
                   asked, replaced, withdrawn, evicted>>

------------------------------------------------------------------------------
(* Queueing.                                                               *)

\* Mutant: the stored copy stays.
MutWithout(js) == kept

\* The stored jobs without those of js.
Without(js) == Restrict(kept, Stored \ js)

\* The storage with job j and its attempts.
StoredWith(j, n) == [k \in Stored \cup {j} |-> IF k = j THEN n ELSE kept[k]]

\* The jobs of q that are not in js, in their order.
Remaining(q, js) ==
    LET upTo[i \in 0..Len(q)] ==
            IF i = 0 THEN <<>>
            ELSE IF q[i] \in js THEN upTo[i - 1]
            ELSE Append(upTo[i - 1], q[i])
    IN  upTo[Len(q)]

\* A full queue throws out its oldest job: a job that failed for good is
\* never in it.
Overflow(q) == IF Len(q) < MaxQueue THEN {} ELSE {Head(q)}

\* `enqueue`, up to the call of the storage, from the queue without `gone`.
Enqueue(t, j, gone) ==
    LET out == Overflow(Remaining(queue[t], gone)) IN
    /\ queue' = [queue EXCEPT ![t] = Remaining(@, gone \cup out)]
    /\ kept' = Without(gone \cup out)
    /\ evicted' = evicted \cup out
    /\ made' = Append(made, j)
    /\ storing' = [storing EXCEPT ![t] = @ \cup {j}]

\* Mutant: the job is not written to the storage.
MutPush(t, j) ==
    /\ j \in storing[t]
    /\ storing' = [storing EXCEPT ![t] = @ \ {j}]
    /\ queue' = [queue EXCEPT ![t] = Append(@, j)]
    /\ tries' = [tries EXCEPT ![t][j] = 0]
    /\ UNCHANGED <<device, calling, flushv, made, kept, server, asked, closed,
                   replaced, withdrawn, evicted>>

\* The storage has answered: the job is queued.
Push(t, j) ==
    /\ j \in storing[t]
    /\ storing' = [storing EXCEPT ![t] = @ \ {j}]
    /\ queue' = [queue EXCEPT ![t] = Append(@, j)]
    /\ tries' = [tries EXCEPT ![t][j] = 0]
    /\ kept' = IF j \in Durable THEN StoredWith(j, 0) ELSE kept
    /\ UNCHANGED <<device, calling, flushv, made, server, asked, closed,
                   replaced, withdrawn, evicted>>

\* `discard`: a save or a delete of the product drops its queued saves.
Doomed(t, j) ==
    IF j \in Orders THEN {} ELSE Range(queue[t]) \cap Saves

\* The saves of js that nothing but tab t's queue and the storage holds.
Idle(t, js) ==
    {j \in js : /\ j \notin OnTheWay(t) \cup late
                /\ \A u \in Tabs \ {t} : j \notin InMemory(u)}

\* The user makes a call: `api` with queueing.
Ask(t, j) ==
    /\ t \in open /\ j \notin asked
    /\ asked' = asked \cup {j}
    /\ LET doomed == Doomed(t, j) IN
          /\ replaced' = replaced \cup doomed
          /\ withdrawn' = withdrawn \cup Idle(t, doomed)
          /\ \/ /\ connected
                /\ queue' = [queue EXCEPT ![t] = Remaining(@, doomed)]
                /\ kept' = Without(doomed)
                /\ calling' = [calling EXCEPT ![t] = @ \cup {j}]
                /\ UNCHANGED <<made, storing, evicted>>
             \/ /\ ~ connected
                /\ Enqueue(t, j, doomed)
                /\ UNCHANGED calling
    /\ UNCHANGED <<device, server, flushv, tries, closed>>

\* The reply to a call that was sent at once, or its failure.
CallEnds(t, j, how) ==
    /\ j \in calling[t]
    /\ Attempt(j, how)
    /\ calling' = [calling EXCEPT ![t] = @ \ {j}]
    /\ IF how \in {"ok", "refused"}
       THEN /\ closed' = closed \cup {j}
            /\ UNCHANGED <<queue, kept, evicted, made, storing>>
       ELSE Enqueue(t, j, {}) /\ UNCHANGED closed
    /\ UNCHANGED <<device, flushv, tries, asked, replaced, withdrawn>>

------------------------------------------------------------------------------
(* Flushing.                                                               *)

\* The jobs of the queue that are due: one that failed before may be waiting
\* for its time.  Retry now takes them all.
Flush(t) ==
    /\ t \in open /\ connected /\ ~ Flushing(t)
    /\ \E waiting \in SUBSET {j \in Range(queue[t]) : tries[t][j] > 0} :
          LET ready == Remaining(queue[t], waiting) IN
          /\ ready # <<>>
          /\ left' = [left EXCEPT ![t] = ready]
    /\ UNCHANGED <<device, calling, storing, queue, tries, sending, made, kept,
                   server, asked, closed, replaced, withdrawn, evicted>>

\* The flush turns to its next job, and passes it over when offline.
SendNext(t) ==
    /\ sending[t] = NoJob /\ left[t] # <<>>
    /\ left' = [left EXCEPT ![t] = Tail(@)]
    /\ sending' = IF connected THEN [sending EXCEPT ![t] = Head(left[t])]
                               ELSE sending
    /\ UNCHANGED <<device, calling, storing, queue, tries, made, kept, server,
                   asked, closed, replaced, withdrawn, evicted>>

\* Mutant: a job that failed is never given up.
MutOver(t, j, how) == how \in {"ok", "refused"}

\* The job leaves the queue: served, refused, or tried too often.
Over(t, j, how) ==
    how \in {"ok", "refused"} \/ tries[t][j] + 1 >= MaxAttempts

\* The reply to the flush's request, or its failure: the job is dropped, or
\* stored again with its attempts, be it still in the queue or not.
SendEnds(t, how) ==
    LET j == sending[t] IN
    /\ j # NoJob
    /\ Attempt(j, how)
    /\ sending' = [sending EXCEPT ![t] = NoJob]
    /\ IF Over(t, j, how)
       THEN /\ queue' = [queue EXCEPT ![t] = Remaining(@, {j})]
            /\ kept' = Without({j})
            /\ closed' = closed \cup {j}
            /\ UNCHANGED tries
       ELSE /\ tries' = [tries EXCEPT ![t][j] = @ + 1]
            /\ kept' = IF j \in Durable THEN StoredWith(j, tries[t][j] + 1)
                                        ELSE kept
            /\ UNCHANGED <<queue, closed>>
    /\ UNCHANGED <<device, calling, storing, left, made, asked, replaced,
                   withdrawn, evicted>>

------------------------------------------------------------------------------
(* The device.                                                             *)

\* A tab is closed; what it was sending may have reached the server.
Close(t) ==
    /\ t \in open /\ closes < MaxCloses
    /\ closes' = closes + 1
    /\ open' = open \ {t}
    /\ \E through \in SUBSET (calling[t] \cup ({sending[t]} \ {NoJob})) :
          late' = late \cup through
    /\ closed' = closed \cup calling[t] \cup storing[t]
                      \cup (Range(queue[t]) \ Durable)
    /\ calling' = [calling EXCEPT ![t] = {}]
    /\ storing' = [storing EXCEPT ![t] = {}]
    /\ queue' = [queue EXCEPT ![t] = <<>>]
    /\ left' = [left EXCEPT ![t] = <<>>]
    /\ sending' = [sending EXCEPT ![t] = NoJob]
    /\ tries' = [tries EXCEPT ![t] = [j \in Jobs |-> 0]]
    /\ UNCHANGED <<connected, made, kept, shop, asked, replaced, withdrawn,
                   evicted, cuts>>

\* Mutant: the page starts with an empty queue.
MutOpen(t) ==
    /\ t \notin open
    /\ open' = open \cup {t}
    /\ UNCHANGED <<connected, closes, cuts, calling, storing, queue, tries,
                   flushv, made, kept, server, asked, closed, replaced,
                   withdrawn, evicted>>

\* A page is loaded: `boot` takes what the storage holds.
Open(t) ==
    /\ t \notin open
    /\ open' = open \cup {t}
    /\ queue' = [queue EXCEPT ![t] = Remaining(made, Jobs \ Stored)]
    /\ tries' = [tries EXCEPT ![t] = [j \in Jobs |->
                                    IF j \in Stored THEN kept[j] ELSE 0]]
    /\ UNCHANGED <<connected, closes, cuts, calling, storing, flushv, made, kept,
                   server, asked, closed, replaced, withdrawn, evicted>>

Connect ==
    /\ ~ connected /\ connected' = TRUE /\ UNCHANGED cuts
    /\ UNCHANGED <<open, closes, calling, storing, queue, tries, flushv, made,
                   kept, server, asked, closed, replaced, withdrawn, evicted>>

Disconnect ==
    /\ connected /\ cuts < MaxCuts
    /\ connected' = FALSE /\ cuts' = cuts + 1
    /\ UNCHANGED <<open, closes, calling, storing, queue, tries, flushv, made,
                   kept, server, asked, closed, replaced, withdrawn, evicted>>

Next ==
    \/ \E t \in Tabs :
          \/ \E j \in Jobs : \/ Ask(t, j) \/ Push(t, j)
                             \/ \E how \in Outcomes : CallEnds(t, j, how)
          \/ Flush(t) \/ SendNext(t)
          \/ \E how \in Outcomes : SendEnds(t, how)
          \/ Close(t) \/ Open(t)
    \/ \E j \in Jobs : ServedLate(j)
    \/ Connect \/ Disconnect

Spec == Init /\ [][Next]_vars

\* The browser's callbacks and timers come; nothing is owed by the user or by
\* the network.
FairSpec ==
    /\ Spec
    /\ \A t \in Tabs :
          /\ WF_vars(Flush(t)) /\ WF_vars(SendNext(t))
          /\ WF_vars(\E how \in Outcomes : SendEnds(t, how))
          /\ \A j \in Jobs :
                /\ WF_vars(Push(t, j))
                /\ WF_vars(\E how \in Outcomes : CallEnds(t, j, how))
==============================================================================
