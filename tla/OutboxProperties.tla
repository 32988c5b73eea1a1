-------------------------- MODULE OutboxProperties --------------------------
(* What the outbox promises those who save. *)
EXTENDS Outbox

\* Every variable stays in its range; a stored job has attempts to spare.
OutboxTypeOK ==
    /\ connected \in BOOLEAN /\ open \subseteq Tabs
    /\ calling \in [Tabs -> SUBSET Jobs] /\ storing \in [Tabs -> SUBSET Jobs]
    /\ queue \in [Tabs -> Seq(Jobs)] /\ left \in [Tabs -> Seq(Jobs)]
    /\ tries \in [Tabs -> [Jobs -> 0..(MaxAttempts - 1)]]
    /\ sending \in [Tabs -> Jobs \cup {NoJob}]
    /\ made \in Seq(Jobs)
    /\ Stored \subseteq Durable /\ kept \in [Stored -> 0..(MaxAttempts - 1)]
    /\ shop \in Saves \cup {"listed", "deleted"}
    /\ asked \subseteq Jobs /\ closed \subseteq Jobs
    /\ closes \in 0..MaxCloses /\ cuts \in 0..MaxCuts

\* What became of a call: the server has it, its failure was shown, a newer
\* call replaced it, or one of the two known ways of losing it happened.
Settled(j) == j \in closed \cup replaced \cup evicted

\* Whatever is saved is settled, or a tab or the storage still holds it: the
\* storage itself when every tab that had it is closed.  Two tabs that share
\* the storage, a failed attempt after a discard and a second copy in the
\* other tab do not lose it.
NothingLost ==
    \A j \in asked : \/ Settled(j) \/ j \in Stored
                     \/ \E t \in open : j \in InMemory(t)

\* A save that nothing but the queue held when a newer call discarded it is
\* gone: no tab sends it again, not even after a reload.
WithdrawnIsGone ==
    \A j \in withdrawn : /\ j \notin Stored \cup late
                         /\ \A t \in Tabs : j \notin InMemory(t)

\* The jobs of a flush that has begun.
InFlush(t) == Range(left[t]) \cup ({sending[t]} \ {NoJob})

(***************************************************************************)
(* The inductive invariant of OutboxProofs.  A closed tab holds nothing;   *)
(* what a flush goes on sending is in the tab's queue or settled; and what *)
(* the storage accepts is, while it waits in a queue, also stored or       *)
(* settled.  That is why closing a tab loses nothing but what was only in  *)
(* its memory.                                                             *)
(***************************************************************************)
OutboxInductive ==
    /\ OutboxTypeOK
    /\ late \cup replaced \cup withdrawn \cup evicted \cup Stored \subseteq asked
    /\ \A t \in Tabs :
          /\ InMemory(t) \subseteq asked
          /\ t \notin open => InMemory(t) = {}
          /\ \A j \in InFlush(t) : j \in Range(queue[t]) \/ Settled(j)
          /\ \A j \in Range(queue[t]) \cap Durable : j \in Stored \/ Settled(j)
    /\ NothingLost
    /\ WithdrawnIsGone

\* Once the device stays connected and the pages stay open, every call gets
\* settled: the retries come to an end.
EverySaveSettles ==
    <>[](connected /\ open = Tabs) => \A j \in Jobs : j \in asked ~> Settled(j)

\* Refuted: a save never overwrites a newer one that has reached the server
\* (the editor discards the older queued saves of a product before it sends).
NewestSaveStands ==
    [][\A j \in replaced : ~ (shop \in Saves \ {j} /\ shop' = j)]_vars

\* Refuted: an order is not thrown out of the queue unsent.
OrdersNotEvicted == evicted \cap Orders \subseteq closed
==============================================================================
