----------------------------- MODULE MCBroadcast -----------------------------
(* Small broadcasts for TLC. *)
EXTENDS BroadcastProperties, TLC

CONSTANTS c1, c2, c3, ann, bob, worker, sweep

OneCampaign    == {c1}
ThreeCampaigns == {c1, c2, c3}
TwoPeople      == {ann, bob}
Worker         == {worker}
Both           == {worker, sweep}
NoFaults       == {}
LostMail       == {"replyLost"}

Interchangeable ==
    Permutations(ThreeCampaigns) \cup Permutations(TwoPeople) \cup Permutations(Both)

\* Passes that raised, restarts, and mails logged as failed.
Mishaps ==
    raises + restarts + Cardinality({w \in Campaigns \X People : log[w[1]][w[2]] = "failed"})

\* What is explored: two broadcasts with one mishap at most, or three without.
FewMishaps ==
    Mishaps <= IF \E c \in Campaigns : row[c] = "none" /\ walks[c] = 0 THEN 1 ELSE 0
==============================================================================
