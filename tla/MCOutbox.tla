------------------------------ MODULE MCOutbox ------------------------------
(* One or two tabs, an order, saves and a delete of one product, for TLC. *)
EXTENDS OutboxProperties, TLC

CONSTANTS left1, right1, o1, s1, s2, d1

OneTab     == {left1}
TwoTabs    == {left1, right1}
OneOrder   == {o1}
OneSave    == {s1}
TwoSaves   == {s1, s2}
OneDelete  == {d1}
NoCalls    == {}
AllDurable == Jobs
SavesKept  == Saves
Plain      == {"ok", "failed"}

Twins == Permutations({left1, right1})
==============================================================================
