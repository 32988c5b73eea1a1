---------------------------- MODULE MCProductBin ----------------------------
(* Two products, one of them bundled, for TLC. *)
EXTENDS ProductBinProperties, TLC

CONSTANTS vase, lamp, ann, bob, worker

TwoProducts == {vase, lamp}
Bundled     == {lamp}
OneAdmin    == {ann, worker}
TwoAdmins   == {ann, bob, worker}
Recycling   == {"trash", "restore"}
Purging     == {"trash", "purge"}
EveryCall   == Calls
NoCall      == {}
Purges      == {"rpc"}
ListReads   == {"readTombs"}
Tombstones  == {"tombs"}

Admins == Permutations({ann, bob})

\* What of a state the next steps and the properties look at.
Relevant ==
    <<row, ledger, tombs, trash, hidden, jobs, memo, ops, binned, asked, excused,
      [r \in Requests |-> IF req[r].pc = "idle" THEN {} ELSE off[r]],
      [r \in Requests |-> IF req[r].pc \in {"writeTombs", "writeClear"} THEN req[r]
                          ELSE [req[r] EXCEPT !.tombs = {}]]>>
==============================================================================
