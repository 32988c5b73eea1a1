------------------------------ MODULE OrderBook ------------------------------
(***************************************************************************)
(* One order as the shop stores it, and what a change of status does to    *)
(* the stock the order holds: api.py `_sync_order_stock`.                  *)
(*                                                                         *)
(* A stored order is cut down to the two facts every stock decision reads: *)
(* its status, and whether its payload carries `stockApplied` (the list of *)
(* units it took).  The list is always the whole cart, so a flag is enough.*)
(***************************************************************************)

Statuses == {"pending", "confirmed", "declined"}

Row == [status : Statuses, applied : BOOLEAN]

\* No row under this id.
NoRow == [status |-> "absent", applied |-> FALSE]

\* The row a finished checkout writes: its reservation is recorded on it.
PlacedRow == [status |-> "pending", applied |-> TRUE]

\* The row a counter sale writes: confirmed at once, without `stockApplied`.
WalkInRow == [status |-> "confirmed", applied |-> FALSE]

(***************************************************************************)
(* The units of a row are off the shelf when it records them, and also     *)
(* when it is confirmed without a record: leaving "confirmed" gives back   *)
(* the cart when `stockApplied` is missing.                                *)
(***************************************************************************)
Owes(row) == row.applied \/ row.status = "confirmed"

\* Becoming confirmed takes the cart, unless the row already records it.
Takes(row, new) ==
    /\ new = "confirmed"
    /\ row.status # "confirmed"
    /\ ~row.applied

\* Leaving confirmed gives the cart back; pending to declined gives back
\* only what the row records.
Gives(row, new) ==
    \/ row.status = "confirmed" /\ new # "confirmed"
    \/ row.status = "pending" /\ new = "declined" /\ row.applied

\* Those two transitions clear `stockApplied`, whether units moved or not.
Clears(row, new) ==
    \/ row.status = "confirmed" /\ new # "confirmed"
    \/ row.status = "pending" /\ new = "declined"

\* Mutant: `stockApplied` is not cleared when its units go back.
MutSynced(row, new) ==
    [status |-> new, applied |-> row.applied \/ Takes(row, new)]

\* The row after the change of status.
Synced(row, new) ==
    [status  |-> new,
     applied |-> (row.applied \/ Takes(row, new)) /\ ~Clears(row, new)]
==============================================================================
