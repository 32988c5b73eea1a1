--------------------------- MODULE ShelfProperties ---------------------------
(***************************************************************************)
(* What must hold of a product's stock.                                    *)
(***************************************************************************)
EXTENDS Shelf

\* Every variable has its type: no count is ever negative.
ShelfTypeOK ==
    /\ total \in Nat /\ opt \in Counts
    /\ locked \in BOOLEAN
    /\ cart \in [Shoppers -> Carts]
    /\ hand \in [Editors -> Hand]
    /\ moved \in [Editors -> SUBSET Variants]
    /\ sales \in 0..MaxSales /\ edits \in 0..MaxEdits
    /\ books \in [Variants -> Int]
    /\ stale \subseteq Variants /\ blind \subseteq Variants

(***************************************************************************)
(* A variant's count is what the books say - every number the owner typed, *)
(* every unit taken, every unit given back - unless a save wrote it back   *)
(* from a copy that was out of date, or a unit of it was given back while  *)
(* the catalogue could not be read.  Reservations that race, refusals,     *)
(* saves of other fields and the sweep lose no unit and make none up.      *)
(***************************************************************************)
CountsExplained ==
    \A v \in Variants : opt[v] # books[v] => v \in stale \cup blind

(***************************************************************************)
(* The total a shopper's line is checked against and the sum of the        *)
(* variants part only through a unit given back blindly: saves of stale    *)
(* copies move both columns together, however they race.                   *)
(***************************************************************************)
TotalSplitsOnlyBlindly ==
    total # SumOf(opt) => blind # {}

(***************************************************************************)
(* A total that has parted from its variants is repaired by the sweep, or  *)
(* the owner locks the product.                                            *)
(***************************************************************************)
TotalsReconciled ==
    (total # SumOf(opt)) ~> (total = SumOf(opt) \/ locked)

------------------------------------------------------------------------------
(* What the documentation of the code says.                                *)

\* "A manual Out-of-stock lock survives every automated writer": no step of
\* the scheduler's sweep clears it.
LockOutlivesSweep ==
    [][Save(Sweeper) => (locked => locked')]_vars

\* "a price edit, a photo swap - leaves the lock exactly as it was".
PhotoLeavesLock ==
    [][\A e \in Owners :
          Settle(e) /\ hand[e].job \in {"photo", "price"} => locked' = locked]_vars

\* "per-variant maps - merged per key, so one variant's quantity cannot wipe
\* another's": a save of one variant's number changes no other variant.
OtherVariantsKept ==
    [][\A e \in Owners :
          Save(e) /\ hand[e].job = "map" =>
              \A v \in Variants \ {hand[e].v} : opt'[v] = opt[v]]_vars
==============================================================================
