------------------------------ MODULE SaleLedger ------------------------------
(***************************************************************************)
(* What the shop promises about its stock, whatever the handlers do: the   *)
(* whole cart of an order leaves the shelf in one step or not at all, only *)
(* when every unit of it is there, and comes back in one step.             *)
(***************************************************************************)
EXTENDS Naturals

CONSTANTS Lines, Orders, Cart, InitialStock

VARIABLES shelf,    \* units that no order holds
          sold      \* the orders that hold their cart

Init == shelf = InitialStock /\ sold = {}

Sell(o) ==
    /\ o \notin sold
    /\ \A l \in Lines : shelf[l] >= Cart[o][l]
    /\ shelf' = [l \in Lines |-> shelf[l] - Cart[o][l]]
    /\ sold' = sold \cup {o}

Refund(o) ==
    /\ o \in sold
    /\ shelf' = [l \in Lines |-> shelf[l] + Cart[o][l]]
    /\ sold' = sold \ {o}

Next == \E o \in Orders : Sell(o) \/ Refund(o)

Spec == Init /\ [][Next]_<<shelf, sold>>
===============================================================================
