-------------------------- MODULE MCSupplierAlerts --------------------------
(* One or two items for TLC. *)
EXTENDS SupplierAlertsProperties, TLC

CONSTANTS vase, lamp

OneItem  == {vase}
TwoItems == {vase, lamp}
UpToTwo  == 0..2

Interchangeable == Permutations({vase, lamp})
==============================================================================
