------------------------------- MODULE MCShelf -------------------------------
(* A product with two variants for TLC. *)
EXTENDS ShelfProperties, TLC

CONSTANTS red, blue, ann, bob, desk, phone, sweep

TwoVariants == {red, blue}
TwoShoppers == {ann, bob}
OneDesk     == {desk, sweep}
TwoDesks    == {desk, phone, sweep}
OffOnly     == {"off"}
MapOnly     == {"map"}

Interchangeable == Permutations(TwoVariants) \cup Permutations(TwoShoppers)
==============================================================================
