----------------------------- MODULE ShelfProofs -----------------------------
(***************************************************************************)
(* Every variant's count is explained by the books, for any number of      *)
(* variants, shoppers and editors.                                         *)
(*                                                                         *)
(* The argument: what an editor read is still true of every variant nobody *)
(* has touched since (Fresh), so a save written back whole changes only    *)
(* the variant the owner typed, which it books, and those touched          *)
(* meanwhile, which it makes stale.                                        *)
(***************************************************************************)
EXTENDS ShelfProperties, Sums

\* An editor's hand has all its fields; its sum is left out, being a fold.
InHand(h) ==
    /\ DOMAIN h = DOMAIN Free
    /\ h.copy \in Counts
    /\ h.q \in Nat

\* A shopper's line in progress names a variant.
InCart(c) == c \in Carts /\ (c.pc # "idle" => c.v \in Variants)

Stored ==
    /\ opt \in Counts
    /\ books \in [Variants -> Int]
    /\ moved \in [Editors -> SUBSET Variants]

Working ==
    /\ DOMAIN cart = Shoppers /\ \A s \in Shoppers : InCart(cart[s])
    /\ DOMAIN hand = Editors  /\ \A e \in Editors : InHand(hand[e])

\* An editor's copy is out of date only where others have moved units.
Fresh ==
    \A e \in Editors : hand[e].pc = "read" =>
        \A v \in Variants \ moved[e] : hand[e].copy[v] = opt[v]

ShelfInv == Stored /\ Working /\ Fresh /\ CountsExplained

------------------------------------------------------------------------------
\* An idle hand is a hand, and is not reading.
LEMMA FreeHand == InHand(Free) /\ Free.pc # "read"
  BY DEF Free, InHand, Counts, Nothing

\* A hand that has just read the row holds its counts as they are.
LEMMA TypedHand ==
  ASSUME opt \in Counts, NEW j, NEW v, NEW q \in Nat
  PROVE  InHand(Typed(j, v, q)) /\ Typed(j, v, q).copy = opt
  BY DEF Typed, Free, InHand

\* What a hand saves is a map of counts.
LEMMA WrittenCounts ==
  ASSUME NEW h, InHand(h)
  PROVE  Written(h) \in Counts
  BY DEF Written, InHand, Counts

\* The settings of the bounds the editors' numbers come from.
LEMMA Bounds == MaxQty \in Nat /\ Sweeper \in Editors
  BY ShelfAssumption

\* The initial row is its own books, and no hand reads.
LEMMA InitShelf == Init => ShelfInv
<1> SUFFICES ASSUME Init PROVE ShelfInv
  OBVIOUS
<1>1. Stored
  BY Bounds DEF Init, Stored, Counts
<1>2. Working
  <2>1. \A s \in Shoppers : InCart(cart[s])
    BY DEF Init, InCart, Carts, Empty
  <2> QED
    BY <2>1, FreeHand DEF Init, Working
<1>3. Fresh
  BY FreeHand DEF Init, Fresh
<1>4. CountsExplained
  BY DEF Init, CountsExplained
<1> QED
  BY <1>1, <1>2, <1>3, <1>4 DEF ShelfInv

------------------------------------------------------------------------------
(* Steps that leave the row and the hands alone.                           *)

\* A line checked against the lock names the variant it is for.
LEMMA CheckLockKeeps ==
  ASSUME ShelfInv, NEW s \in Shoppers, NEW v \in Variants, CheckLock(s, v)
  PROVE  ShelfInv'
<1> USE DEF ShelfInv, CheckLock, shelf, ghosts
<1>1. Stored'
  BY DEF Stored
<1>2. Working'
  <2>1. InCart([pc |-> "checked", v |-> v])
    BY DEF InCart, Carts
  <2>2. \A t \in Shoppers : InCart(cart'[t])
    BY <2>1 DEF Working
  <2> QED
    BY <2>2 DEF Working
<1>3. Fresh' /\ CountsExplained'
  BY DEF Fresh, CountsExplained
<1> QED
  BY <1>1, <1>2, <1>3

\* A shopper's line is finished, or holds its unit, and names its variant.
LEMMA CartKeeps ==
  ASSUME Working, NEW s \in Shoppers, UNCHANGED hand,
         \/ cart' = [cart EXCEPT ![s] = Empty]
         \/ cart[s].pc = "checked" /\ cart' = [cart EXCEPT ![s].pc = "holds"]
  PROVE  Working'
<1>1. InCart(Empty)
  BY DEF InCart, Empty, Carts
<1>2. cart[s].pc = "checked" => InCart([cart[s] EXCEPT !.pc = "holds"])
  BY DEF Working, InCart, Carts
<1>3. \A t \in Shoppers : InCart(cart'[t])
  BY <1>1, <1>2 DEF Working
<1> QED
  BY <1>3 DEF Working

\* d units of v are moved, booked, and told to every hand.
Booked(v, d) ==
    /\ opt[v] + d \in Nat
    /\ opt' = [opt EXCEPT ![v] = @ + d]
    /\ books' = [books EXCEPT ![v] = @ + d]
    /\ Outdate({v})
    /\ UNCHANGED <<hand, stale, blind>>

\* Units so moved leave every count explained.
LEMMA UnitKeeps ==
  ASSUME ShelfInv, Working', NEW v \in Variants, NEW d \in Int, Booked(v, d)
  PROVE  ShelfInv'
<1> USE DEF ShelfInv, Booked
<1>1. Stored'
  BY DEF Stored, Outdate, Counts
<1>2. Fresh'
  BY DEF Fresh, Outdate, Stored, Counts
<1>3. CountsExplained'
  BY DEF CountsExplained, Stored, Counts
<1> QED
  BY <1>1, <1>2, <1>3

\* A unit taken is booked; a refused line leaves the row alone.
LEMMA ReserveKeeps ==
  ASSUME ShelfInv, NEW s \in Shoppers, Reserve(s)
  PROVE  ShelfInv'
<1> DEFINE v == cart[s].v
<1>1. v \in Variants
  BY DEF ShelfInv, Working, InCart, Reserve
<1>2. Working'
  BY CartKeeps DEF ShelfInv, Reserve
<1>3. CASE TakeUnit(v) /\ books' = [books EXCEPT ![v] = @ - 1] /\ Outdate({v})
  <2>1. opt[v] \in Nat /\ opt[v] >= 1 /\ books[v] \in Int
    BY <1>1, <1>3 DEF TakeUnit, ShelfInv, Stored, Counts
  <2>2. opt[v] + (-1) \in Nat /\ opt[v] - 1 = opt[v] + (-1)
        /\ books[v] - 1 = books[v] + (-1)
    BY <2>1
  <2>3. Booked(v, -1)
    BY <1>3, <2>2 DEF Booked, TakeUnit, Reserve
  <2> QED
    BY <1>1, <1>2, <2>3, UnitKeeps
<1>4. CASE UNCHANGED <<shelf, books, moved>>
  <2>1. Stored' /\ Fresh' /\ CountsExplained'
    BY <1>4 DEF ShelfInv, Reserve, Stored, Fresh, CountsExplained, shelf
  <2> QED
    BY <1>2, <2>1 DEF ShelfInv
<1> QED
  BY <1>3, <1>4 DEF Reserve

\* An order that stands keeps its unit.
LEMMA KeepKeeps ==
  ASSUME ShelfInv, NEW s \in Shoppers, Keep(s)
  PROVE  ShelfInv'
<1>1. Working'
  BY CartKeeps DEF ShelfInv, Keep
<1>2. Stored' /\ Fresh' /\ CountsExplained'
  BY DEF ShelfInv, Keep, Stored, Fresh, CountsExplained, shelf, ghosts
<1> QED
  BY <1>1, <1>2 DEF ShelfInv

\* A unit given back is booked; one given back blindly is remembered.
LEMMA GiveBackKeeps ==
  ASSUME ShelfInv, NEW s \in Shoppers, GiveBack(s)
  PROVE  ShelfInv'
<1> DEFINE v == cart[s].v
<1>1. v \in Variants
  BY DEF ShelfInv, Working, InCart, GiveBack
<1>2. Working'
  BY CartKeeps DEF ShelfInv, GiveBack
<1>3. CASE opt' = [opt EXCEPT ![v] = @ + 1] /\ Outdate({v}) /\ UNCHANGED blind
  <2>1. opt[v] + 1 \in Nat
    BY <1>1 DEF ShelfInv, Stored, Counts
  <2>2. Booked(v, 1)
    BY <1>3, <2>1 DEF Booked, GiveBack
  <2> QED
    BY <1>1, <1>2, <2>2, UnitKeeps
<1>4. CASE blind' = blind \cup {v} /\ UNCHANGED <<opt, moved>>
  <2>1. Stored'
    BY <1>1, <1>4 DEF ShelfInv, Stored, GiveBack
  <2>2. Fresh'
    BY <1>4 DEF ShelfInv, Fresh, GiveBack
  <2>3. CountsExplained'
    BY <1>1, <1>4 DEF ShelfInv, CountsExplained, Stored, GiveBack
  <2> QED
    BY <1>2, <2>1, <2>2, <2>3 DEF ShelfInv
<1> QED
  BY <1>3, <1>4 DEF GiveBack

------------------------------------------------------------------------------
(* The owner's screens and the sweep.                                      *)

\* A row just read is fresh.
LEMMA ReadKeeps ==
  ASSUME ShelfInv, NEW e \in Editors, NEW j, NEW w, NEW q \in Nat,
         hand' = [hand EXCEPT ![e] = Typed(j, w, q)],
         moved' = [moved EXCEPT ![e] = {}],
         UNCHANGED <<shelf, cart, ghosts>>
  PROVE  ShelfInv'
<1> USE DEF ShelfInv
<1> DEFINE h == Typed(j, w, q)
<1>1. InHand(h) /\ h.copy = opt
  BY TypedHand DEF Stored
<1> HIDE DEF h
<1>2. hand' = [hand EXCEPT ![e] = h]
  BY DEF h
<1>3. Stored'
  BY DEF Stored, shelf, ghosts
<1>4. Working'
  BY <1>1, <1>2 DEF Working
<1>5. Fresh'
  <2> SUFFICES ASSUME NEW f \in Editors, hand'[f].pc = "read",
                      NEW v \in Variants \ moved'[f]
               PROVE  hand'[f].copy[v] = opt'[v]
    BY DEF Fresh
  <2>1. CASE f = e
    BY <1>1, <1>2, <2>1 DEF Working, shelf
  <2>2. CASE f # e
    BY <1>2, <2>2 DEF Working, Stored, Fresh, shelf
  <2> QED
    BY <2>1, <2>2
<1>6. CountsExplained'
  BY DEF CountsExplained, shelf, ghosts
<1> QED
  BY <1>3, <1>4, <1>5, <1>6

\* A screen opened reads the row.
LEMMA OpenKeeps ==
  ASSUME ShelfInv, NEW e \in Editors, Open(e)
  PROVE  ShelfInv'
<1>1. PICK j \in Jobs, w \in Variants \cup {NoVariant}, q \in 0..MaxQty :
         hand' = [hand EXCEPT ![e] = Typed(j, w, q)]
  BY Bounds DEF Open
<1>2. q \in Nat
  BY Bounds
<1>3. moved' = [moved EXCEPT ![e] = {}] /\ UNCHANGED <<shelf, cart, ghosts>>
  BY DEF Open
<1> QED
  BY <1>1, <1>2, <1>3, ReadKeeps

\* So does the sweep.
LEMMA SweepReadKeeps == ASSUME ShelfInv, SweepRead PROVE ShelfInv'
<1>1. /\ hand' = [hand EXCEPT ![Sweeper] = Typed("sweep", NoVariant, 0)]
      /\ moved' = [moved EXCEPT ![Sweeper] = {}]
      /\ UNCHANGED <<shelf, cart, ghosts>>
  BY DEF SweepRead
<1> QED
  BY <1>1, Bounds, ReadKeeps

\* A hand that is no longer reading.
LEMMA HandKeeps ==
  ASSUME Working, NEW e \in Editors, UNCHANGED cart,
         \/ hand' = [hand EXCEPT ![e] = Free]
         \/ \E says : hand' = [hand EXCEPT ![e].pc = "settle", ![e].says = says]
  PROVE  /\ Working' /\ hand'[e].pc # "read"
         /\ \A f \in Editors \ {e} : hand'[f] = hand[f]
<1>1. CASE hand' = [hand EXCEPT ![e] = Free]
  BY <1>1, FreeHand DEF Working
<1>2. ASSUME NEW says,
             hand' = [hand EXCEPT ![e].pc = "settle", ![e].says = says]
      PROVE  /\ Working' /\ hand'[e].pc # "read"
             /\ \A f \in Editors \ {e} : hand'[f] = hand[f]
  <2>1. \A f \in Editors \ {e} : hand'[f] = hand[f]
    BY <1>2 DEF Working
  <2>2. InHand(hand'[e]) /\ hand'[e].pc = "settle"
    BY <1>2 DEF Working, InHand, Free
  <2> QED
    BY <1>2, <2>1, <2>2 DEF Working
<1> QED
  BY <1>1, <1>2

\* A save books what was typed and owns up to what was stale.
LEMMA StoreKeeps ==
  ASSUME ShelfInv, NEW e \in Editors, hand[e].pc = "read", Store(e), Working',
         hand'[e].pc # "read", \A f \in Editors \ {e} : hand'[f] = hand[f]
  PROVE  ShelfInv'
<1> DEFINE h  == hand[e]
           cs == Counted(h)
           ch == {v \in Variants : opt'[v] # opt[v] \/ v \in cs}
<1>1. InHand(h) /\ Written(h) \in Counts
  BY WrittenCounts DEF ShelfInv, Working
<1>2. /\ opt' = Written(h)
      /\ books' = [v \in Variants |-> IF v \in cs THEN h.q ELSE books[v]]
      /\ stale' = (stale \cup moved[e]) \ cs
      /\ blind' = blind \ cs
      /\ moved' = [f \in Editors |-> moved[f] \cup ch]
  BY DEF Store, Outdate
<1>3. \A v \in Variants : opt'[v] = IF v \in cs THEN h.q ELSE h.copy[v]
  BY <1>2 DEF Written
<1>4. \A v \in Variants \ moved[e] : h.copy[v] = opt[v]
  BY DEF ShelfInv, Fresh
<1>5. Stored /\ Fresh /\ CountsExplained
  BY DEF ShelfInv
<1> HIDE DEF h, cs
<1>6. Stored'
  BY <1>1, <1>2, <1>5 DEF Stored, InHand
<1>7. Fresh'
  <2> SUFFICES ASSUME NEW f \in Editors, hand'[f].pc = "read",
                      NEW v \in Variants \ moved'[f]
               PROVE  hand'[f].copy[v] = opt'[v]
    BY DEF Fresh
  <2>1. f \in Editors \ {e} /\ hand'[f] = hand[f]
    OBVIOUS
  <2>2. v \notin moved[f] /\ opt'[v] = opt[v]
    BY <1>2
  <2> QED
    BY <1>5, <2>1, <2>2 DEF Fresh
<1>8. CountsExplained'
  <2> SUFFICES ASSUME NEW v \in Variants, opt'[v] # books'[v]
               PROVE  v \in stale' \cup blind'
    BY DEF CountsExplained
  <2>1. v \notin cs /\ opt'[v] = h.copy[v] /\ books'[v] = books[v]
    BY <1>2, <1>3
  <2>2. CASE v \in moved[e]
    BY <1>2, <2>1, <2>2
  <2>3. CASE v \notin moved[e]
    BY <1>2, <1>4, <1>5, <2>1, <2>3 DEF CountsExplained
  <2> QED
    BY <2>2, <2>3
<1> QED
  BY <1>6, <1>7, <1>8 DEF ShelfInv

\* The stock manager's save.
LEMMA SaveCountKeeps ==
  ASSUME ShelfInv, NEW e \in Editors, SaveCount(e)
  PROVE  ShelfInv'
<1>1. /\ Working' /\ hand'[e].pc # "read"
      /\ \A f \in Editors \ {e} : hand'[f] = hand[f]
  BY HandKeeps DEF ShelfInv, SaveCount
<1> QED
  BY <1>1, StoreKeeps DEF SaveCount

\* The product editor's, the photo's and the sweep's.
LEMMA SaveProductKeeps ==
  ASSUME ShelfInv, NEW e \in Editors, SaveProduct(e)
  PROVE  ShelfInv'
<1>1. /\ Working' /\ hand'[e].pc # "read"
      /\ \A f \in Editors \ {e} : hand'[f] = hand[f]
  BY HandKeeps DEF ShelfInv, SaveProduct, Settling
<1> QED
  BY <1>1, StoreKeeps DEF SaveProduct

\* Steps of a hand that write no counts.
LEMMA QuietKeeps ==
  ASSUME ShelfInv, NEW e \in Editors, SavePrice(e) \/ Settle(e) \/ Unlock(e)
  PROVE  ShelfInv'
<1>1. /\ Working' /\ hand'[e].pc # "read"
      /\ \A f \in Editors \ {e} : hand'[f] = hand[f]
  <2>1. UNCHANGED cart
    BY DEF SavePrice, Settle, Unlock
  <2>2. \/ hand' = [hand EXCEPT ![e] = Free]
        \/ \E says : hand' = [hand EXCEPT ![e].pc = "settle", ![e].says = says]
    BY DEF SavePrice, Settle, Unlock, Settling
  <2> QED
    BY <2>1, <2>2, HandKeeps DEF ShelfInv
<1>2. UNCHANGED <<opt, books, stale, blind, moved>>
  BY DEF SavePrice, Settle, Unlock, shelf, ghosts
<1>3. Stored' /\ Fresh' /\ CountsExplained'
  BY <1>1, <1>2 DEF ShelfInv, Stored, Fresh, CountsExplained
<1> QED
  BY <1>1, <1>3 DEF ShelfInv

\* Every step keeps the invariant.
LEMMA NextKeeps == ASSUME ShelfInv, [Next]_vars PROVE ShelfInv'
<1>1. ASSUME NEW s \in Shoppers, Reserve(s) \/ Keep(s) \/ GiveBack(s)
      PROVE  ShelfInv'
  BY <1>1, ReserveKeeps, KeepKeeps, GiveBackKeeps
<1>2. ASSUME NEW e \in Owners,
             Open(e) \/ SaveCount(e) \/ SavePrice(e) \/ Unlock(e)
      PROVE  ShelfInv'
  BY <1>2, OpenKeeps, SaveCountKeeps, QuietKeeps DEF Owners
<1>3. ASSUME NEW e \in Editors, Save(e) PROVE ShelfInv'
  BY <1>3, SaveProductKeeps, QuietKeeps DEF Save
<1>4. CASE UNCHANGED vars
  BY <1>4 DEF vars, ShelfInv, Stored, Working, Fresh, CountsExplained
<1> QED
  BY <1>1, <1>2, <1>3, <1>4, CheckLockKeeps, SweepReadKeeps DEF Next

------------------------------------------------------------------------------
(***************************************************************************)
(* Whatever races, a variant whose count differs from the books was        *)
(* written back stale or had a unit given back blindly.                    *)
(***************************************************************************)
THEOREM CountsAlwaysExplained == Spec => []CountsExplained
<1>1. ShelfInv /\ [Next]_vars => ShelfInv'
  BY NextKeeps
<1>2. ShelfInv => CountsExplained
  BY DEF ShelfInv
<1> QED
  BY InitShelf, <1>1, <1>2, PTL DEF Spec

------------------------------------------------------------------------------
(* Types, and the total beside the sum of the variants.                    *)

\* The sum of a map of counts is a count.
LEMMA SumOfCounts == ASSUME NEW c \in Counts PROVE SumOf(c) \in Nat
<1>1. DOMAIN c = Variants /\ \A v \in Variants : c[v] \in Nat
  BY DEF Counts
<1>2. SumFunctionOnSet(c, Variants) \in Nat
  BY <1>1, ShelfAssumption, SumIsNat
<1> QED
  BY <1>1, <1>2 DEF SumOf, SumFunction

\* One unit more or less of a variant is one more or less in the sum.
LEMMA SumOfUnit ==
  ASSUME NEW c \in Counts, NEW v \in Variants, NEW d \in Int, c[v] + d \in Nat
  PROVE  SumOf([c EXCEPT ![v] = @ + d]) = SumOf(c) + d
<1> DEFINE b == [c EXCEPT ![v] = @ + d]
<1>1. /\ DOMAIN c = Variants /\ DOMAIN b = Variants /\ b[v] = c[v] + d
      /\ \A u \in Variants : c[u] \in Int /\ b[u] \in Int /\ (u # v => b[u] = c[u])
  BY DEF Counts
<1> HIDE DEF b
<1>2. SumFunctionOnSet(b, Variants) = SumFunctionOnSet(c, Variants) + b[v] - c[v]
  BY <1>1, ShelfAssumption, SumChange
<1>3. SumFunctionOnSet(c, Variants) \in Int
  BY <1>1, ShelfAssumption, SumIsInt
<1>4. SumOf(b) = SumOf(c) + d
  BY <1>1, <1>2, <1>3 DEF SumOf, SumFunction
<1> QED
  BY <1>4 DEF b

\* An idle hand is a hand, and so is one that has read the row.
LEMMA HandsTyped ==
  ASSUME ShelfTypeOK, NEW j \in AllJobs \cup {"sweep"},
         NEW w \in Variants \cup {NoVariant}, NEW q \in 0..MaxQty
  PROVE  Free \in Hand /\ Typed(j, w, q) \in Hand
<1>1. Free \in Hand
  BY Bounds DEF Free, Hand, Nothing, Counts
<1>2. j \in AllJobs \cup {"none", "sweep"} /\ opt \in Counts /\ total \in Nat
  BY DEF ShelfTypeOK
<1>3. Typed(j, w, q) \in Hand
  BY <1>1, <1>2 DEF Typed, Hand
<1> QED
  BY <1>1, <1>3

\* A hand that goes on to settle the lock is a hand.
LEMMA SettlingTyped ==
  ASSUME ShelfTypeOK, NEW e \in Editors, NEW n, Settling(e, n)
  PROVE  hand' \in [Editors -> Hand]
<1>1. Says(hand[e], n) \in {"nothing", "out", "units"}
  BY DEF Says
<1>2. hand[e] \in Hand
  BY DEF ShelfTypeOK
<1>3. [hand[e] EXCEPT !.pc = "settle", !.says = Says(hand[e], n)] \in Hand
  BY <1>1, <1>2 DEF Hand
<1>4. hand' = [hand EXCEPT ![e] =
                 [hand[e] EXCEPT !.pc = "settle", !.says = Says(hand[e], n)]]
  BY DEF Settling, ShelfTypeOK
<1> QED
  BY <1>3, <1>4 DEF ShelfTypeOK

\* The empty line, and a line for a variant.
LEMMA CartsTyped ==
  ASSUME NEW pc \in {"checked", "holds"}, NEW v \in Variants
  PROVE  Empty \in Carts /\ [pc |-> pc, v |-> v] \in Carts
BY DEF Empty, Carts

\* Who holds what is typed: the columns of the row apart.
HoldersTyped ==
    /\ cart \in [Shoppers -> Carts]
    /\ hand \in [Editors -> Hand]
    /\ sales \in 0..MaxSales /\ edits \in 0..MaxEdits
    /\ locked \in BOOLEAN

RowTyped ==
    /\ total \in Nat /\ opt \in Counts
    /\ moved \in [Editors -> SUBSET Variants]
    /\ books \in [Variants -> Int]
    /\ stale \subseteq Variants /\ blind \subseteq Variants
    /\ TotalSplitsOnlyBlindly

\* The types, the split, and the invariant of the counts.
RowInv == ShelfTypeOK /\ TotalSplitsOnlyBlindly /\ ShelfInv

\* The parts make the whole.
LEMMA RowInvParts == RowInv <=> RowTyped /\ HoldersTyped /\ ShelfInv
BY DEF RowInv, RowTyped, HoldersTyped, ShelfTypeOK

\* The initial total is the sum of the variants.
LEMMA InitRow == Init => RowTyped /\ HoldersTyped
<1> SUFFICES ASSUME Init PROVE RowTyped /\ HoldersTyped
  OBVIOUS
<1>1. opt \in Counts /\ total = SumOf(opt)
  BY Bounds DEF Init, Counts
<1>2. total \in Nat
  BY <1>1, SumOfCounts
<1>3. RowTyped
  BY <1>1, <1>2 DEF Init, RowTyped, TotalSplitsOnlyBlindly, Counts
<1>4. Free \in Hand /\ Empty \in Carts
  BY Bounds DEF Free, Hand, Nothing, Counts, Empty, Carts
<1>5. 0 \in 0..MaxSales /\ 0 \in 0..MaxEdits
  BY ShelfAssumption
<1>6. sales \in 0..MaxSales /\ edits \in 0..MaxEdits
  BY <1>5 DEF Init
<1>7. locked \in BOOLEAN
  BY Zenon DEF Init
<1>8. cart \in [Shoppers -> Carts] /\ hand \in [Editors -> Hand]
  BY <1>4 DEF Init
<1>9. HoldersTyped
  BY <1>6, <1>7, <1>8 DEF HoldersTyped
<1> QED
  BY <1>3, <1>9

\* A step keeps the holders typed.
LEMMA ShopperHolds ==
  ASSUME RowInv, NEW s \in Shoppers,
         \/ \E v \in Variants : CheckLock(s, v)
         \/ Reserve(s) \/ Keep(s) \/ GiveBack(s)
  PROVE  HoldersTyped'
<1> USE DEF RowInv, ShelfTypeOK
<1>1. ASSUME NEW v \in Variants, CheckLock(s, v) PROVE HoldersTyped'
  BY <1>1, CartsTyped, ShelfAssumption DEF CheckLock, HoldersTyped
<1>2. CASE Reserve(s)
  <2>1. UNCHANGED <<locked, hand, sales, edits>>
    BY <1>2 DEF Reserve, counts
  <2>2. cart[s] = [pc |-> "checked", v |-> cart[s].v] /\ cart[s].v \in Variants
    BY <1>2 DEF Reserve, Carts, ShelfInv, Working, InCart
  <2>3. [cart[s] EXCEPT !.pc = "holds"] = [pc |-> "holds", v |-> cart[s].v]
    BY <2>2
  <2>4. cart' = [cart EXCEPT ![s].pc = "holds"] \/ cart' = [cart EXCEPT ![s] = Empty]
    BY <1>2 DEF Reserve
  <2>5. cart' \in [Shoppers -> Carts]
    BY <2>2, <2>3, <2>4, CartsTyped
  <2> QED
    BY <2>1, <2>5 DEF HoldersTyped
<1>3. CASE Keep(s) \/ GiveBack(s)
  <2>1. Empty \in Carts
    BY DEF Empty, Carts
  <2> QED
    BY <1>3, <2>1 DEF Keep, GiveBack, HoldersTyped, counts
<1> QED
  BY <1>1, <1>2, <1>3

\* d units of v are moved and booked in both columns.
Shifted(v, d) == Booked(v, d) /\ total + d \in Nat /\ total' = total + d

\* A unit moved in both columns keeps them typed and together.
LEMMA UnitKeepsRow ==
  ASSUME RowInv, NEW v \in Variants, NEW d \in Int, Shifted(v, d)
  PROVE  RowTyped'
<1> USE DEF RowInv, ShelfTypeOK, Shifted, Booked
<1>1. opt \in Counts /\ total \in Nat
  OBVIOUS
<1>2. SumOf([opt EXCEPT ![v] = @ + d]) = SumOf(opt) + d
  BY <1>1, SumOfUnit
<1>3. SumOf(opt) \in Nat
  BY <1>1, SumOfCounts
<1>4. TotalSplitsOnlyBlindly'
  BY <1>1, <1>2, <1>3 DEF TotalSplitsOnlyBlindly
<1>5. opt' \in Counts
  BY DEF Counts
<1>6. books' \in [Variants -> Int] /\ moved' \in [Editors -> SUBSET Variants]
  BY DEF Outdate
<1> QED
  BY <1>4, <1>5, <1>6 DEF RowTyped

\* A step of a shopper keeps the row typed and its total beside its variants.
LEMMA ShopperKeepsRow ==
  ASSUME RowInv, NEW s \in Shoppers,
         \/ \E v \in Variants : CheckLock(s, v)
         \/ Reserve(s) \/ Keep(s) \/ GiveBack(s)
  PROVE  RowTyped'
<1> USE DEF RowInv, ShelfTypeOK
<1> DEFINE v == cart[s].v
<1>1. ASSUME UNCHANGED <<shelf, moved, books, stale, blind>> PROVE RowTyped'
  BY <1>1 DEF RowTyped, TotalSplitsOnlyBlindly, shelf
<1>3. CASE Keep(s) \/ \E u \in Variants : CheckLock(s, u)
  BY <1>1, <1>3 DEF Keep, CheckLock, ghosts
<1>4. CASE Reserve(s)
  <2>1. v \in Variants /\ UNCHANGED <<stale, blind>>
    BY <1>4 DEF Reserve, ShelfInv, Working, InCart
  <2>2. CASE TakeUnit(v) /\ books' = [books EXCEPT ![v] = @ - 1] /\ Outdate({v})
    <3>1. opt[v] \in Nat /\ opt[v] >= 1 /\ total >= 1
      BY <2>1, <2>2 DEF TakeUnit, Counts
    <3>2. opt[v] + (-1) \in Nat /\ total + (-1) \in Nat /\ total - 1 = total + (-1)
          /\ opt[v] - 1 = opt[v] + (-1) /\ books[v] - 1 = books[v] + (-1)
      BY <2>1, <3>1
    <3>3. Shifted(v, -1)
      BY <1>4, <2>1, <2>2, <3>2 DEF Shifted, Booked, TakeUnit, Reserve
    <3> QED
      BY <2>1, <3>3, UnitKeepsRow
  <2>3. CASE UNCHANGED <<shelf, books, moved>>
    BY <1>1, <2>1, <2>3
  <2> QED
    BY <1>4, <2>2, <2>3 DEF Reserve
<1>5. CASE GiveBack(s)
  <2>1. v \in Variants /\ UNCHANGED stale /\ total' = total + 1
        /\ books' = [books EXCEPT ![v] = @ + 1]
    BY <1>5 DEF GiveBack, ShelfInv, Working, InCart
  <2>2. CASE opt' = [opt EXCEPT ![v] = @ + 1] /\ Outdate({v}) /\ UNCHANGED blind
    <3>1. opt[v] + 1 \in Nat /\ total + 1 \in Nat
      BY <2>1 DEF Counts
    <3>2. Shifted(v, 1)
      BY <1>5, <2>1, <2>2, <3>1 DEF Shifted, Booked, GiveBack
    <3> QED
      BY <2>1, <3>2, UnitKeepsRow
  <2>3. CASE blind' = blind \cup {v} /\ UNCHANGED <<opt, moved>>
    BY <2>1, <2>3 DEF RowTyped, TotalSplitsOnlyBlindly
  <2> QED
    BY <1>5, <2>2, <2>3 DEF GiveBack
<1> QED
  BY <1>3, <1>4, <1>5

\* What a save writes keeps the row typed, its total the sum of its variants.
LEMMA StoreKeepsRow ==
  ASSUME RowInv, NEW e \in Editors, Store(e)
  PROVE  RowTyped'
<1> USE DEF RowInv, ShelfTypeOK
<1> DEFINE h == hand[e]
<1>1. opt' \in Counts /\ total' = SumOf(opt')
  BY WrittenCounts DEF Store, ShelfInv, Working
<1>2. total' \in Nat
  BY <1>1, SumOfCounts
<1>3. h.q \in Nat
  BY DEF ShelfInv, Working, InHand
<1>4. books' \in [Variants -> Int]
  BY <1>3 DEF Store
<1>5. stale' \subseteq Variants /\ blind' \subseteq Variants
  BY DEF Store
<1>6. moved' \in [Editors -> SUBSET Variants]
  BY DEF Store, Outdate
<1> QED
  BY <1>1, <1>2, <1>4, <1>5, <1>6 DEF RowTyped, TotalSplitsOnlyBlindly

\* A step of an editor keeps the row and the holders.
LEMMA EditorKeepsRow ==
  ASSUME RowInv, NEW e \in Editors,
         \/ e \in Owners /\ (Open(e) \/ SaveCount(e) \/ SavePrice(e) \/ Unlock(e))
         \/ Save(e)
         \/ e = Sweeper /\ SweepRead
  PROVE  RowTyped' /\ HoldersTyped'
<1> USE DEF RowInv, ShelfTypeOK
<1>1. Free \in Hand
  BY Bounds DEF Free, Hand, Nothing, Counts
<1>2. CASE Open(e)
  <2>1. PICK j \in Jobs, w \in Variants \cup {NoVariant}, q \in 0..MaxQty :
           hand' = [hand EXCEPT ![e] = Typed(j, w, q)]
    BY <1>2, Bounds DEF Open
  <2>2. Typed(j, w, q) \in Hand
    BY <2>1, ShelfAssumption, HandsTyped
  <2>3. hand' \in [Editors -> Hand]
    BY <2>1, <2>2
  <2>4. edits' \in 0..MaxEdits /\ moved' \in [Editors -> SUBSET Variants]
    BY <1>2, ShelfAssumption DEF Open
  <2> QED
    BY <1>2, <2>3, <2>4
    DEF Open, RowTyped, HoldersTyped, TotalSplitsOnlyBlindly, shelf, ghosts
<1>3. CASE e = Sweeper /\ SweepRead
  <2>1. "sweep" \in AllJobs \cup {"sweep"} /\ 0 \in 0..MaxQty
        /\ NoVariant \in Variants \cup {NoVariant}
    BY Bounds
  <2>2. Typed("sweep", NoVariant, 0) \in Hand
    BY <2>1, HandsTyped
  <2>3. hand' \in [Editors -> Hand] /\ moved' \in [Editors -> SUBSET Variants]
    BY <1>3, <2>2 DEF SweepRead
  <2> QED
    BY <1>3, <2>3
    DEF SweepRead, RowTyped, HoldersTyped, TotalSplitsOnlyBlindly, shelf, ghosts, counts
<1>4. CASE SaveCount(e)
  <2>1. RowTyped'
    BY <1>4, StoreKeepsRow DEF SaveCount
  <2> QED
    BY <1>1, <1>4, <2>1 DEF SaveCount, HoldersTyped, counts
<1>5. CASE SaveProduct(e)
  <2>1. RowTyped'
    BY <1>5, StoreKeepsRow DEF SaveProduct
  <2>2. hand' \in [Editors -> Hand]
    BY <1>5, SettlingTyped DEF SaveProduct
  <2> QED
    BY <1>5, <2>1, <2>2 DEF SaveProduct, HoldersTyped, counts
<1>6. CASE SavePrice(e)
  <2>1. hand' \in [Editors -> Hand]
    BY <1>6, SettlingTyped DEF SavePrice
  <2> QED
    BY <1>6, <2>1
    DEF SavePrice, RowTyped, HoldersTyped, TotalSplitsOnlyBlindly, shelf, ghosts, counts
<1>7. CASE Settle(e) \/ Unlock(e)
  <2>1. locked' \in BOOLEAN /\ hand' \in [Editors -> Hand]
    BY <1>1, <1>7 DEF Settle, Unlock
  <2> QED
    BY <1>7, <2>1 DEF Settle, Unlock, RowTyped, HoldersTyped, TotalSplitsOnlyBlindly,
                      shelf, ghosts, counts
<1> QED
  BY <1>2, <1>3, <1>4, <1>5, <1>6, <1>7 DEF Save

\* Every step keeps the row and the holders.
LEMMA NextKeepsRow == ASSUME RowInv, [Next]_vars PROVE RowInv'
<1>1. ShelfInv'
  BY NextKeeps DEF RowInv
<1>2. CASE UNCHANGED vars
  <2>1. RowTyped' /\ HoldersTyped'
    BY <1>2, RowInvParts DEF vars, RowTyped, HoldersTyped, TotalSplitsOnlyBlindly
  <2> QED
    BY <1>1, <2>1, RowInvParts, PTL
<1>3. CASE Next
  <2>1. RowTyped' /\ HoldersTyped'
    BY <1>3, Bounds, ShopperHolds, ShopperKeepsRow, EditorKeepsRow DEF Next, Owners
  <2> QED
    BY <1>1, <2>1, RowInvParts, PTL
<1> QED
  BY <1>2, <1>3

\* The invariant holds throughout.
LEMMA AlwaysRowInv == Spec => []RowInv
<1>1. Init => RowInv
  BY InitShelf, InitRow, RowInvParts
<1>2. RowInv /\ [Next]_vars => RowInv'
  BY NextKeepsRow
<1> QED
  BY <1>1, <1>2, PTL DEF Spec

(***************************************************************************)
(* Every variable keeps its type: no count and no total is ever negative,  *)
(* for any number of variants, shoppers and editors.                       *)
(***************************************************************************)
THEOREM ShelfAlwaysTyped == Spec => []ShelfTypeOK
<1>1. RowInv => ShelfTypeOK
  BY DEF RowInv
<1> QED
  BY AlwaysRowInv, <1>1, PTL

(***************************************************************************)
(* The total of the row parts from the sum of its variants only after a    *)
(* unit was given back without its variant.                                *)
(***************************************************************************)
THEOREM TotalAlwaysSplitsOnlyBlindly == Spec => []TotalSplitsOnlyBlindly
<1>1. RowInv => TotalSplitsOnlyBlindly
  BY DEF RowInv
<1> QED
  BY AlwaysRowInv, <1>1, PTL
==============================================================================
