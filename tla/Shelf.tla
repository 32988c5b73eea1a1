-------------------------------- MODULE Shelf --------------------------------
(***************************************************************************)
(* The stock of one product with variants, as the production backend keeps *)
(* it: one row in PostgreSQL with a total and a count for each variant,    *)
(* and the owner's out-of-stock lock beside it (catalog.py,                *)
(* inventory_guardrails.sql, and the admin routes of api.py).              *)
(*                                                                         *)
(* Shoppers take and give back units with guarded UPDATEs of the row as it *)
(* is.  Editors - the owner's screens and the scheduler's guardrail sweep - *)
(* read the row, compute, and write what they read, whole; the lock is     *)
(* settled by a further call.  Each database call is one step.             *)
(*                                                                         *)
(* Ghost variables: `books` is what each variant should hold if every      *)
(* count the owner typed and every unit taken and given back had been      *)
(* booked one after the other; `stale` holds the variants written back     *)
(* from a copy that was out of date, `blind` those whose unit was given    *)
(* back to the product only, because the catalogue could not be read.      *)
(***************************************************************************)
EXTENDS Integers, FiniteSets, Functions

CONSTANTS
    Variants, Shoppers, Editors,
    Sweeper,        \* the editor that is the guardrail sweep
    NoVariant,      \* the variant of a job about the whole product
    Jobs,           \* what the owner's editors do
    ReadsFail,      \* whether a catalogue read may fail in a give-back
    MaxQty,         \* bound: units the owner types for one variant
    MaxSales,       \* bound: units the shoppers ask for
    MaxEdits        \* bound: edits the owner's screens begin

AllJobs == {"count", "total", "map", "off", "photo", "price", "unlock"}

ASSUME ShelfAssumption ==
    /\ Sweeper \in Editors /\ NoVariant \notin Variants
    /\ IsFiniteSet(Variants) /\ Variants # {}
    /\ Jobs \subseteq AllJobs /\ ReadsFail \in BOOLEAN
    /\ MaxQty \in Nat /\ MaxSales \in Nat /\ MaxEdits \in Nat

VARIABLES total, opt, locked, cart, hand, moved, sales, edits,
          books, stale, blind

shelf  == <<total, opt>>
ghosts == <<books, stale, blind>>
counts == <<sales, edits>>
vars   == <<total, opt, locked, cart, hand, moved, sales, edits,
            books, stale, blind>>

------------------------------------------------------------------------------
Owners == Editors \ {Sweeper}

Counts == [Variants -> Nat]
Nothing == [v \in Variants |-> 0]

\* The sum of the variants' counts.
SumOf(c) == SumFunction(c)

\* What an editor holds between two of its calls: the job, the variant and
\* the number typed, the copy of the row it read, and, once it has written,
\* what its save says of the product's availability.
Hand == [pc : {"idle", "read", "settle"}, job : AllJobs \cup {"none", "sweep"},
         v : Variants \cup {NoVariant}, q : 0..MaxQty,
         copy : Counts, sum : Nat, says : {"nothing", "out", "units"}]

Free == [pc |-> "idle", job |-> "none", v |-> NoVariant, q |-> 0,
         copy |-> Nothing, sum |-> 0, says |-> "nothing"]

Carts == [pc : {"idle", "checked", "holds"}, v : Variants \cup {NoVariant}]
Empty == [pc |-> "idle", v |-> NoVariant]

Init ==
    /\ opt \in [Variants -> 0..MaxQty]
    /\ total = SumOf(opt)
    /\ locked = FALSE
    /\ cart = [s \in Shoppers |-> Empty]
    /\ hand = [e \in Editors |-> Free]
    /\ moved = [e \in Editors |-> {}]
    /\ sales = 0
    /\ edits = 0
    /\ books = opt
    /\ stale = {}
    /\ blind = {}

\* The copies the editors hold are out of date for the variants of vs.
Outdate(vs) == moved' = [e \in Editors |-> moved[e] \cup vs]

------------------------------------------------------------------------------
(* Shoppers.                                                               *)

\* A checkout line passes `is_stock_locked` and resolves its variant's key,
CheckLock(s, v) ==
    /\ cart[s] = Empty
    /\ sales < MaxSales
    /\ ~locked
    /\ sales' = sales + 1
    /\ cart' = [cart EXCEPT ![s] = [pc |-> "checked", v |-> v]]
    /\ UNCHANGED <<shelf, locked, hand, moved, edits, ghosts>>

\* Mutant: the UPDATE does not lower the variant's count.
MutTakeUnit(v) ==
    /\ total >= 1 /\ opt[v] >= 1
    /\ total' = total - 1
    /\ UNCHANGED opt

\* Mutant: the UPDATE is guarded by the total alone.
MutTakeUnguarded(v) ==
    /\ total >= 1
    /\ total' = total - 1
    /\ opt' = [opt EXCEPT ![v] = @ - 1]

\* The guarded UPDATE of `reserve_product_stock`: both the total and the
\* variant must still hold the unit.
TakeUnit(v) ==
    /\ total >= 1 /\ opt[v] >= 1
    /\ total' = total - 1
    /\ opt' = [opt EXCEPT ![v] = @ - 1]

\* then reserves, or is refused.
Reserve(s) ==
    LET v == cart[s].v IN
    /\ cart[s].pc = "checked"
    /\ \/ /\ TakeUnit(v)
          /\ books' = [books EXCEPT ![v] = @ - 1]
          /\ Outdate({v})
          /\ cart' = [cart EXCEPT ![s].pc = "holds"]
       \/ /\ total < 1 \/ opt[v] < 1
          /\ cart' = [cart EXCEPT ![s] = Empty]
          /\ UNCHANGED <<shelf, books, moved>>
    /\ UNCHANGED <<locked, hand, counts, stale, blind>>

\* The order stands: its unit is never given back.
Keep(s) ==
    /\ cart[s].pc = "holds"
    /\ cart' = [cart EXCEPT ![s] = Empty]
    /\ UNCHANGED <<shelf, locked, hand, moved, counts, ghosts>>

\* The checkout fails or the order is turned down: the unit goes back to the
\* total and to the variant; when the catalogue cannot be read,
\* `_match_option_key` answers None and it goes back to the total alone.
GiveBack(s) ==
    LET v == cart[s].v IN
    /\ cart[s].pc = "holds"
    /\ cart' = [cart EXCEPT ![s] = Empty]
    /\ total' = total + 1
    /\ books' = [books EXCEPT ![v] = @ + 1]
    /\ \/ /\ opt' = [opt EXCEPT ![v] = @ + 1]
          /\ Outdate({v})
          /\ UNCHANGED blind
       \/ /\ ReadsFail
          /\ blind' = blind \cup {v}
          /\ UNCHANGED <<opt, moved>>
    /\ UNCHANGED <<locked, hand, counts, stale>>

------------------------------------------------------------------------------
(* The owner's screens.                                                    *)

Typed(job, v, q) ==
    [Free EXCEPT !.pc = "read", !.job = job, !.v = v, !.q = q,
                 !.copy = opt, !.sum = total]

\* A screen or a route reads the row.  "count" and "total" are the stock
\* manager's number for a variant or for the product ("total" with 0 is also
\* the supplier-alert toggle), "map" a variant's number typed in the product
\* editor, "off" its stock of 0, "photo" a replaced photo, "price" a field
\* that is none of the stock, "unlock" the release of the lock.
Open(e) ==
    /\ hand[e].pc = "idle"
    /\ edits < MaxEdits
    /\ edits' = edits + 1
    /\ \E job \in Jobs :
          \/ /\ job \in {"count", "map"}
             /\ \E v \in Variants, q \in 0..MaxQty :
                   hand' = [hand EXCEPT ![e] = Typed(job, v, q)]
          \/ /\ job = "total"
             /\ \E q \in {0, MaxQty} :
                   hand' = [hand EXCEPT ![e] = Typed(job, NoVariant, q)]
          \/ /\ job \in {"off", "photo", "price", "unlock"}
             /\ hand' = [hand EXCEPT ![e] = Typed(job, NoVariant, 0)]
    /\ moved' = [moved EXCEPT ![e] = {}]
    /\ UNCHANGED <<shelf, locked, cart, sales, ghosts>>

\* The variants whose number the owner typed.
Counted(h) ==
    CASE h.job \in {"count", "map"}                     -> {h.v}
      [] h.job = "off" \/ (h.job = "total" /\ h.q = 0) -> Variants
      [] OTHER                                         -> {}

\* Mutant: the setter rebuilds the map from the typed variant alone.
MutWritten(h) ==
    [v \in Variants |-> IF v \in Counted(h) THEN h.q ELSE 0]

\* The map of counts a save writes: the copy, with the typed numbers; a
\* product switched off has every variant zeroed by `normalize`.
Written(h) ==
    [v \in Variants |-> IF v \in Counted(h) THEN h.q ELSE h.copy[v]]

\* The whole map is written, with its sum as the total.
Store(e) ==
    LET h == hand[e] IN
    /\ opt' = Written(h)
    /\ total' = SumOf(Written(h))
    /\ books' = [v \in Variants |-> IF v \in Counted(h) THEN h.q ELSE books[v]]
    /\ stale' = (stale \cup moved[e]) \ Counted(h)
    /\ blind' = blind \ Counted(h)
    /\ Outdate({v \in Variants : opt'[v] # opt[v] \/ v \in Counted(h)})

\* What the save says of the availability: an explicit "out", units in the
\* row it wrote, or nothing.  The editor sends "out" with a price when its
\* form showed no stock.
Says(h, units) ==
    CASE h.job = "off"                   -> "out"
      [] h.job = "map"                   -> IF units > 0 THEN "units" ELSE "out"
      [] h.job = "price" /\ h.sum = 0    -> "out"
      [] OTHER                           -> IF units > 0 THEN "units" ELSE "nothing"

Settling(e, units) ==
    hand' = [hand EXCEPT ![e].pc = "settle", ![e].says = Says(hand[e], units)]

\* The stock manager's setter does not touch the lock.
SaveCount(e) ==
    /\ hand[e].pc = "read"
    /\ hand[e].job \in {"count", "total"}
    /\ Store(e)
    /\ hand' = [hand EXCEPT ![e] = Free]
    /\ UNCHANGED <<locked, cart, counts>>

\* The product editor and the photo route write the row,
SaveProduct(e) ==
    /\ hand[e].pc = "read"
    /\ hand[e].job \in {"map", "off", "photo", "sweep"}
    /\ Store(e)
    /\ Settling(e, SumOf(Written(hand[e])))
    /\ UNCHANGED <<locked, cart, counts>>

\* a price patches its own columns only,
SavePrice(e) ==
    /\ hand[e].pc = "read"
    /\ hand[e].job = "price"
    /\ Settling(e, total)
    /\ UNCHANGED <<shelf, locked, cart, moved, counts, ghosts>>

\* and `_settle_manual_stock_lock` then locks, unlocks or leaves the product.
Settle(e) ==
    /\ hand[e].pc = "settle"
    /\ locked' = CASE hand[e].says = "out"   -> TRUE
                   [] hand[e].says = "units" -> FALSE
                   [] OTHER                  -> locked
    /\ hand' = [hand EXCEPT ![e] = Free]
    /\ UNCHANGED <<shelf, cart, moved, counts, ghosts>>

\* The lock released from the list of locks.
Unlock(e) ==
    /\ hand[e].pc = "read"
    /\ hand[e].job = "unlock"
    /\ locked' = FALSE
    /\ hand' = [hand EXCEPT ![e] = Free]
    /\ UNCHANGED <<shelf, cart, moved, counts, ghosts>>

------------------------------------------------------------------------------
(* The scheduler.                                                          *)

\* Mutant: the sweep repairs a total that is too low, not one too high.
MutNeedsRepair == total < SumOf(opt) /\ ~locked

\* `stock_guardrail_fix`: a total that is not the sum of its variants, on a
\* product that is not locked.
NeedsRepair == total # SumOf(opt) /\ ~locked

\* `stock_guardrail_sweep` reads the catalogue and finds the row,
SweepRead ==
    /\ hand[Sweeper].pc = "idle"
    /\ NeedsRepair
    /\ hand' = [hand EXCEPT ![Sweeper] = Typed("sweep", NoVariant, 0)]
    /\ moved' = [moved EXCEPT ![Sweeper] = {}]
    /\ UNCHANGED <<shelf, locked, cart, counts, ghosts>>

\* and saves the row it read through `upsert`: SaveProduct and Settle.
Save(e) == SaveProduct(e) \/ Settle(e)

------------------------------------------------------------------------------
Next ==
    \/ \E s \in Shoppers, v \in Variants : CheckLock(s, v)
    \/ \E s \in Shoppers : Reserve(s) \/ Keep(s) \/ GiveBack(s)
    \/ \E e \in Owners : Open(e) \/ SaveCount(e) \/ SavePrice(e) \/ Unlock(e)
    \/ SweepRead
    \/ \E e \in Editors : Save(e)

\* The scheduler comes round every tick and finishes the sweep it began.
Fairness == WF_vars(SweepRead) /\ WF_vars(Save(Sweeper))

Spec == Init /\ [][Next]_vars /\ Fairness
==============================================================================
