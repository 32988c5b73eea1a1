---------------------------- MODULE OrderProperties ----------------------------
(***************************************************************************)
(* What must hold of the orders and the shelf together.                    *)
(***************************************************************************)
EXTENDS Orders, Functions

\* A running request has an order, and a status to write if it will write one.
WellFormed(r) ==
    /\ r.pc # "idle" => r.order \in Orders
    /\ r.pc \in {"take", "save"} => r.goal \in Statuses
    /\ r.pc = "give" => r.goal # "none"

\* Every variable has its type; `stock` never runs below zero.
TypeOK ==
    /\ stock \in [Lines -> Nat]
    /\ sellable \in [Lines -> BOOLEAN]
    /\ table \in [Orders -> Row \cup {NoRow}]
    /\ cache \in [Orders -> Row \cup {NoRow}]
    /\ req \in [Workers -> Request]
    /\ \A w \in Workers : WellFormed(req[w])
    /\ posts \in [Orders -> Nat]
    /\ acts \in Nat
    /\ restarts \in Nat
    /\ taken \in [Orders -> [Lines -> Int]]
    /\ causes \in [Orders -> SUBSET Causes]
    /\ accepted \subseteq Orders
    /\ warned \subseteq Orders

\* What the row that speaks for an order says is off the shelf.
Owed(o) == IF Owes(Book(o)) THEN 1 ELSE 0

\* What a running request has moved and no row says yet: checkouts and
\* confirmations take, declines, reopenings and deletions give back.
Unrecorded(w, l) ==
    IF l \notin req[w].moved THEN 0
    ELSE IF req[w].goal = "none" \/ Takes(req[w].row, req[w].goal) THEN 1
    ELSE -1

(***************************************************************************)
(* The shelf and the books agree, order by order and line by line: an      *)
(* order's units are off the shelf exactly when its row says so, give or   *)
(* take what a request has moved and is about to record.  `Causes` lists   *)
(* every way the code loses that agreement; an order none of them happened *)
(* to has it in every state, whatever interleaving, failure or restart hit *)
(* the others.                                                             *)
(***************************************************************************)
LedgerBalanced ==
    \A o \in Orders : causes[o] = {} =>
        \A l \in LinesOf(o) :
            /\ (\A w \in Workers : ~WorksOn(w, o)) => taken[o][l] = Owed(o)
            /\ \A w \in Workers :
                  WorksOn(w, o) => taken[o][l] = Owed(o) + Unrecorded(w, l)

(***************************************************************************)
(* No unit is created or lost: while nothing has gone wrong with any order *)
(* the shelf, the units the rows record and the units in the hands of      *)
(* running requests add up to what was on the shelf at the start.          *)
(***************************************************************************)
OutOnOrder(o, l) ==
    Cart[o][l] * (Owed(o) + SumFunctionOnSet([w \in Workers |-> Unrecorded(w, l)],
                                             {w \in Workers : WorksOn(w, o)}))

UnitsConserved ==
    (\A o \in Orders : causes[o] = {}) =>
        \A l \in Lines :
            stock[l] + SumFunction([o \in Orders |-> OutOnOrder(o, l)])
                = InitialStock[l]

(***************************************************************************)
(* The units promised to orders never exceed what the shop had.  Retried   *)
(* checkouts of one id, crashes and lost reservation replies may waste     *)
(* units; they never sell one twice.                                       *)
(***************************************************************************)
NeverOversold ==
    \A l \in Lines :
        SumFunction([o \in Orders |-> Cart[o][l] * Owed(o)]) <= InitialStock[l]

(***************************************************************************)
(* An order whose shopper was told "ok" has its row in PostgreSQL, until   *)
(* the admin deletes it: a sale is never accepted on the cache alone.      *)
(***************************************************************************)
AcceptedIsRecorded ==
    \A o \in accepted : causes[o] = {} => table[o] # NoRow

(***************************************************************************)
(* SQLite and PostgreSQL disagree about a settled order only if the admin  *)
(* was told so (503, "Refresh and retry") and has not succeeded since.     *)
(***************************************************************************)
DivergenceIsReported ==
    \A o \in Orders :
        (/\ causes[o] = {}
         /\ \A w \in Workers : ~WorksOn(w, o)
         /\ cache[o] # NoRow
         /\ table[o] # NoRow
         /\ cache[o] # table[o]) => o \in warned

(***************************************************************************)
(* A checkout never puts an order that was decided back to pending: only   *)
(* an admin's request takes a confirmed or declined record to pending.     *)
(***************************************************************************)
DecisionStands ==
    [][\A o \in Orders :
          (table[o].status \in {"confirmed", "declined"}
              /\ table'[o].status = "pending")
          => \E w \in Workers : WorksOn(w, o) /\ req[w].goal = "pending"]_vars

\* Every request that a thread begins is answered.
EveryRequestEnds ==
    \A w \in Workers : Busy(w) ~> ~Busy(w)

(***************************************************************************)
(* The step-by-step handlers implement the one-step ledger of SaleLedger.  *)
(* An order is sold when the row that speaks for it says so, until a       *)
(* request that gives its units back begins: from then on another shopper  *)
(* may buy the lines already given back.  Units that a checkout has        *)
(* reserved but not recorded, and units such a request has still to give   *)
(* back, count as on the shelf.                                            *)
(***************************************************************************)
GivesBack(w) ==
    /\ Busy(w)
    /\ \/ req[w].goal = "delete" /\ Owes(req[w].row)
       \/ req[w].goal \in Statuses /\ Gives(req[w].row, req[w].goal)

InHand(w, l) ==
    IF l \in (IF GivesBack(w) THEN req[w].todo ELSE req[w].moved) THEN 1 ELSE 0

ShelfOf(l) ==
    stock[l] + SumFunction([w \in Workers |->
                   IF Busy(w) THEN Cart[req[w].order][l] * InHand(w, l) ELSE 0])

Ledger == INSTANCE SaleLedger WITH
    shelf <- [l \in Lines |-> ShelfOf(l)],
    sold  <- {o \in Orders : /\ Owes(Book(o))
                             /\ \A w \in Workers : WorksOn(w, o) => ~GivesBack(w)}

ImplementsLedger == Ledger!Spec

------------------------------------------------------------------------------
(***************************************************************************)
(* The inductive invariant of OrdersProofs.  An order that nothing went    *)
(* wrong with has at most one request in progress, and what that request   *)
(* read at its beginning is still true when it writes.                     *)
(***************************************************************************)
Clean(o) == causes[o] = {}

\* What the lines in hand amount to while a decision or deletion goes on.
WholeCart(r) == r.todo \cup r.moved = LinesOf(r.order) /\ r.todo \cap r.moved = {}

MovesUnits(r) == IF r.goal = "delete" THEN Owes(r.row)
                 ELSE Takes(r.row, r.goal) \/ Gives(r.row, r.goal)

\* Where a running request stands, and what the stores hold of its order.
Stage(r) ==
    LET o == r.order  pc == r.pc IN
    /\ pc \in {"validate", "lookup"} => r.goal = "none" /\ r.moved = {}
    /\ pc = "rollback" => r.goal = "none"
    /\ pc = "reserve" => r.goal = "none" /\ cache[o] = NoRow /\ WholeCart(r)
    /\ pc \in {"proof", "record"} =>
          r.goal = "none" /\ cache[o] = NoRow /\ r.moved = LinesOf(o)
    /\ pc \in {"receipt", "undo"} => o \notin accepted
    /\ pc \in {"receipt", "undo", "insert"} =>
          /\ r.goal = "none" /\ r.moved = {}
          /\ cache[o] = NoRow /\ table[o] = NewRow(o)
    /\ pc = "referral" =>
          /\ r.goal = "none" /\ r.moved = {} /\ o \notin WalkIns
          /\ cache[o] \in {NoRow, PlacedRow} /\ table[o] = PlacedRow
    /\ pc \in {"take", "give", "save", "mirror", "drop", "forget"} =>
          r.row # NoRow /\ cache[o] = r.row
    /\ pc \in {"take", "give"} => WholeCart(r) /\ MovesUnits(r)
    /\ pc = "take" => Takes(r.row, r.goal)
    /\ pc = "give" => ~Takes(r.row, r.goal)
    /\ pc \in {"save", "drop", "forget"} =>
          r.moved = (IF MovesUnits(r) THEN LinesOf(o) ELSE {}) /\ r.todo = {}
    /\ pc = "mirror" => r.moved = {} /\ r.row.status = r.goal
    /\ pc \in {"drop", "forget"} => r.goal = "delete"
    /\ pc = "forget" => table[o] = NoRow
    /\ pc = "editRecord" => r.row = table[o]
    /\ pc \in {"editRecord", "editCache"} => r.goal = "none" /\ r.moved = {}

\* A request is for an order that was posted, and so is a row.
Posted ==
    /\ \A w \in Workers : Busy(w) => posts[req[w].order] # 0
    /\ \A o \in Orders : posts[o] = 0 => cache[o] = NoRow /\ table[o] = NoRow

Alone(o)  == \A v, w \in Workers : WorksOn(v, o) /\ WorksOn(w, o) => v = w
Staged(o) == \A w \in Workers : WorksOn(w, o) => Stage(req[w])

Balanced(o) ==
    \A l \in LinesOf(o) :
        /\ (\A w \in Workers : ~WorksOn(w, o)) => taken[o][l] = Owed(o)
        /\ \A w \in Workers :
              WorksOn(w, o) => taken[o][l] = Owed(o) + Unrecorded(w, l)

Recorded(o) == o \in accepted => table[o] # NoRow

Agreed(o) ==
    \/ cache[o] = NoRow \/ table[o] = NoRow \/ cache[o] = table[o]
    \/ o \in warned
    \/ \E w \in Workers : WorksOn(w, o) /\ req[w].pc = "mirror"

OrderInv(o) == Alone(o) /\ Staged(o) /\ Balanced(o) /\ Recorded(o) /\ Agreed(o)

Inductive == TypeOK /\ Posted /\ \A o \in Orders : Clean(o) => OrderInv(o)

------------------------------------------------------------------------------
(***************************************************************************)
(* Why retried checkouts never sell a unit twice.  A request claims a line *)
(* of its order from the reservation until the row it wrote has reached    *)
(* SQLite, or until it has given the line back.  Of every order the line   *)
(* has been taken once for each claim, and once more for its row: the one  *)
(* in SQLite or, when no request that wrote it is still running, the one   *)
(* in PostgreSQL.  This needs a shop without decisions and deletions, whose*)
(* record of an order never lands unnoticed and can always be undone; it   *)
(* holds whatever else fails, and whatever is retried or restarted.        *)
(***************************************************************************)
Recording(w, o) == WorksOn(w, o) /\ req[w].pc \in {"receipt", "undo", "insert"}

Claim(w, o, l) ==
    IF Recording(w, o) \/ (WorksOn(w, o) /\ l \in req[w].moved) THEN 1 ELSE 0

Claims(o, l) == SumFunction([w \in Workers |-> Claim(w, o, l)])

Cached(o) == IF cache[o] # NoRow THEN 1 ELSE 0

\* Only the record of a request that is gone speaks for the order.
RecordAlone(o) ==
    cache[o] = NoRow /\ table[o] # NoRow /\ \A w \in Workers : ~Recording(w, o)

ClaimsCovered ==
    \A o \in Orders : \A l \in LinesOf(o) :
        /\ taken[o][l] >= Claims(o, l) + Cached(o)
        /\ RecordAlone(o) => taken[o][l] >= Claims(o, l) + 1

\* What a checkout holds at each of its stages.
CheckoutStage(r) ==
    /\ r.pc \notin {"take", "give", "save", "mirror", "drop", "forget"}
    /\ r.pc \in {"validate", "lookup", "receipt", "undo", "insert",
                 "editRecord", "editCache"} => r.moved = {}
    /\ r.pc = "reserve" => r.todo \cup r.moved = LinesOf(r.order)
    /\ r.pc \in {"proof", "record"} => r.moved = LinesOf(r.order)

Covered == ClaimsCovered /\ \A w \in Workers : CheckoutStage(req[w])

------------------------------------------------------------------------------
(* What the documentation and the answers of the code say.                 *)

\* "Re-posting the same order id returns the stored order": a checkout whose
\* order is stored is not told that its goods are sold out.
RepostReturnsStoredOrder ==
    [][\A w \in Workers :
          RefuseSoldOut(w) => cache[req[w].order] = NoRow]_vars

\* "a queued offline retry is always safe": however often one id is posted,
\* its units leave the shelf once.
\* "a second confirm never double-decrements": nor do two confirmations.
TakenOnce ==
    \A o \in Orders, l \in Lines : taken[o][l] <= 1

\* "declining, reopening or deleting it releases exactly those units back":
\* never more than were taken.
ReleasedAsTaken ==
    \A o \in Orders, l \in Lines : taken[o][l] >= 0

\* "The order could not be deleted from Supabase. No changes were made.":
\* a refused deletion leaves the units of the order where its row says.
RefusedDeleteChangesNothing ==
    [][\A w \in Workers :
          (DropRefused(w) /\ table'[req[w].order] = table[req[w].order])
          => \A l \in LinesOf(req[w].order) :
                taken'[req[w].order][l] =
                    IF Owes(req[w].row) THEN 1 ELSE 0]_vars
==============================================================================
