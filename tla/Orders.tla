-------------------------------- MODULE Orders --------------------------------
(***************************************************************************)
(* The life of an order in production: checkout, the counter sale, the     *)
(* admin's decision, the delete button, the accounting edit, and a restart *)
(* of the server in between.                                               *)
(*                                                                         *)
(* Eight gunicorn threads (Workers) each run one request handler at a time *)
(* and no lock spans a handler, so every call to a store is one step here. *)
(* The stores:                                                             *)
(*   stock   PostgreSQL `products.stock_quantity`; one counter per line    *)
(*           that can be bought (a product, or one variant of it)          *)
(*   table   PostgreSQL `orders`, the record of the sale                   *)
(*   cache   SQLite `orders`, read by the duplicate check and by the admin *)
(* A handler that touches the shelf and then the record can stop, fail or  *)
(* be overtaken between the two.  The ghost variables say what that did:   *)
(*   taken    net times each order's line was taken from the shelf         *)
(*   causes   what has gone wrong with the units of an order               *)
(*   accepted orders whose shopper was told "ok"                           *)
(*   warned   orders whose admin was told the record may be behind         *)
(***************************************************************************)
EXTENDS OrderBook, Integers, FiniteSets

CONSTANTS
    Lines,          \* what can be bought
    Orders,         \* order ids
    NoOrder,        \* the order of an idle worker
    WalkIns,        \* ids the counter sale draws: fresh, never posted again
    Workers,        \* request threads
    Cart,           \* Cart[o][l]: units of line l in order o
    InitialStock,   \* units on the shelf at the start
    Hideable,       \* lines the owner takes offline and puts back
    AdminMoves,     \* <<status, requested status>> pairs the admin sends
    CanDelete,      \* whether the admin deletes orders
    CanEdit,        \* whether the accounting desk edits orders
    Refusable,      \* calls that may fail without taking effect
    Losable,        \* calls that may take effect and still report failure
    Exclusive,      \* environment: at most one request per order at a time
    MaxPosts,       \* bound: checkouts posted per order id
    MaxAdmin,       \* bound: admin requests in all
    MaxRestarts,    \* bound: restarts
    RestoreLimit    \* rows the boot restore reads (`load_orders` page size)

Calls == {"reserve", "release", "upload", "order", "receipt", "undo",
          "cache", "save", "mirror", "drop", "edit", "boot"}

Causes == {"lostReply", "ignoredRelease", "ignoredTake", "ignoredUndo",
           "replaced", "unsaved", "refusedDelete", "reverted", "overlap",
           "died"}

ASSUME OrdersAssumption ==
    /\ NoOrder \notin Orders
    /\ WalkIns \subseteq Orders
    /\ IsFiniteSet(Orders) /\ IsFiniteSet(Workers)
    /\ Cart \in [Orders -> [Lines -> Nat]]
    /\ \A o \in Orders : \E l \in Lines : Cart[o][l] > 0
    /\ InitialStock \in [Lines -> Nat]
    /\ AdminMoves \subseteq Statuses \X Statuses
    /\ Refusable \subseteq Calls /\ Losable \subseteq Calls
    /\ CanDelete \in BOOLEAN /\ CanEdit \in BOOLEAN /\ Exclusive \in BOOLEAN
    /\ MaxPosts \in Nat /\ MaxAdmin \in Nat /\ MaxRestarts \in Nat
    /\ RestoreLimit \in Nat

VARIABLES stock, sellable, table, cache, req, posts, acts, restarts,
          taken, causes, accepted, warned

stores == <<table, cache>>
shelf  == <<stock, sellable, taken>>
counts == <<posts, acts, restarts>>
told   == <<accepted, warned>>
vars   == <<stock, sellable, table, cache, req, posts, acts, restarts,
            taken, causes, accepted, warned>>

------------------------------------------------------------------------------
LinesOf(o) == {l \in Lines : Cart[o][l] > 0}

(***************************************************************************)
(* A request in progress: the handler's program counter, its order, the    *)
(* row it read, the status it was asked for, the lines it still has to     *)
(* move, the lines it has moved but not recorded, and whether the checkout *)
(* carries a payment receipt.                                              *)
(***************************************************************************)
PCs == {"idle", "validate", "lookup", "reserve", "rollback", "proof",
        "record", "receipt", "undo", "insert", "referral",
        "take", "give", "save", "mirror", "drop", "forget",
        "editRecord", "editCache"}

Goals == Statuses \cup {"none", "delete"}

Request == [pc : PCs, order : Orders \cup {NoOrder}, row : Row \cup {NoRow},
            goal : Goals, todo : SUBSET Lines, moved : SUBSET Lines,
            proof : BOOLEAN]

Idle == [pc |-> "idle", order |-> NoOrder, row |-> NoRow, goal |-> "none",
         todo |-> {}, moved |-> {}, proof |-> FALSE]

Busy(w)       == req[w].pc # "idle"
WorksOn(w, o) == Busy(w) /\ req[w].order = o

Become(w, r) == req' = [req EXCEPT ![w] = r]
Goto(w, pc)  == Become(w, [req[w] EXCEPT !.pc = pc])
Answer(w)    == Become(w, Idle)

Blame(o, c) == causes' = [causes EXCEPT ![o] = @ \cup c]

NewRow(o) == IF o \in WalkIns THEN WalkInRow ELSE PlacedRow

Init ==
    /\ stock = InitialStock
    /\ sellable = [l \in Lines |-> TRUE]
    /\ table = [o \in Orders |-> NoRow]
    /\ cache = [o \in Orders |-> NoRow]
    /\ req = [w \in Workers |-> Idle]
    /\ posts = [o \in Orders |-> 0]
    /\ acts = 0
    /\ restarts = 0
    /\ taken = [o \in Orders |-> [l \in Lines |-> 0]]
    /\ causes = [o \in Orders |-> {}]
    /\ accepted = {}
    /\ warned = {}

\* A thread picks up a request for order o and begins it as r.
Begin(w, o, r) ==
    /\ ~Busy(w)
    /\ Exclusive => \A v \in Workers : ~WorksOn(v, o)
    /\ Become(w, r)
    /\ Blame(o, IF \E v \in Workers : WorksOn(v, o) THEN {"overlap"} ELSE {})

------------------------------------------------------------------------------
(* The shelf: guarded single-statement updates in PostgreSQL.              *)

\* Mutant: the reservation without its quantity guard.
MutAvailable(o, l) == sellable[l] /\ Cart[o][l] > 0

Available(o, l) == sellable[l] /\ stock[l] >= Cart[o][l]

TakeUnits(o, l) ==
    /\ stock' = [stock EXCEPT ![l] = @ - Cart[o][l]]
    /\ taken' = [taken EXCEPT ![o][l] = @ + 1]
    /\ UNCHANGED sellable

GiveUnits(o, l) ==
    /\ stock' = [stock EXCEPT ![l] = @ + Cart[o][l]]
    /\ taken' = [taken EXCEPT ![o][l] = @ - 1]
    /\ UNCHANGED sellable

------------------------------------------------------------------------------
(* Checkout: POST /api/orders, and the counter sale.                       *)

\* A well-formed checkout arrives, perhaps again under the same id.
PostCheckout(w, o) ==
    /\ o \notin WalkIns
    /\ posts[o] < MaxPosts
    /\ posts' = [posts EXCEPT ![o] = @ + 1]
    /\ Begin(w, o, [Idle EXCEPT !.pc = "validate", !.order = o])
    /\ UNCHANGED <<shelf, stores, acts, restarts, told>>

\* The counter sale draws a new id and goes straight to the reservation.
PostWalkIn(w, o) ==
    /\ o \in WalkIns
    /\ posts[o] = 0
    /\ \A l \in LinesOf(o) : sellable[l]
    /\ posts' = [posts EXCEPT ![o] = 1]
    /\ Begin(w, o, [Idle EXCEPT !.pc = "reserve", !.order = o,
                                !.todo = LinesOf(o)])
    /\ UNCHANGED <<shelf, stores, acts, restarts, told>>

\* Every line must be on sale with enough units; this comes before the
\* duplicate check.
Validate(w) ==
    /\ req[w].pc = "validate"
    /\ \A l \in LinesOf(req[w].order) : Available(req[w].order, l)
    /\ Goto(w, "lookup")
    /\ UNCHANGED <<shelf, stores, counts, causes, told>>

RefuseSoldOut(w) ==
    /\ req[w].pc = "validate"
    /\ \E l \in LinesOf(req[w].order) : ~Available(req[w].order, l)
    /\ Answer(w)
    /\ UNCHANGED <<shelf, stores, counts, causes, told>>

\* The duplicate check reads SQLite.
AnswerDuplicate(w) ==
    /\ req[w].pc = "lookup"
    /\ cache[req[w].order] # NoRow
    /\ Answer(w)
    /\ UNCHANGED <<shelf, stores, counts, causes, told>>

\* Mutant: no duplicate check.
MutPassDuplicate(w) ==
    /\ req[w].pc = "lookup"
    /\ Become(w, [req[w] EXCEPT !.pc = "reserve",
                                !.todo = LinesOf(req[w].order)])
    /\ UNCHANGED <<shelf, stores, counts, causes, told>>

PassDuplicate(w) ==
    /\ req[w].pc = "lookup"
    /\ cache[req[w].order] = NoRow
    /\ Become(w, [req[w] EXCEPT !.pc = "reserve",
                                !.todo = LinesOf(req[w].order)])
    /\ UNCHANGED <<shelf, stores, counts, causes, told>>

\* Mutant: a failed checkout answers without giving back.
MutUnwind(w, held) == Become(w, Idle)

\* Mutant: the rollback loop has no end.
MutUnwindForever(w, held) ==
    Become(w, [req[w] EXCEPT !.pc = "rollback", !.todo = {}, !.moved = held])

\* Where a checkout goes that must give back what it has reserved.
Unwind(w, held) ==
    Become(w, IF held = {} THEN Idle
              ELSE [req[w] EXCEPT !.pc = "rollback", !.todo = {}, !.moved = held])

\* One line reserved; after the last the receipt is uploaded (a counter sale
\* has none).
ReserveLine(w, l) ==
    LET o == req[w].order  rest == req[w].todo \ {l} IN
    /\ req[w].pc = "reserve"
    /\ l \in req[w].todo
    /\ Available(o, l)
    /\ TakeUnits(o, l)
    /\ Become(w, [req[w] EXCEPT
                    !.pc = IF rest # {} THEN "reserve"
                           ELSE IF o \in WalkIns THEN "record" ELSE "proof",
                    !.todo = rest,
                    !.moved = @ \cup {l}])
    /\ UNCHANGED <<stores, counts, causes, told>>

\* The guard rejects the line, or the call fails: earlier lines go back.
ReserveRefused(w, l) ==
    /\ req[w].pc = "reserve"
    /\ l \in req[w].todo
    /\ ~Available(req[w].order, l) \/ "reserve" \in Refusable
    /\ Unwind(w, req[w].moved)
    /\ UNCHANGED <<shelf, stores, counts, causes, told>>

\* The update commits but the reply is lost, so this line is not given back.
ReserveReplyLost(w, l) ==
    /\ req[w].pc = "reserve"
    /\ l \in req[w].todo
    /\ "reserve" \in Losable
    /\ Available(req[w].order, l)
    /\ TakeUnits(req[w].order, l)
    /\ Unwind(w, req[w].moved)
    /\ Blame(req[w].order, {"lostReply"})
    /\ UNCHANGED <<stores, counts, told>>

\* Giving back one reserved line; the result of the call is not looked at.
RollBackLine(w, l) ==
    /\ req[w].pc = "rollback"
    /\ l \in req[w].moved
    /\ \/ GiveUnits(req[w].order, l) /\ UNCHANGED causes
       \/ /\ "release" \in Refusable
          /\ Blame(req[w].order, {"ignoredRelease"})
          /\ UNCHANGED shelf
    /\ Unwind(w, req[w].moved \ {l})
    /\ UNCHANGED <<stores, counts, told>>

\* The payment receipt is uploaded, or the shopper sent none.
UploadProof(w) ==
    /\ req[w].pc = "proof"
    /\ \E sent \in BOOLEAN :
          Become(w, [req[w] EXCEPT !.pc = "record", !.proof = sent])
    /\ UNCHANGED <<shelf, stores, counts, causes, told>>

UploadRefused(w) ==
    /\ req[w].pc = "proof"
    /\ "upload" \in Refusable
    /\ Unwind(w, req[w].moved)
    /\ UNCHANGED <<shelf, stores, counts, causes, told>>

\* The upsert into the orders table; it replaces a row of the same id.
UpsertOrder(o) ==
    /\ table' = [table EXCEPT ![o] = NewRow(o)]
    /\ UNCHANGED cache

RecordOrder(w) ==
    LET o == req[w].order IN
    /\ req[w].pc = "record"
    /\ UpsertOrder(o)
    /\ Become(w, [req[w] EXCEPT !.pc = IF req[w].proof THEN "receipt" ELSE "insert",
                                !.moved = {}])
    /\ Blame(o, IF table[o] # NoRow THEN {"replaced"} ELSE {})
    /\ UNCHANGED <<shelf, counts, told>>

\* Mutant: a refused order write falls back to SQLite alone.
MutRecordRefused(w) ==
    /\ req[w].pc = "record"
    /\ "order" \in Refusable
    /\ Become(w, [req[w] EXCEPT !.pc = "insert", !.moved = {}])
    /\ UNCHANGED <<shelf, stores, counts, causes, told>>

RecordRefused(w) ==
    /\ req[w].pc = "record"
    /\ "order" \in Refusable
    /\ Unwind(w, req[w].moved)
    /\ UNCHANGED <<shelf, stores, counts, causes, told>>

\* The row is there, and its units are given back all the same.
RecordReplyLost(w) ==
    /\ req[w].pc = "record"
    /\ "order" \in Losable
    /\ UpsertOrder(req[w].order)
    /\ Unwind(w, req[w].moved)
    /\ Blame(req[w].order, {"lostReply"})
    /\ UNCHANGED <<shelf, counts, told>>

\* Mutant: without its receipt the order's units go back, its row stays.
MutRecordReceipt(w) ==
    /\ req[w].pc = "receipt"
    /\ \/ Goto(w, "insert")
       \/ "receipt" \in Refusable /\ Unwind(w, LinesOf(req[w].order))
    /\ UNCHANGED <<shelf, stores, counts, causes, told>>

RecordReceipt(w) ==
    /\ req[w].pc = "receipt"
    /\ \/ Goto(w, "insert")
       \/ "receipt" \in Refusable /\ Goto(w, "undo")
    /\ UNCHANGED <<shelf, stores, counts, causes, told>>

\* Mutant: the order is deleted again, its units are forgotten.
MutUndoOrder(w) ==
    /\ req[w].pc = "undo"
    /\ table' = [table EXCEPT ![req[w].order] = NoRow]
    /\ Answer(w)
    /\ UNCHANGED <<shelf, cache, counts, causes, told>>

\* Without its receipt the order is deleted again, best effort, and its units
\* are given back whether or not the row went.
UndoOrder(w) ==
    LET o == req[w].order IN
    /\ req[w].pc = "undo"
    /\ \/ table' = [table EXCEPT ![o] = NoRow] /\ UNCHANGED causes
       \/ /\ "undo" \in Refusable
          /\ Blame(o, {"ignoredUndo"})
          /\ UNCHANGED table
    /\ Unwind(w, LinesOf(o))
    /\ UNCHANGED <<shelf, cache, counts, told>>

\* SQLite: a checkout inserts (a row already there, or a failure, is skipped),
\* a counter sale upserts and is done.
InsertCache(w) ==
    LET o == req[w].order IN
    /\ req[w].pc = "insert"
    /\ \/ cache' = [cache EXCEPT ![o] = IF @ = NoRow \/ o \in WalkIns
                                        THEN NewRow(o) ELSE @]
       \/ "cache" \in Refusable /\ UNCHANGED cache
    /\ IF o \in WalkIns THEN Answer(w) ELSE Goto(w, "referral")
    /\ UNCHANGED <<shelf, table, counts, causes, told>>

\* A qualifying order gets a referral code, and its cached payload is written
\* once more from memory.  Then the shopper hears "ok".
FinishCheckout(w) ==
    LET o == req[w].order IN
    /\ req[w].pc = "referral"
    /\ \/ UNCHANGED cache
       \/ cache[o] # NoRow /\ cache' = [cache EXCEPT ![o].applied = TRUE]
    /\ accepted' = accepted \cup {o}
    /\ Answer(w)
    /\ UNCHANGED <<shelf, table, counts, causes, warned>>

------------------------------------------------------------------------------
(* The admin's decision: PATCH /api/admin/orders/<id>.                     *)

RequestStatus(w, o, new) ==
    LET row == cache[o] IN
    /\ acts < MaxAdmin
    /\ row # NoRow
    /\ <<row.status, new>> \in AdminMoves
    /\ acts' = acts + 1
    /\ Begin(w, o, [Idle EXCEPT
                      !.pc = IF Takes(row, new) THEN "take"
                             ELSE IF Gives(row, new) THEN "give" ELSE "save",
                      !.order = o, !.row = row, !.goal = new,
                      !.todo = IF Takes(row, new) \/ Gives(row, new)
                               THEN LinesOf(o) ELSE {}])
    /\ UNCHANGED <<shelf, stores, posts, restarts, told>>

\* After one line of a take or a give the loop goes on, then the row is
\* written (status) or the record is deleted (delete).
Advance(w, l, done) ==
    LET rest == req[w].todo \ {l} IN
    Become(w, [req[w] EXCEPT
                 !.pc = IF rest # {} THEN @
                        ELSE IF req[w].goal = "delete" THEN "drop" ELSE "save",
                 !.todo = rest,
                 !.moved = @ \cup done])

\* Confirming an order without a reservation takes its units now.  A refusal
\* is not looked at, and the row will record the units all the same.
TakeLine(w, l) ==
    LET o == req[w].order IN
    /\ req[w].pc = "take"
    /\ l \in req[w].todo
    /\ \/ Available(o, l) /\ TakeUnits(o, l) /\ Advance(w, l, {l})
          /\ UNCHANGED causes
       \/ /\ ~Available(o, l) \/ "reserve" \in Refusable
          /\ Advance(w, l, {})
          /\ Blame(o, {"ignoredTake"})
          /\ UNCHANGED shelf
    /\ UNCHANGED <<stores, counts, told>>

GiveLine(w, l) ==
    LET o == req[w].order IN
    /\ req[w].pc = "give"
    /\ l \in req[w].todo
    /\ \/ GiveUnits(o, l) /\ Advance(w, l, {l}) /\ UNCHANGED causes
       \/ /\ "release" \in Refusable
          /\ Advance(w, l, {})
          /\ Blame(o, {"ignoredRelease"})
          /\ UNCHANGED shelf
    /\ UNCHANGED <<stores, counts, told>>

\* Writing over a row that exists.
Overwrite(store, o, row) ==
    [store EXCEPT ![o] = IF @ = NoRow THEN NoRow ELSE row]

\* SQLite is updated first.
SaveDecision(w) ==
    LET o == req[w].order  row == Synced(req[w].row, req[w].goal) IN
    /\ req[w].pc = "save"
    /\ cache' = Overwrite(cache, o, row)
    /\ Become(w, [req[w] EXCEPT !.pc = "mirror", !.row = row, !.moved = {}])
    /\ UNCHANGED <<shelf, table, counts, causes, told>>

\* The statement raises: the units have moved and no row says so.
SaveRefused(w) ==
    /\ req[w].pc = "save"
    /\ "save" \in Refusable
    /\ Answer(w)
    /\ Blame(req[w].order, IF req[w].moved = {} THEN {} ELSE {"unsaved"})
    /\ UNCHANGED <<shelf, stores, counts, told>>

\* Then PostgreSQL; a failure is answered 503, "refresh and retry".
MirrorDecision(w) ==
    LET o == req[w].order IN
    /\ req[w].pc = "mirror"
    /\ table' = Overwrite(table, o, req[w].row)
    /\ warned' = warned \ {o}
    /\ Answer(w)
    /\ UNCHANGED <<shelf, cache, counts, causes, accepted>>

\* Mutant: a failed mirror write is not reported.
MutMirrorFailed(w) ==
    /\ req[w].pc = "mirror"
    /\ "mirror" \in Refusable
    /\ Answer(w)
    /\ UNCHANGED <<shelf, stores, counts, causes, told>>

MirrorFailed(w) ==
    LET o == req[w].order IN
    /\ req[w].pc = "mirror"
    /\ \/ "mirror" \in Refusable /\ UNCHANGED table
       \/ "mirror" \in Losable /\ table' = Overwrite(table, o, req[w].row)
    /\ warned' = warned \cup {o}
    /\ Answer(w)
    /\ UNCHANGED <<shelf, cache, counts, causes, accepted>>

------------------------------------------------------------------------------
(* The delete button: DELETE /api/admin/orders/<id>.                       *)

\* The units go back before anything else happens.
RequestDelete(w, o) ==
    LET row == cache[o] IN
    /\ CanDelete
    /\ acts < MaxAdmin
    /\ row # NoRow
    /\ acts' = acts + 1
    /\ Begin(w, o, [Idle EXCEPT
                      !.pc = IF Owes(row) THEN "give" ELSE "drop",
                      !.order = o, !.row = row, !.goal = "delete",
                      !.todo = IF Owes(row) THEN LinesOf(o) ELSE {}])
    /\ UNCHANGED <<shelf, stores, posts, restarts, told>>

DropRecord(w) ==
    LET o == req[w].order IN
    /\ req[w].pc = "drop"
    /\ table' = [table EXCEPT ![o] = NoRow]
    /\ accepted' = accepted \ {o}
    /\ Goto(w, "forget")
    /\ UNCHANGED <<shelf, cache, counts, causes, warned>>

\* 503, "No changes were made."
DropRefused(w) ==
    LET o == req[w].order IN
    /\ req[w].pc = "drop"
    /\ \/ "drop" \in Refusable /\ UNCHANGED <<table, accepted>>
       \/ /\ "drop" \in Losable
          /\ table' = [table EXCEPT ![o] = NoRow]
          /\ accepted' = accepted \ {o}
    /\ Answer(w)
    /\ Blame(o, IF req[w].moved = {} THEN {} ELSE {"refusedDelete"})
    /\ UNCHANGED <<shelf, cache, counts, warned>>

ForgetOrder(w) ==
    LET o == req[w].order IN
    /\ req[w].pc = "forget"
    /\ \/ /\ cache' = [cache EXCEPT ![o] = NoRow]
          /\ UNCHANGED causes
       \/ /\ "save" \in Refusable
          /\ Blame(o, IF req[w].moved = {} THEN {} ELSE {"unsaved"})
          /\ UNCHANGED cache
    /\ Answer(w)
    /\ UNCHANGED <<shelf, table, counts, told>>

------------------------------------------------------------------------------
(* The accounting desk: it reads the payload of a confirmed order from     *)
(* PostgreSQL, edits it, and writes the whole payload to both stores.      *)

RequestEdit(w, o) ==
    /\ CanEdit
    /\ acts < MaxAdmin
    /\ table[o].status = "confirmed"
    /\ acts' = acts + 1
    /\ Begin(w, o, [Idle EXCEPT !.pc = "editRecord", !.order = o,
                                !.row = table[o]])
    /\ UNCHANGED <<shelf, stores, posts, restarts, told>>

\* A row takes over the payload of another, not its status.
WithPayload(store, o, row) ==
    [store EXCEPT ![o] = IF @ = NoRow THEN NoRow
                         ELSE [@ EXCEPT !.applied = row.applied]]

EditRecord(w) ==
    LET o == req[w].order IN
    /\ req[w].pc = "editRecord"
    /\ \/ table' = WithPayload(table, o, req[w].row) /\ Goto(w, "editCache")
       \/ "edit" \in Refusable /\ Answer(w) /\ UNCHANGED table
       \/ /\ "edit" \in Losable /\ Answer(w)
          /\ table' = WithPayload(table, o, req[w].row)
    /\ UNCHANGED <<shelf, cache, counts, causes, told>>

EditCache(w) ==
    LET o == req[w].order IN
    /\ req[w].pc = "editCache"
    /\ \/ /\ cache' = WithPayload(cache, o, req[w].row)
          /\ Blame(o, IF cache'[o] = cache[o] THEN {} ELSE {"reverted"})
       \/ "cache" \in Refusable /\ UNCHANGED <<cache, causes>>
    /\ Answer(w)
    /\ UNCHANGED <<shelf, table, counts, told>>

------------------------------------------------------------------------------
(* The owner hides a line or locks it out of stock, and undoes it.         *)
Toggle(l) ==
    /\ l \in Hideable
    /\ sellable' = [sellable EXCEPT ![l] = ~@]
    /\ UNCHANGED <<stock, taken, stores, req, counts, causes, told>>

\* The row that speaks for an order: the cached one when there is one.
BookOf(tb, ca, o) == IF ca[o] # NoRow THEN ca[o] ELSE tb[o]
Book(o) == BookOf(table, cache, o)

(***************************************************************************)
(* The process dies and starts again, with its disk or, on a redeploy,     *)
(* without it.  Boot copies rows of the table over the cache: as many as   *)
(* one page holds, or none when the read fails.                            *)
(***************************************************************************)
Restart ==
    /\ restarts < MaxRestarts
    /\ restarts' = restarts + 1
    /\ \E wiped \in BOOLEAN, back \in SUBSET {o \in Orders : table[o] # NoRow} :
          /\ \/ back = {} /\ "boot" \in Refusable
             \/ /\ Cardinality(back) <= RestoreLimit
                /\ \/ Cardinality(back) = RestoreLimit
                   \/ back = {o \in Orders : table[o] # NoRow}
          /\ cache' = [o \in Orders |-> IF o \in back THEN table[o]
                                        ELSE IF wiped THEN NoRow ELSE cache[o]]
    /\ req' = [w \in Workers |-> Idle]
    /\ causes' = [o \in Orders |-> causes[o]
          \cup (IF \E w \in Workers : WorksOn(w, o) THEN {"died"} ELSE {})
          \cup (IF BookOf(table, cache', o) # Book(o) THEN {"reverted"} ELSE {})]
    /\ UNCHANGED <<shelf, table, posts, acts, told>>

------------------------------------------------------------------------------
\* One step of a handler that is already running.
Step(w) ==
    \/ Validate(w) \/ RefuseSoldOut(w) \/ AnswerDuplicate(w) \/ PassDuplicate(w)
    \/ \E l \in Lines : \/ ReserveLine(w, l) \/ ReserveRefused(w, l)
                        \/ ReserveReplyLost(w, l) \/ RollBackLine(w, l)
    \/ UploadProof(w) \/ UploadRefused(w)
    \/ RecordOrder(w) \/ RecordRefused(w) \/ RecordReplyLost(w)
    \/ RecordReceipt(w) \/ UndoOrder(w) \/ InsertCache(w) \/ FinishCheckout(w)
    \/ \E l \in Lines : TakeLine(w, l) \/ GiveLine(w, l)
    \/ SaveDecision(w) \/ SaveRefused(w) \/ MirrorDecision(w) \/ MirrorFailed(w)
    \/ DropRecord(w) \/ DropRefused(w) \/ ForgetOrder(w)
    \/ EditRecord(w) \/ EditCache(w)

Arrive(w, o) ==
    \/ PostCheckout(w, o) \/ PostWalkIn(w, o)
    \/ \E new \in Statuses : RequestStatus(w, o, new)
    \/ RequestDelete(w, o) \/ RequestEdit(w, o)

Next ==
    \/ \E w \in Workers : Step(w) \/ \E o \in Orders : Arrive(w, o)
    \/ \E l \in Lines : Toggle(l)
    \/ Restart

Spec == Init /\ [][Next]_vars

\* Threads are scheduled and every call to a store times out, so a handler
\* that has begun goes on.
FairSpec == Spec /\ \A w \in Workers : WF_vars(Step(w))
==============================================================================
