----------------------------- MODULE OrdersProofs -----------------------------
(***************************************************************************)
(* What is proved of the orders and the shelf, for every number of orders, *)
(* lines and threads.  In this order:                                      *)
(*   TypeCorrect           the types, and a shelf never below zero         *)
(*   AlwaysInductive       the shelf and the books agree, the accepted     *)
(*                         order is recorded, a divergence is reported     *)
(*   UnitsAlwaysConserved  no unit is created or lost                      *)
(*   RetriesNeverOversell  retried checkouts never sell a unit twice       *)
(*   DecisionsAlwaysStand  a checkout does not undo a decision             *)
(*   CleanShopKeepsLedger, HandledFailuresKeepLedger                       *)
(*                         the handlers implement the one-step ledger      *)
(***************************************************************************)
EXTENDS OrderProperties, Sums

------------------------------------------------------------------------------
(***************************************************************************)
(* Type correctness of Orders.  A step writes one request (ReqTyped) and   *)
(* some stores (StoresTyped); the lemmas before StepTyped say what each    *)
(* way of writing a request does to its type.                              *)
(***************************************************************************)
(***************************************************************************)
(* Requests keep their type.                                               *)
(***************************************************************************)
LEMMA IdleIsRequest == Idle \in Request
  BY DEF Idle, Request, PCs, Goals, NoRow, Statuses

\* The order rows that save_order and apply_stock_transition build are rows.
LEMMA RowsAreTyped ==
    /\ \A o : NewRow(o) \in Row
    /\ \A row \in Row \cup {NoRow}, new \in Statuses : Synced(row, new) \in Row
    /\ \A row \in Row, b \in BOOLEAN : [row EXCEPT !.applied = b] \in Row
    /\ \A row \in Row \cup {NoRow} : row.applied \in BOOLEAN
<1>1. \A o : NewRow(o) \in Row
  BY DEF PlacedRow, WalkInRow, NewRow, Row, Statuses
<1>2. ASSUME NEW row \in Row \cup {NoRow}, NEW new \in Statuses
      PROVE  Synced(row, new) \in Row
  <2>1. ((row.applied \/ Takes(row, new)) /\ ~Clears(row, new)) \in BOOLEAN
    OBVIOUS
  <2> QED
    BY <2>1 DEF Row, Synced
<1>3. \A row \in Row, b \in BOOLEAN : [row EXCEPT !.applied = b] \in Row
  BY DEF Row
<1>4. \A row \in Row \cup {NoRow} : row.applied \in BOOLEAN
  <2>1. NoRow.applied \in BOOLEAN
    BY Zenon DEF NoRow
  <2>2. \A row \in Row : row.applied \in BOOLEAN
    BY DEF Row
  <2> QED
    BY <2>1, <2>2
<1> QED
  BY <1>1, <1>2, <1>3, <1>4

\* An order's lines are lines of the catalogue.
LEMMA LinesAre == \A o : LinesOf(o) \in SUBSET Lines
  BY DEF LinesOf

\* A cart asks for a natural number of units of each line.
LEMMA CartIsNat ==
  ASSUME NEW o \in Orders, NEW l \in Lines
  PROVE  Cart[o][l] \in Nat
  BY OrdersAssumption DEF OrdersAssumption

\* Taking units that are on the shelf leaves a natural number there.
LEMMA TakenUnitsTyped ==
  ASSUME TypeOK, NEW o \in Orders, NEW l \in Lines,
         stock[l] >= Cart[o][l], TakeUnits(o, l)
  PROVE  /\ stock' \in [Lines -> Nat]
         /\ taken' \in [Orders -> [Lines -> Int]]
         /\ sellable' = sellable
  BY CartIsNat DEF TypeOK, TakeUnits

\* Giving units back leaves a natural number on the shelf.
LEMMA GivenUnitsTyped ==
  ASSUME TypeOK, NEW o \in Orders, NEW l \in Lines, GiveUnits(o, l)
  PROVE  /\ stock' \in [Lines -> Nat]
         /\ taken' \in [Orders -> [Lines -> Int]]
         /\ sellable' = sellable
  BY CartIsNat DEF TypeOK, GiveUnits

\* What the type of a request says of its fields.
LEMMA RequestParts ==
  ASSUME NEW r \in Request
  PROVE  /\ r.pc \in PCs /\ r.order \in Orders \cup {NoOrder}
         /\ r.row \in Row \cup {NoRow} /\ r.goal \in Goals
         /\ r.todo \in SUBSET Lines /\ r.moved \in SUBSET Lines
         /\ r.proof \in BOOLEAN
  BY DEF Request

\* What a step of worker w leaves true of the requests.
ReqTyped(w) ==
  /\ req' \in [Workers -> Request]
  /\ \A v \in Workers \ {w} : req'[v] = req[v]
  /\ WellFormed(req'[w])

\* A worker that takes up a well-formed request is well typed.
LEMMA BecomeTyped ==
  ASSUME NEW w \in Workers, NEW r \in Request, req \in [Workers -> Request],
         WellFormed(r), Become(w, r)
  PROVE  ReqTyped(w)
  BY DEF Become, ReqTyped

\* So is one that has answered, and is idle again.
LEMMA AnswerTyped ==
  ASSUME NEW w \in Workers, req \in [Workers -> Request], Answer(w)
  PROVE  ReqTyped(w)
  BY IdleIsRequest, BecomeTyped DEF Answer, Idle, WellFormed

\* So is one that goes to a step which carries no lines to move.
LEMMA GotoTyped ==
  ASSUME NEW w \in Workers, NEW pc \in PCs \ {"take", "give", "save"},
         req \in [Workers -> Request], req[w].order \in Orders, Goto(w, pc)
  PROVE  ReqTyped(w)
<1>1. [req[w] EXCEPT !.pc = pc] \in Request
  BY DEF Request
<1>2. WellFormed([req[w] EXCEPT !.pc = pc])
  BY DEF Request, WellFormed
<1> QED
  BY <1>1, <1>2, BecomeTyped DEF Goto

\* So is one that turns to giving back the lines it has moved.
LEMMA UnwindTyped ==
  ASSUME NEW w \in Workers, NEW held \in SUBSET Lines,
         req \in [Workers -> Request], req[w].order \in Orders, Unwind(w, held)
  PROVE  ReqTyped(w)
<1>1. CASE held = {}
  BY <1>1, AnswerTyped DEF Unwind, Answer
<1>2. CASE held # {}
  <2>1. "rollback" \in PCs
    BY DEF PCs
  <2> QED
    <3> DEFINE r == [req[w] EXCEPT !.pc = "rollback", !.todo = {}, !.moved = held]
    <3>1. r \in Request /\ WellFormed(r)
      BY <2>1 DEF Request, WellFormed
    <3>2. Become(w, r)
      BY <1>2 DEF Unwind
    <3> HIDE DEF r
    <3> QED
      BY <3>1, <3>2, BecomeTyped
<1> QED
  BY <1>1, <1>2

\* So is one that has moved a line and goes to the next, or to the save.
LEMMA AdvanceTyped ==
  ASSUME NEW w \in Workers, NEW l \in Lines, NEW done \in SUBSET Lines,
         req \in [Workers -> Request], req[w].pc \in {"take", "give"},
         WellFormed(req[w]), Advance(w, l, done)
  PROVE  ReqTyped(w)
<1> DEFINE pc == IF req[w].todo \ {l} # {} THEN req[w].pc
                 ELSE IF req[w].goal = "delete" THEN "drop" ELSE "save"
<1>1. pc \in PCs
  BY RequestParts DEF PCs
<1>2. req[w].todo \ {l} \in SUBSET Lines /\ req[w].moved \cup done \in SUBSET Lines
  BY RequestParts
<1>3. Become(w, [req[w] EXCEPT !.pc = pc, !.todo = req[w].todo \ {l},
                               !.moved = req[w].moved \cup done])
  BY DEF Advance
<1> DEFINE r == [req[w] EXCEPT !.pc = pc, !.todo = req[w].todo \ {l},
                               !.moved = req[w].moved \cup done]
<1>3a. Become(w, r)
  BY <1>3
<1>4. r \in Request
  <2> HIDE DEF pc
  <2> QED
    BY <1>1, <1>2 DEF Request
<1>5. /\ req[w].goal = "none" => req[w].pc = "take"
      /\ req[w].pc = "take" => req[w].goal \in Statuses
      /\ req[w].order \in Orders
  BY DEF WellFormed
<1>6. WellFormed(r)
  BY <1>5, RequestParts DEF WellFormed, Request, Goals
<1> HIDE DEF r
<1> QED
  BY <1>3a, <1>4, <1>6, BecomeTyped
\* The types of everything but the requests.
StoresTyped ==
  /\ stock \in [Lines -> Nat]
  /\ sellable \in [Lines -> BOOLEAN]
  /\ table \in [Orders -> Row \cup {NoRow}]
  /\ cache \in [Orders -> Row \cup {NoRow}]
  /\ posts \in [Orders -> Nat]
  /\ acts \in Nat
  /\ restarts \in Nat
  /\ taken \in [Orders -> [Lines -> Int]]
  /\ causes \in [Orders -> SUBSET Causes]
  /\ accepted \subseteq Orders
  /\ warned \subseteq Orders

\* The worker that steps and the stores are all a step can disturb.
LEMMA TypedAfter ==
  ASSUME TypeOK, NEW w \in Workers, ReqTyped(w), StoresTyped'
  PROVE  TypeOK'
  BY DEF TypeOK, StoresTyped, ReqTyped

\* Every step of a running handler keeps the types.
LEMMA StepTyped ==
  ASSUME TypeOK, NEW w \in Workers, Busy(w), Step(w)
  PROVE  TypeOK'
<1> DEFINE o == req[w].order
<1>a. /\ req \in [Workers -> Request] /\ req[w] \in Request /\ o \in Orders
      /\ req[w].todo \in SUBSET Lines /\ req[w].moved \in SUBSET Lines
      /\ req[w].row \in Row \cup {NoRow} /\ req[w].goal \in Goals
      /\ WellFormed(req[w])
  BY RequestParts DEF TypeOK, WellFormed, Busy
<1>b. StoresTyped
  BY DEF TypeOK, StoresTyped
<1>1. CASE Validate(w)
  <2>1. ReqTyped(w)
    BY <1>a, <1>1, AnswerTyped, GotoTyped DEF Validate, PCs
  <2>2. StoresTyped'
    BY <1>a, <1>b, <1>1 DEF Validate, StoresTyped, shelf, stores, counts, told
  <2> QED
    BY <2>1, <2>2, TypedAfter
<1>2. CASE RefuseSoldOut(w)
  <2>1. ReqTyped(w)
    BY <1>a, <1>2, AnswerTyped DEF RefuseSoldOut
  <2>2. StoresTyped'
    BY <1>a, <1>b, <1>2 DEF RefuseSoldOut, StoresTyped, shelf, stores, counts, told
  <2> QED
    BY <2>1, <2>2, TypedAfter
<1>3. CASE AnswerDuplicate(w)
  <2>1. ReqTyped(w)
    BY <1>a, <1>3, AnswerTyped DEF AnswerDuplicate
  <2>2. StoresTyped'
    BY <1>a, <1>b, <1>3 DEF AnswerDuplicate, StoresTyped, shelf, stores, counts, told
  <2> QED
    BY <2>1, <2>2, TypedAfter
<1>4. CASE PassDuplicate(w)
  <2>1. ReqTyped(w)
    <3> DEFINE r == [req[w] EXCEPT !.pc = "reserve", !.todo = LinesOf(o)]
    <3>1. r \in Request /\ WellFormed(r)
      BY <1>a, LinesAre DEF Request, PCs, WellFormed
    <3>2. Become(w, r)
      BY <1>4 DEF PassDuplicate
    <3> HIDE DEF r
    <3> QED
      BY <1>a, <3>1, <3>2, BecomeTyped
  <2>2. StoresTyped'
    BY <1>a, <1>b, <1>4 DEF PassDuplicate, StoresTyped, shelf, stores, counts, told
  <2> QED
    BY <2>1, <2>2, TypedAfter
<1>5. ASSUME NEW l \in Lines, ReserveLine(w, l)
      PROVE  TypeOK'
  <2>1. ReqTyped(w)
    <3> DEFINE next == IF req[w].todo \ {l} # {} THEN "reserve"
                       ELSE IF o \in WalkIns THEN "record" ELSE "proof"
    <3> DEFINE r == [req[w] EXCEPT !.pc = next, !.todo = @ \ {l}, !.moved = @ \cup {l}]
    <3>0. next \in {"reserve", "record", "proof"}
      OBVIOUS
    <3>1. r \in Request /\ WellFormed(r)
      <4> HIDE DEF next
      <4> QED
        BY <1>a, <3>0 DEF Request, PCs, WellFormed
    <3>2. Become(w, r)
      BY <1>5 DEF ReserveLine
    <3> HIDE DEF r
    <3> QED
      BY <1>a, <3>1, <3>2, BecomeTyped
  <2>2. StoresTyped'
    BY <1>a, <1>b, <1>5, TakenUnitsTyped DEF ReserveLine, Available, StoresTyped, shelf, stores, counts, told
  <2> QED
    BY <2>1, <2>2, TypedAfter
<1>6. ASSUME NEW l \in Lines, ReserveRefused(w, l)
      PROVE  TypeOK'
  <2>1. ReqTyped(w)
    BY <1>a, <1>6, UnwindTyped DEF ReserveRefused
  <2>2. StoresTyped'
    BY <1>a, <1>b, <1>6 DEF ReserveRefused, StoresTyped, shelf, stores, counts, told
  <2> QED
    BY <2>1, <2>2, TypedAfter
<1>7. ASSUME NEW l \in Lines, ReserveReplyLost(w, l)
      PROVE  TypeOK'
  <2>1. ReqTyped(w)
    BY <1>a, <1>7, UnwindTyped DEF ReserveReplyLost
  <2>2. StoresTyped'
    BY <1>a, <1>b, <1>7, TakenUnitsTyped DEF ReserveReplyLost, Available, Blame, Causes, StoresTyped, shelf, stores, counts, told
  <2> QED
    BY <2>1, <2>2, TypedAfter
<1>8. ASSUME NEW l \in Lines, RollBackLine(w, l)
      PROVE  TypeOK'
  <2>1. ReqTyped(w)
    BY <1>a, <1>8, UnwindTyped DEF RollBackLine
  <2>2. StoresTyped'
    BY <1>a, <1>b, <1>8, GivenUnitsTyped DEF RollBackLine, Blame, Causes, StoresTyped, shelf, stores, counts, told
  <2> QED
    BY <2>1, <2>2, TypedAfter
<1>9. CASE UploadProof(w)
  <2>1. ReqTyped(w)
    <3>1. PICK sent \in BOOLEAN :
             Become(w, [req[w] EXCEPT !.pc = "record", !.proof = sent])
      BY <1>9 DEF UploadProof
    <3> DEFINE r == [req[w] EXCEPT !.pc = "record", !.proof = sent]
    <3>2. r \in Request /\ WellFormed(r)
      BY <1>a DEF Request, PCs, WellFormed
    <3> HIDE DEF r
    <3> QED
      BY <1>a, <3>1, <3>2, BecomeTyped DEF r
  <2>2. StoresTyped'
    BY <1>a, <1>b, <1>9 DEF UploadProof, StoresTyped, shelf, stores, counts, told
  <2> QED
    BY <2>1, <2>2, TypedAfter
<1>10. CASE UploadRefused(w)
  <2>1. ReqTyped(w)
    BY <1>a, <1>10, UnwindTyped DEF UploadRefused
  <2>2. StoresTyped'
    BY <1>a, <1>b, <1>10 DEF UploadRefused, StoresTyped, shelf, stores, counts, told
  <2> QED
    BY <2>1, <2>2, TypedAfter
<1>11. CASE RecordOrder(w)
  <2>1. ReqTyped(w)
    <3> DEFINE r == [req[w] EXCEPT !.pc = IF req[w].proof THEN "receipt" ELSE "insert",
                                     !.moved = {}]
    <3>1. r \in Request /\ WellFormed(r)
      BY <1>a, LinesAre DEF Request, PCs, WellFormed
    <3>2. Become(w, r)
      BY <1>11 DEF RecordOrder
    <3> HIDE DEF r
    <3> QED
      BY <1>a, <3>1, <3>2, BecomeTyped
  <2>2. StoresTyped'
    BY <1>a, <1>b, <1>11, RowsAreTyped DEF RecordOrder, Blame, Causes, UpsertOrder, StoresTyped, shelf, stores, counts, told
  <2> QED
    BY <2>1, <2>2, TypedAfter
<1>12. CASE RecordRefused(w)
  <2>1. ReqTyped(w)
    BY <1>a, <1>12, UnwindTyped DEF RecordRefused
  <2>2. StoresTyped'
    BY <1>a, <1>b, <1>12 DEF RecordRefused, StoresTyped, shelf, stores, counts, told
  <2> QED
    BY <2>1, <2>2, TypedAfter
<1>13. CASE RecordReplyLost(w)
  <2>1. ReqTyped(w)
    BY <1>a, <1>13, UnwindTyped DEF RecordReplyLost
  <2>2. StoresTyped'
    BY <1>a, <1>b, <1>13, RowsAreTyped DEF RecordReplyLost, Blame, Causes, UpsertOrder, StoresTyped, shelf, stores, counts, told
  <2> QED
    BY <2>1, <2>2, TypedAfter
<1>14. CASE RecordReceipt(w)
  <2>1. ReqTyped(w)
    BY <1>a, <1>14, GotoTyped DEF RecordReceipt, PCs
  <2>2. StoresTyped'
    BY <1>a, <1>b, <1>14 DEF RecordReceipt, StoresTyped, shelf, stores, counts, told
  <2> QED
    BY <2>1, <2>2, TypedAfter
<1>15. CASE UndoOrder(w)
  <2>1. ReqTyped(w)
    BY <1>a, <1>15, UnwindTyped, LinesAre DEF UndoOrder
  <2>2. StoresTyped'
    <3>1. table' \in [Orders -> Row \cup {NoRow}]
      BY <1>a, <1>b, <1>15 DEF UndoOrder, StoresTyped
    <3>2. causes' \in [Orders -> SUBSET Causes]
      BY <1>a, <1>b, <1>15 DEF UndoOrder, Blame, Causes, StoresTyped
    <3> QED
      BY <1>b, <1>15, <3>1, <3>2 DEF UndoOrder, StoresTyped, shelf, counts, told
  <2> QED
    BY <2>1, <2>2, TypedAfter
<1>16. CASE InsertCache(w)
  <2>1. ReqTyped(w)
    BY <1>a, <1>16, GotoTyped, AnswerTyped DEF InsertCache, PCs
  <2>2. StoresTyped'
    BY <1>a, <1>b, <1>16, RowsAreTyped DEF InsertCache, StoresTyped, shelf, stores, counts, told
  <2> QED
    BY <2>1, <2>2, TypedAfter
<1>17. CASE FinishCheckout(w)
  <2>1. ReqTyped(w)
    BY <1>a, <1>17, AnswerTyped DEF FinishCheckout
  <2>2. StoresTyped'
    <3>1. CASE UNCHANGED cache
      BY <1>a, <1>b, <1>17, <3>1 DEF FinishCheckout, StoresTyped, shelf, counts
    <3>2. CASE cache[o] # NoRow /\ cache' = [cache EXCEPT ![o].applied = TRUE]
      <4>1. [cache[o] EXCEPT !.applied = TRUE] \in Row
        BY <1>a, <1>b, <3>2, RowsAreTyped DEF StoresTyped
      <4> QED
        BY <1>a, <1>b, <1>17, <3>2, <4>1 DEF FinishCheckout, StoresTyped, shelf, counts
    <3> QED
      BY <1>17, <3>1, <3>2 DEF FinishCheckout
  <2> QED
    BY <2>1, <2>2, TypedAfter
<1>18. ASSUME NEW l \in Lines, TakeLine(w, l)
      PROVE  TypeOK'
  <2>1. ReqTyped(w)
    BY <1>a, <1>18, AdvanceTyped DEF TakeLine
  <2>2. StoresTyped'
    BY <1>a, <1>b, <1>18, TakenUnitsTyped DEF TakeLine, Available, Blame, Causes, StoresTyped, shelf, stores, counts, told
  <2> QED
    BY <2>1, <2>2, TypedAfter
<1>19. ASSUME NEW l \in Lines, GiveLine(w, l)
      PROVE  TypeOK'
  <2>1. ReqTyped(w)
    BY <1>a, <1>19, AdvanceTyped DEF GiveLine
  <2>2. StoresTyped'
    BY <1>a, <1>b, <1>19, GivenUnitsTyped DEF GiveLine, Blame, Causes, StoresTyped, shelf, stores, counts, told
  <2> QED
    BY <2>1, <2>2, TypedAfter
<1>20. CASE SaveDecision(w)
  <2>1. ReqTyped(w)
    <3> DEFINE r == [req[w] EXCEPT !.pc = "mirror", !.moved = {},
                                     !.row = Synced(req[w].row, req[w].goal)]
    <3>0. req[w].goal \in Statuses
      BY <1>a, <1>20 DEF SaveDecision, WellFormed
    <3>1. r \in Request /\ WellFormed(r)
      BY <1>a, <3>0, RowsAreTyped DEF Request, PCs, WellFormed
    <3>2. Become(w, r)
      BY <1>20 DEF SaveDecision
    <3> HIDE DEF r
    <3> QED
      BY <1>a, <3>1, <3>2, BecomeTyped
  <2>2. StoresTyped'
    <3>1. Synced(req[w].row, req[w].goal) \in Row
      BY <1>a, <1>20, RowsAreTyped DEF SaveDecision, WellFormed
    <3> QED
      BY <1>a, <1>b, <1>20, <3>1 DEF SaveDecision, Overwrite, StoresTyped, shelf, counts, told
  <2> QED
    BY <2>1, <2>2, TypedAfter
<1>21. CASE SaveRefused(w)
  <2>1. ReqTyped(w)
    BY <1>a, <1>21, AnswerTyped DEF SaveRefused
  <2>2. StoresTyped'
    BY <1>a, <1>b, <1>21 DEF SaveRefused, Blame, Causes, StoresTyped, shelf, stores, counts, told
  <2> QED
    BY <2>1, <2>2, TypedAfter
<1>22. CASE MirrorDecision(w)
  <2>1. ReqTyped(w)
    BY <1>a, <1>22, AnswerTyped DEF MirrorDecision
  <2>2. StoresTyped'
    BY <1>a, <1>b, <1>22, RowsAreTyped DEF MirrorDecision, Overwrite, StoresTyped, shelf, stores, counts, told
  <2> QED
    BY <2>1, <2>2, TypedAfter
<1>23. CASE MirrorFailed(w)
  <2>1. ReqTyped(w)
    BY <1>a, <1>23, AnswerTyped DEF MirrorFailed
  <2>2. StoresTyped'
    BY <1>a, <1>b, <1>23, RowsAreTyped DEF MirrorFailed, Overwrite, StoresTyped, shelf, stores, counts, told
  <2> QED
    BY <2>1, <2>2, TypedAfter
<1>24. CASE DropRecord(w)
  <2>1. ReqTyped(w)
    BY <1>a, <1>24, GotoTyped DEF DropRecord, PCs
  <2>2. StoresTyped'
    BY <1>a, <1>b, <1>24 DEF DropRecord, StoresTyped, shelf, stores, counts, told
  <2> QED
    BY <2>1, <2>2, TypedAfter
<1>25. CASE DropRefused(w)
  <2>1. ReqTyped(w)
    BY <1>a, <1>25, AnswerTyped DEF DropRefused
  <2>2. StoresTyped'
    BY <1>a, <1>b, <1>25 DEF DropRefused, Blame, Causes, StoresTyped, shelf, stores, counts, told
  <2> QED
    BY <2>1, <2>2, TypedAfter
<1>26. CASE ForgetOrder(w)
  <2>1. ReqTyped(w)
    BY <1>a, <1>26, AnswerTyped DEF ForgetOrder
  <2>2. StoresTyped'
    <3>1. cache' \in [Orders -> Row \cup {NoRow}]
      BY <1>a, <1>b, <1>26 DEF ForgetOrder, StoresTyped
    <3>2. causes' \in [Orders -> SUBSET Causes]
      BY <1>a, <1>b, <1>26 DEF ForgetOrder, StoresTyped, Blame, Causes
    <3> QED
      BY <1>b, <1>26, <3>1, <3>2 DEF ForgetOrder, StoresTyped, shelf, counts, told
  <2> QED
    BY <2>1, <2>2, TypedAfter
<1>27. CASE EditRecord(w)
  <2>1. ReqTyped(w)
    BY <1>a, <1>27, GotoTyped, AnswerTyped DEF EditRecord, PCs
  <2>2. StoresTyped'
    BY <1>a, <1>b, <1>27, RowsAreTyped DEF EditRecord, WithPayload, StoresTyped, shelf, stores, counts, told
  <2> QED
    BY <2>1, <2>2, TypedAfter
<1>28. CASE EditCache(w)
  <2>1. ReqTyped(w)
    BY <1>a, <1>28, AnswerTyped DEF EditCache
  <2>2. StoresTyped'
    <3>1. cache' \in [Orders -> Row \cup {NoRow}]
      BY <1>a, <1>b, <1>28, RowsAreTyped DEF EditCache, StoresTyped, WithPayload
    <3>2. causes' \in [Orders -> SUBSET Causes]
      BY <1>a, <1>b, <1>28 DEF EditCache, StoresTyped, Blame, Causes
    <3> QED
      BY <1>b, <1>28, <3>1, <3>2 DEF EditCache, StoresTyped, shelf, counts, told
  <2> QED
    BY <2>1, <2>2, TypedAfter
<1> QED
  BY <1>1, <1>2, <1>3, <1>4, <1>5, <1>6, <1>7, <1>8, <1>9, <1>10, <1>11, <1>12, <1>13, <1>14, <1>15, <1>16, <1>17, <1>18, <1>19, <1>20, <1>21, <1>22, <1>23, <1>24, <1>25, <1>26, <1>27, <1>28 DEF Step

\* A handler's first step types its request and records a known cause.
LEMMA BeginTyped ==
  ASSUME TypeOK, NEW w \in Workers, NEW o \in Orders, NEW r \in Request,
         WellFormed(r), Begin(w, o, r)
  PROVE  ReqTyped(w) /\ causes' \in [Orders -> SUBSET Causes]
<1>1. ReqTyped(w)
  BY BecomeTyped DEF Begin, TypeOK
<1>2. causes' \in [Orders -> SUBSET Causes]
  BY DEF Begin, Blame, Causes, TypeOK
<1> QED
  BY <1>1, <1>2

\* Every arriving request keeps the types.
LEMMA ArriveTyped ==
  ASSUME TypeOK, NEW w \in Workers, NEW o \in Orders, Arrive(w, o)
  PROVE  TypeOK'
<1>a. StoresTyped
  BY DEF TypeOK, StoresTyped
<1>1. CASE PostCheckout(w, o)
  <2> DEFINE r == [Idle EXCEPT !.pc = "validate", !.order = o]
  <2>1. r \in Request /\ WellFormed(r)
    BY IdleIsRequest DEF Request, PCs, WellFormed
  <2>2. Begin(w, o, r)
    BY <1>1 DEF PostCheckout
  <2> HIDE DEF r
  <2>3. ReqTyped(w) /\ causes' \in [Orders -> SUBSET Causes]
    BY <2>1, <2>2, BeginTyped
  <2>4. StoresTyped'
    BY <1>1, <1>a, <2>3 DEF PostCheckout, StoresTyped, shelf, stores, told
  <2> QED
    BY <2>3, <2>4, TypedAfter
<1>2. CASE PostWalkIn(w, o)
  <2> DEFINE r == [Idle EXCEPT !.pc = "reserve", !.order = o, !.todo = LinesOf(o)]
  <2>1. r \in Request /\ WellFormed(r)
    BY IdleIsRequest, LinesAre DEF Request, PCs, WellFormed
  <2>2. Begin(w, o, r)
    BY <1>2 DEF PostWalkIn
  <2> HIDE DEF r
  <2>3. ReqTyped(w) /\ causes' \in [Orders -> SUBSET Causes]
    BY <2>1, <2>2, BeginTyped
  <2>4. StoresTyped'
    BY <1>2, <1>a, <2>3 DEF PostWalkIn, StoresTyped, shelf, stores, told
  <2> QED
    BY <2>3, <2>4, TypedAfter
<1>3. ASSUME NEW new \in Statuses, RequestStatus(w, o, new)
      PROVE  TypeOK'
  <2> DEFINE row  == cache[o]
             pc   == IF Takes(row, new) THEN "take"
                     ELSE IF Gives(row, new) THEN "give" ELSE "save"
             todo == IF Takes(row, new) \/ Gives(row, new) THEN LinesOf(o) ELSE {}
             r    == [Idle EXCEPT !.pc = pc, !.order = o, !.row = row,
                                  !.goal = new, !.todo = todo]
  <2>1. r \in Request /\ WellFormed(r)
    <3>1. row \in Row \cup {NoRow}
      BY DEF TypeOK
    <3>2. pc \in {"take", "give", "save"}
      OBVIOUS
    <3>3. todo \in SUBSET Lines
      BY LinesAre
    <3>4. new \in Goals /\ new # "none"
      BY DEF Goals, Statuses
    <3> HIDE DEF row, pc, todo
    <3> QED
      BY <3>1, <3>2, <3>3, <3>4, IdleIsRequest DEF Request, PCs, WellFormed
  <2>2. Begin(w, o, r)
    BY <1>3 DEF RequestStatus
  <2> HIDE DEF r
  <2>3. ReqTyped(w) /\ causes' \in [Orders -> SUBSET Causes]
    BY <2>1, <2>2, BeginTyped
  <2>4. StoresTyped'
    BY <1>3, <1>a, <2>3 DEF RequestStatus, StoresTyped, shelf, stores, told
  <2> QED
    BY <2>3, <2>4, TypedAfter
<1>4. CASE RequestDelete(w, o)
  <2> DEFINE row  == cache[o]
             pc   == IF Owes(row) THEN "give" ELSE "drop"
             todo == IF Owes(row) THEN LinesOf(o) ELSE {}
             r    == [Idle EXCEPT !.pc = pc, !.order = o, !.row = row,
                                  !.goal = "delete", !.todo = todo]
  <2>1. r \in Request /\ WellFormed(r)
    <3>1. row \in Row \cup {NoRow}
      BY DEF TypeOK
    <3>2. pc \in {"give", "drop"}
      OBVIOUS
    <3>3. todo \in SUBSET Lines
      BY LinesAre
    <3> HIDE DEF row, pc, todo
    <3> QED
      BY <3>1, <3>2, <3>3, IdleIsRequest DEF Request, PCs, Goals, WellFormed
  <2>2. Begin(w, o, r)
    BY <1>4 DEF RequestDelete
  <2> HIDE DEF r
  <2>3. ReqTyped(w) /\ causes' \in [Orders -> SUBSET Causes]
    BY <2>1, <2>2, BeginTyped
  <2>4. StoresTyped'
    BY <1>4, <1>a, <2>3 DEF RequestDelete, StoresTyped, shelf, stores, told
  <2> QED
    BY <2>3, <2>4, TypedAfter
<1>5. CASE RequestEdit(w, o)
  <2> DEFINE r == [Idle EXCEPT !.pc = "editRecord", !.order = o, !.row = table[o]]
  <2>1. r \in Request /\ WellFormed(r)
    BY IdleIsRequest DEF Request, PCs, WellFormed, TypeOK
  <2>2. Begin(w, o, r)
    BY <1>5 DEF RequestEdit
  <2> HIDE DEF r
  <2>3. ReqTyped(w) /\ causes' \in [Orders -> SUBSET Causes]
    BY <2>1, <2>2, BeginTyped
  <2>4. StoresTyped'
    BY <1>5, <1>a, <2>3 DEF RequestEdit, StoresTyped, shelf, stores, told
  <2> QED
    BY <2>3, <2>4, TypedAfter
<1> QED
  BY <1>1, <1>2, <1>3, <1>4, <1>5 DEF Arrive

\* The desk's switch of a line changes no number.
LEMMA ToggleTyped ==
  ASSUME TypeOK, NEW l \in Lines, Toggle(l)
  PROVE  TypeOK'
<1>1. sellable' \in [Lines -> BOOLEAN]
  BY DEF Toggle, TypeOK
<1> QED
  BY <1>1 DEF Toggle, TypeOK, stores, counts, told

\* A restart empties the workers and the cache, and keeps the tables.
LEMMA RestartTyped ==
  ASSUME TypeOK, Restart
  PROVE  TypeOK'
<1>1. cache' \in [Orders -> Row \cup {NoRow}]
  BY DEF Restart, TypeOK
<1>2. req' \in [Workers -> Request] /\ \A w \in Workers : WellFormed(req'[w])
  BY IdleIsRequest DEF Restart, Idle, WellFormed
<1>3. causes' \in [Orders -> SUBSET Causes]
  BY DEF Restart, TypeOK, Causes
<1>4. restarts' \in Nat
  BY DEF Restart, TypeOK
<1> QED
  BY <1>1, <1>2, <1>3, <1>4 DEF Restart, TypeOK, shelf, told

\* A step is a step of a busy worker: an idle one has no handler to go on with.
LEMMA StepIsBusy ==
  ASSUME NEW w \in Workers, Step(w)
  PROVE  Busy(w)
  BY DEF Step, Busy, Validate, RefuseSoldOut, AnswerDuplicate, PassDuplicate,
     ReserveLine, ReserveRefused, ReserveReplyLost, RollBackLine, UploadProof,
     UploadRefused, RecordOrder, RecordRefused, RecordReplyLost, RecordReceipt,
     UndoOrder, InsertCache, FinishCheckout, TakeLine, GiveLine, SaveDecision,
     SaveRefused, MirrorDecision, MirrorFailed, DropRecord, DropRefused,
     ForgetOrder, EditRecord, EditCache

\* The empty shop is well typed.
LEMMA InitTyped == Init => TypeOK
<1> SUFFICES ASSUME Init PROVE TypeOK
  OBVIOUS
<1>1. WellFormed(Idle) /\ Idle \in Request
  BY IdleIsRequest DEF WellFormed, Idle
<1> QED
  BY <1>1, OrdersAssumption DEF Init, TypeOK, OrdersAssumption

\* Every action keeps the types, one case for each.
LEMMA NextTyped == TypeOK /\ [Next]_vars => TypeOK'
<1> SUFFICES ASSUME TypeOK, [Next]_vars PROVE TypeOK'
  OBVIOUS
<1>1. CASE UNCHANGED vars
  BY <1>1 DEF vars, TypeOK
<1> QED
  BY <1>1, StepTyped, StepIsBusy, ArriveTyped, ToggleTyped, RestartTyped DEF Next

(***************************************************************************)
(* Every variable keeps its type, and the shelf never runs below zero: the *)
(* quantity guard of the reservation is the only way down.                 *)
(***************************************************************************)
THEOREM TypeCorrect == Spec => []TypeOK
  BY InitTyped, NextTyped, PTL DEF Spec

------------------------------------------------------------------------------
(***************************************************************************)
(* The shelf and the books agree, for every number of orders, lines and    *)
(* threads: `Inductive` of OrderProperties is an inductive invariant.      *)
(*                                                                         *)
(* A step of a request touches its own order only.  So the proof looks at  *)
(* one order at a time: an order of no concern to the step keeps OrderInv  *)
(* because nothing it speaks of changed (OtherOrderKept), and the order of *)
(* the step keeps it if the request is again at a stage that its stores    *)
(* support, or has ended with the books settled (StepsKeep).               *)
(***************************************************************************)
\* Nothing that OrderInv says of order p changes.
Untouched(p) ==
  /\ cache'[p] = cache[p] /\ table'[p] = table[p] /\ taken'[p] = taken[p]
  /\ causes'[p] = causes[p]
  /\ p \in accepted' <=> p \in accepted
  /\ p \in warned' <=> p \in warned
  /\ \A v \in Workers : WorksOn(v, p) => req'[v] = req[v]
  /\ \A v \in Workers : WorksOn(v, p)' => WorksOn(v, p)

\* An order that a step does not touch keeps its part of the invariant.
LEMMA OtherOrderKept ==
  ASSUME NEW p \in Orders, OrderInv(p), Untouched(p)
  PROVE  OrderInv(p)'
<1>1. \A v \in Workers : WorksOn(v, p)' <=> WorksOn(v, p)
  BY DEF Untouched, WorksOn, Busy
<1>2. \A v \in Workers : WorksOn(v, p) => req'[v] = req[v]
  BY DEF Untouched
<1>3. Owed(p)' = Owed(p)
  BY DEF Owed, Book, BookOf, Untouched
<1>4. Alone(p)'
  BY <1>1 DEF OrderInv, Alone
<1>5. Staged(p)'
  <2> SUFFICES ASSUME NEW v \in Workers, WorksOn(v, p) PROVE Stage(req[v])'
    BY <1>1 DEF Staged
  <2>1. Stage(req[v]) /\ req'[v] = req[v] /\ req[v].order = p
    BY <1>2 DEF OrderInv, Staged, WorksOn
  <2> QED
    BY <2>1 DEF Stage, WholeCart, MovesUnits, Untouched
<1>6. Balanced(p)'
  BY <1>1, <1>2, <1>3 DEF OrderInv, Balanced, Unrecorded, Untouched
<1>7. Recorded(p)' /\ Agreed(p)'
  BY <1>1, <1>2 DEF OrderInv, Recorded, Agreed, Untouched
<1> QED
  BY <1>4, <1>5, <1>6, <1>7 DEF OrderInv

\* The books of an order without a request, and with the request of worker w.
Settled(o) == \A l \in LinesOf(o) : taken[o][l] = Owed(o)
InProgress(w, o) ==
  /\ Stage(req[w])
  /\ \A l \in LinesOf(o) : taken[o][l] = Owed(o) + Unrecorded(w, l)

\* What OrderInv says of order o when w is the only worker that may be on it.
Sound(w, o) ==
  /\ req[w].pc = "idle" => Settled(o)
  /\ req[w].pc # "idle" => InProgress(w, o)
  /\ o \in accepted => table[o] # NoRow
  /\ \/ cache[o] = NoRow \/ table[o] = NoRow \/ cache[o] = table[o]
     \/ o \in warned \/ req[w].pc = "mirror"

Only(w, o) ==
  /\ req[w].pc # "idle" => req[w].order = o
  /\ \A v \in Workers \ {w} : ~WorksOn(v, o)

\* The one worker on an undisturbed order satisfies its stage of the invariant.
LEMMA SoundBefore ==
  ASSUME NEW w \in Workers, NEW o \in Orders, Only(w, o), OrderInv(o)
  PROVE  Sound(w, o)
<1>1. req[w].pc = "idle" => Settled(o)
  BY DEF Only, OrderInv, Balanced, Settled, WorksOn, Busy
<1>2. req[w].pc # "idle" => InProgress(w, o)
  BY DEF Only, OrderInv, Staged, Balanced, InProgress, WorksOn, Busy
<1>3. o \in accepted => table[o] # NoRow
  BY DEF OrderInv, Recorded
<1>4. \/ cache[o] = NoRow \/ table[o] = NoRow \/ cache[o] = table[o]
      \/ o \in warned \/ req[w].pc = "mirror"
  BY DEF Only, OrderInv, Agreed
<1> QED
  BY <1>1, <1>2, <1>3, <1>4 DEF Sound

\* And the order is in order again once that worker is at a sound stage.
LEMMA SoundAfter ==
  ASSUME NEW w \in Workers, NEW o \in Orders, Only(w, o)', Sound(w, o)'
  PROVE  OrderInv(o)'
<1>1. Alone(o)'
  BY DEF Alone, Only
<1>2. Staged(o)'
  BY DEF Staged, Only, Sound, InProgress, WorksOn, Busy
<1>3. Balanced(o)'
  <2>1. CASE req'[w].pc = "idle"
    BY <2>1 DEF Balanced, Only, Sound, Settled, WorksOn, Busy
  <2>2. CASE req'[w].pc # "idle"
    BY <2>2 DEF Balanced, Only, Sound, InProgress, WorksOn, Busy
  <2> QED
    BY <2>1, <2>2
<1>4. Recorded(o)'
  BY DEF Recorded, Sound
<1>5. Agreed(o)'
  BY DEF Agreed, Only, Sound, WorksOn, Busy
<1> QED
  BY <1>1, <1>2, <1>3, <1>4, <1>5 DEF OrderInv

Books == \A p \in Orders : Clean(p) => OrderInv(p)

\* A step of worker w on order o touches nothing else.
Within(w, o) ==
  /\ \A v \in Workers \ {w} : req'[v] = req[v]
  /\ req'[w].pc # "idle" => req'[w].order = o
  /\ causes[o] \subseteq causes'[o]
  /\ \A p \in Orders \ {o} :
        /\ cache'[p] = cache[p] /\ table'[p] = table[p] /\ taken'[p] = taken[p]
        /\ causes'[p] = causes[p]
        /\ p \in accepted' <=> p \in accepted
        /\ p \in warned' <=> p \in warned

\* A step inside one order leaves every other order alone.
LEMMA OthersUntouched ==
  ASSUME NEW w \in Workers, NEW o \in Orders, NEW p \in Orders \ {o},
         req[w].pc # "idle" => req[w].order = o, Within(w, o)
  PROVE  Untouched(p)
  BY DEF Untouched, Within, WorksOn, Busy

(***************************************************************************)
(* The induction step for a request that goes on, and for one that begins. *)
(***************************************************************************)
LEMMA StepKeeps ==
  ASSUME NEW w \in Workers, NEW o \in Orders, WorksOn(w, o), Books, Within(w, o),
         Clean(o)' /\ Sound(w, o) => Sound(w, o)'
  PROVE  Books'
<1>1. ASSUME NEW p \in Orders \ {o}, Clean(p)' PROVE OrderInv(p)'
  <2>1. Untouched(p)
    BY OthersUntouched DEF WorksOn
  <2>2. Clean(p)
    BY <1>1, <2>1 DEF Untouched, Clean
  <2> QED
    BY <2>1, <2>2, OtherOrderKept DEF Books
<1>2. ASSUME Clean(o)' PROVE OrderInv(o)'
  <2>1. OrderInv(o)
    BY <1>2 DEF Within, Clean, Books
  <2>2. Only(w, o)
    BY <2>1 DEF OrderInv, Alone, Only, WorksOn
  <2>3. Only(w, o)'
    BY <2>2 DEF Only, Within, WorksOn, Busy
  <2> QED
    BY <1>2, <2>1, <2>2, <2>3, SoundBefore, SoundAfter
<1> QED
  BY <1>1, <1>2 DEF Books

\* A handler's first step keeps the books: either it finds the order free, or it disturbs it.
LEMMA BeginKeeps ==
  ASSUME NEW w \in Workers, NEW o \in Orders, ~Busy(w), Books, Within(w, o),
         Clean(o)' => \A v \in Workers : ~WorksOn(v, o),
         Clean(o)' /\ Sound(w, o) => Sound(w, o)'
  PROVE  Books'
<1>1. ASSUME NEW p \in Orders \ {o}, Clean(p)' PROVE OrderInv(p)'
  <2>1. Untouched(p)
    BY OthersUntouched DEF Busy
  <2>2. Clean(p)
    BY <1>1, <2>1 DEF Untouched, Clean
  <2> QED
    BY <2>1, <2>2, OtherOrderKept DEF Books
<1>2. ASSUME Clean(o)' PROVE OrderInv(o)'
  <2>1. OrderInv(o)
    BY <1>2 DEF Within, Clean, Books
  <2>2. Only(w, o)
    BY <1>2 DEF Only, Busy
  <2>3. Only(w, o)'
    BY <2>2 DEF Only, Within, WorksOn, Busy
  <2> QED
    BY <1>2, <2>1, <2>2, <2>3, SoundBefore, SoundAfter
<1> QED
  BY <1>1, <1>2 DEF Books
(***************************************************************************)
(* What the helpers make of a request.                                     *)
(***************************************************************************)
OthersWait(w) == \A v \in Workers \ {w} : req'[v] = req[v]
Ended(w)      == OthersWait(w) /\ req'[w].pc = "idle"
Moved(w, pc, row, todo, moved) ==
  /\ OthersWait(w)
  /\ req'[w].pc = pc
  /\ req'[w].row = row
  /\ req'[w].todo = todo
  /\ req'[w].moved = moved
  /\ req'[w].goal = req[w].goal
  /\ req'[w].order = req[w].order

\* A step that leaves an order clean had nothing to blame on it.
LEMMA NothingBlamed ==
  ASSUME NEW o \in Orders, NEW c, causes \in [Orders -> SUBSET Causes],
         Blame(o, c), Clean(o)'
  PROVE  c = {} /\ causes' = causes
  <1>1. causes'[o] = causes[o] \cup c
    BY DEF Blame
  <1>2. c = {}
    BY <1>1 DEF Clean
  <1> QED
    BY <1>2 DEF Blame

\* Answering a request frees its worker.
LEMMA AnswerEnds ==
  ASSUME NEW w \in Workers, req \in [Workers -> Request], Answer(w)
  PROVE  Ended(w)
  BY DEF Answer, Become, Ended, OthersWait, Idle

\* Going to another step keeps the lines still to move and those moved.
LEMMA GotoMoves ==
  ASSUME NEW w \in Workers, NEW pc, req \in [Workers -> Request], Goto(w, pc)
  PROVE  Moved(w, pc, req[w].row, req[w].todo, req[w].moved)
  BY DEF Goto, Become, Moved, OthersWait, Request

\* Unwinding frees the worker, or keeps only the lines to give back.
LEMMA UnwindMoves ==
  ASSUME NEW w \in Workers, NEW held, req \in [Workers -> Request], Unwind(w, held)
  PROVE  IF held = {} THEN Ended(w)
         ELSE Moved(w, "rollback", req[w].row, {}, held)
<1>1. CASE held = {}
  BY <1>1, AnswerEnds DEF Unwind, Answer
<1>2. CASE held # {}
  BY <1>2 DEF Unwind, Become, Moved, OthersWait, Request
<1> QED
  BY <1>1, <1>2

\* After a line the worker has one line less to move, and goes to the save with none.
LEMMA AdvanceMoves ==
  ASSUME NEW w \in Workers, NEW l, NEW done, req \in [Workers -> Request],
         Advance(w, l, done)
  PROVE  Moved(w, IF req[w].todo \ {l} # {} THEN req[w].pc
                  ELSE IF req[w].goal = "delete" THEN "drop" ELSE "save",
               req[w].row, req[w].todo \ {l}, req[w].moved \cup done)
<1> DEFINE pc == IF req[w].todo \ {l} # {} THEN req[w].pc
                 ELSE IF req[w].goal = "delete" THEN "drop" ELSE "save"
<1>1. req' = [req EXCEPT ![w] = [req[w] EXCEPT
                 !.pc = pc, !.todo = req[w].todo \ {l},
                 !.moved = req[w].moved \cup done]]
  BY DEF Advance, Become
<1> HIDE DEF pc
<1>2. Moved(w, pc, req[w].row, req[w].todo \ {l}, req[w].moved \cup done)
  BY <1>1 DEF Moved, OthersWait, Request
<1> QED
  BY <1>2 DEF pc

(***************************************************************************)
(* What the books say of a row, and of an order without one.               *)
(***************************************************************************)
LEMMA RowFacts ==
  /\ ~Owes(NoRow)
  /\ \A o : Owes(NewRow(o)) /\ NewRow(o) # NoRow
  /\ \A o : o \notin WalkIns => NewRow(o) = PlacedRow
  /\ PlacedRow # NoRow /\ Owes(PlacedRow) /\ PlacedRow.applied = TRUE
  /\ \A row \in Row : row # NoRow
  BY DEF Owes, NoRow, NewRow, PlacedRow, WalkInRow, Row, Statuses

\* Writing back a row's own mark changes nothing; the placed row is a row.
LEMMA RowKept ==
  /\ \A row \in Row : [row EXCEPT !.applied = row.applied] = row
  /\ PlacedRow \in Row
  BY DEF Row, PlacedRow, Statuses

\* apply_stock_transition marks a row as holding units exactly when it took them.
LEMMA SyncedOwes ==
  ASSUME NEW row \in Row, NEW new \in Statuses
  PROVE  /\ Takes(row, new) => ~Owes(row) /\ ~Gives(row, new) /\ Owes(Synced(row, new))
         /\ Gives(row, new) => Owes(row) /\ ~Takes(row, new) /\ ~Owes(Synced(row, new))
         /\ ~Takes(row, new) /\ ~Gives(row, new) => (Owes(Synced(row, new)) <=> Owes(row))
<1>1. row.applied \in BOOLEAN /\ row.status \in Statuses
  BY DEF Row
<1>2. /\ Synced(row, new).status = new
      /\ Synced(row, new).applied <=> (row.applied \/ Takes(row, new)) /\ ~Clears(row, new)
  BY DEF Synced
<1> QED
  BY <1>1, <1>2 DEF Owes, Takes, Gives, Clears, Statuses

\* An order owes its cart once or not at all, as the row that the handlers read says.
LEMMA OwedIs ==
  ASSUME NEW o
  PROVE  /\ cache[o] # NoRow => Owed(o) = IF Owes(cache[o]) THEN 1 ELSE 0
         /\ cache[o] = NoRow => Owed(o) = IF Owes(table[o]) THEN 1 ELSE 0
         /\ Owed(o) \in {0, 1}
  BY DEF Owed, Book, BookOf

\* The same of the state after a step.
LEMMA OwedNext ==
  ASSUME NEW o
  PROVE  /\ cache'[o] # NoRow => Owed(o)' = IF Owes(cache'[o]) THEN 1 ELSE 0
         /\ cache'[o] = NoRow => Owed(o)' = IF Owes(table'[o]) THEN 1 ELSE 0
         /\ Owed(o)' \in {0, 1}
  BY DEF Owed, Book, BookOf

\* Steps of a checkout that leave every store alone.
LEMMA QuietStepsKeep ==
  ASSUME TypeOK, Books, NEW w \in Workers, NEW o \in Orders, WorksOn(w, o)
  PROVE  /\ Validate(w) => Books' /\ Within(w, o)
         /\ RefuseSoldOut(w) => Books' /\ Within(w, o)
         /\ AnswerDuplicate(w) => Books' /\ Within(w, o)
         /\ PassDuplicate(w) => Books' /\ Within(w, o)
         /\ \A l \in Lines : ReserveRefused(w, l) => Books' /\ Within(w, o)
         /\ UploadProof(w) => Books' /\ Within(w, o)
         /\ UploadRefused(w) => Books' /\ Within(w, o)
         /\ RecordRefused(w) => Books' /\ Within(w, o)
         /\ RecordReceipt(w) => Books' /\ Within(w, o)
<1>1. ASSUME Validate(w) PROVE Books' /\ Within(w, o)
  <2>1. Moved(w, "lookup", req[w].row, req[w].todo, req[w].moved)
    BY <1>1, GotoMoves DEF Validate, TypeOK, WorksOn
  <2>2. Within(w, o)
    BY <1>1, <2>1 DEF Validate, Within, Ended, Moved, OthersWait, WorksOn,
       shelf, stores, told, TypeOK
  <2>3. ASSUME Clean(o)', Sound(w, o) PROVE Sound(w, o)'
    BY <1>1, <2>1, <2>3 DEF Validate, Sound, Settled, InProgress, Stage, Unrecorded,
       WholeCart, Owed, Book, BookOf, Ended, Moved, WorksOn, Clean,
       shelf, stores, told, TypeOK
  <2> QED
    BY <2>2, <2>3, StepKeeps
<1>2. ASSUME RefuseSoldOut(w) PROVE Books' /\ Within(w, o)
  <2>1. Ended(w)
    BY <1>2, AnswerEnds DEF RefuseSoldOut, TypeOK, WorksOn
  <2>2. Within(w, o)
    BY <1>2, <2>1 DEF RefuseSoldOut, Within, Ended, Moved, OthersWait, WorksOn,
       shelf, stores, told, TypeOK
  <2>3. ASSUME Clean(o)', Sound(w, o) PROVE Sound(w, o)'
    BY <1>2, <2>1, <2>3 DEF RefuseSoldOut, Sound, Settled, InProgress, Stage, Unrecorded,
       WholeCart, Owed, Book, BookOf, Ended, Moved, WorksOn, Clean,
       shelf, stores, told, TypeOK
  <2> QED
    BY <2>2, <2>3, StepKeeps
<1>3. ASSUME AnswerDuplicate(w) PROVE Books' /\ Within(w, o)
  <2>1. Ended(w)
    BY <1>3, AnswerEnds DEF AnswerDuplicate, TypeOK, WorksOn
  <2>2. Within(w, o)
    BY <1>3, <2>1 DEF AnswerDuplicate, Within, Ended, Moved, OthersWait, WorksOn,
       shelf, stores, told, TypeOK
  <2>3. ASSUME Clean(o)', Sound(w, o) PROVE Sound(w, o)'
    BY <1>3, <2>1, <2>3 DEF AnswerDuplicate, Sound, Settled, InProgress, Stage, Unrecorded,
       WholeCart, Owed, Book, BookOf, Ended, Moved, WorksOn, Clean,
       shelf, stores, told, TypeOK
  <2> QED
    BY <2>2, <2>3, StepKeeps
<1>4. ASSUME PassDuplicate(w) PROVE Books' /\ Within(w, o)
  <2>1. Moved(w, "reserve", req[w].row, LinesOf(o), req[w].moved)
    BY <1>4 DEF PassDuplicate, TypeOK, Become, Moved, OthersWait, Request, WorksOn
  <2>2. Within(w, o)
    BY <1>4, <2>1 DEF PassDuplicate, Within, Ended, Moved, OthersWait, WorksOn,
       shelf, stores, told, TypeOK
  <2>3. ASSUME Clean(o)', Sound(w, o) PROVE Sound(w, o)'
    BY <1>4, <2>1, <2>3 DEF PassDuplicate, Sound, Settled, InProgress, Stage, Unrecorded,
       WholeCart, Owed, Book, BookOf, Ended, Moved, WorksOn, Clean,
       shelf, stores, told, TypeOK
  <2> QED
    BY <2>2, <2>3, StepKeeps
<1>5. ASSUME NEW l \in Lines, ReserveRefused(w, l) PROVE Books' /\ Within(w, o)
  <2>1. IF req[w].moved = {} THEN Ended(w)
       ELSE Moved(w, "rollback", req[w].row, {}, req[w].moved)
    BY <1>5, UnwindMoves DEF ReserveRefused, TypeOK, WorksOn
  <2>2. Within(w, o)
    BY <1>5, <2>1 DEF ReserveRefused, Within, Ended, Moved, OthersWait, WorksOn,
       shelf, stores, told, TypeOK
  <2>3. ASSUME Clean(o)', Sound(w, o) PROVE Sound(w, o)'
    <3>1. UNCHANGED <<table, cache, taken, accepted, warned>> /\ Owed(o)' = Owed(o)
      BY <1>5 DEF ReserveRefused, Owed, Book, BookOf, shelf, stores, told
    <3>2. /\ req[w].pc = "reserve" /\ req[w].goal = "none"
          /\ \A k \in LinesOf(o) : taken[o][k] = Owed(o) + Unrecorded(w, k)
      BY <1>5, <2>3 DEF ReserveRefused, Sound, InProgress, Stage
    <3>3. CASE req[w].moved = {}
      BY <2>1, <2>3, <3>1, <3>2, <3>3, OwedIs DEF Sound, Settled, Unrecorded, Ended
    <3>4. CASE req[w].moved # {}
      <4>1. Stage(req[w])'
        BY <2>1, <3>2, <3>4 DEF Stage, Moved
      <4>2. \A k \in LinesOf(o) : Unrecorded(w, k)' = Unrecorded(w, k)
        BY <2>1, <3>4 DEF Unrecorded, Moved
      <4> QED
        BY <2>1, <2>3, <3>1, <3>2, <3>4, <4>1, <4>2 DEF Sound, InProgress, Moved
    <3> QED
      BY <3>3, <3>4
  <2> QED
    BY <2>2, <2>3, StepKeeps
<1>6. ASSUME UploadProof(w) PROVE Books' /\ Within(w, o)
  <2>1. Moved(w, "record", req[w].row, req[w].todo, req[w].moved)
    BY <1>6 DEF UploadProof, TypeOK, Become, Moved, OthersWait, Request, WorksOn
  <2>2. Within(w, o)
    BY <1>6, <2>1 DEF UploadProof, Within, Ended, Moved, OthersWait, WorksOn,
       shelf, stores, told, TypeOK
  <2>3. ASSUME Clean(o)', Sound(w, o) PROVE Sound(w, o)'
    BY <1>6, <2>1, <2>3 DEF UploadProof, Sound, Settled, InProgress, Stage, Unrecorded,
       WholeCart, Owed, Book, BookOf, Ended, Moved, WorksOn, Clean,
       shelf, stores, told, TypeOK
  <2> QED
    BY <2>2, <2>3, StepKeeps
<1>7. ASSUME UploadRefused(w) PROVE Books' /\ Within(w, o)
  <2>1. IF req[w].moved = {} THEN Ended(w)
       ELSE Moved(w, "rollback", req[w].row, {}, req[w].moved)
    BY <1>7, UnwindMoves DEF UploadRefused, TypeOK, WorksOn
  <2>2. Within(w, o)
    BY <1>7, <2>1 DEF UploadRefused, Within, Ended, Moved, OthersWait, WorksOn,
       shelf, stores, told, TypeOK
  <2>3. ASSUME Clean(o)', Sound(w, o) PROVE Sound(w, o)'
    BY <1>7, <2>1, <2>3 DEF UploadRefused, Sound, Settled, InProgress, Stage, Unrecorded,
       WholeCart, Owed, Book, BookOf, Ended, Moved, WorksOn, Clean,
       shelf, stores, told, TypeOK
  <2> QED
    BY <2>2, <2>3, StepKeeps
<1>8. ASSUME RecordRefused(w) PROVE Books' /\ Within(w, o)
  <2>1. IF req[w].moved = {} THEN Ended(w)
       ELSE Moved(w, "rollback", req[w].row, {}, req[w].moved)
    BY <1>8, UnwindMoves DEF RecordRefused, TypeOK, WorksOn
  <2>2. Within(w, o)
    BY <1>8, <2>1 DEF RecordRefused, Within, Ended, Moved, OthersWait, WorksOn,
       shelf, stores, told, TypeOK
  <2>3. ASSUME Clean(o)', Sound(w, o) PROVE Sound(w, o)'
    BY <1>8, <2>1, <2>3 DEF RecordRefused, Sound, Settled, InProgress, Stage, Unrecorded,
       WholeCart, Owed, Book, BookOf, Ended, Moved, WorksOn, Clean,
       shelf, stores, told, TypeOK
  <2> QED
    BY <2>2, <2>3, StepKeeps
<1>9. ASSUME RecordReceipt(w) PROVE Books' /\ Within(w, o)
  <2>1. Moved(w, "insert", req[w].row, req[w].todo, req[w].moved)
       \/ Moved(w, "undo", req[w].row, req[w].todo, req[w].moved)
    BY <1>9, GotoMoves DEF RecordReceipt, TypeOK, WorksOn
  <2>2. Within(w, o)
    BY <1>9, <2>1 DEF RecordReceipt, Within, Ended, Moved, OthersWait, WorksOn,
       shelf, stores, told, TypeOK
  <2>3. ASSUME Clean(o)', Sound(w, o) PROVE Sound(w, o)'
    BY <1>9, <2>1, <2>3 DEF RecordReceipt, Sound, Settled, InProgress, Stage, Unrecorded,
       WholeCart, Owed, Book, BookOf, Ended, Moved, WorksOn, Clean,
       shelf, stores, told, TypeOK
  <2> QED
    BY <2>2, <2>3, StepKeeps
<1> QED
  BY <1>1, <1>2, <1>3, <1>4, <1>5, <1>6, <1>7, <1>8, <1>9

\* Steps of a checkout that move units.
LEMMA ReservingStepsKeep ==
  ASSUME TypeOK, Books, NEW w \in Workers, NEW o \in Orders, WorksOn(w, o)
  PROVE  /\ \A l \in Lines : ReserveLine(w, l) => Books' /\ Within(w, o)
         /\ \A l \in Lines : ReserveReplyLost(w, l) => Books' /\ Within(w, o)
         /\ \A l \in Lines : RollBackLine(w, l) => Books' /\ Within(w, o)
<1>1. ASSUME NEW l \in Lines, ReserveLine(w, l) PROVE Books' /\ Within(w, o)
  <2>1. Moved(w, IF req[w].todo \ {l} # {} THEN "reserve"
                  ELSE IF o \in WalkIns THEN "record" ELSE "proof", req[w].row, req[w].todo \ {l}, req[w].moved \cup {l})
    BY <1>1 DEF ReserveLine, TypeOK, Become, Moved, OthersWait, Request, WorksOn
  <2>2. Within(w, o)
    BY <1>1, <2>1 DEF ReserveLine, Within, Ended, Moved, OthersWait, WorksOn,
       shelf, stores, told, TypeOK, TakeUnits
  <2>3. ASSUME Clean(o)', Sound(w, o) PROVE Sound(w, o)'
    BY <1>1, <2>1, <2>3 DEF ReserveLine, Sound, Settled, InProgress, Stage, Unrecorded,
       WholeCart, Owed, Book, BookOf, Ended, Moved, WorksOn, Clean,
       shelf, stores, told, TypeOK, TakeUnits
  <2> QED
    BY <2>2, <2>3, StepKeeps
<1>2. ASSUME NEW l \in Lines, ReserveReplyLost(w, l) PROVE Books' /\ Within(w, o)
  <2>1. IF req[w].moved = {} THEN Ended(w)
       ELSE Moved(w, "rollback", req[w].row, {}, req[w].moved)
    BY <1>2, UnwindMoves DEF ReserveReplyLost, TypeOK, WorksOn
  <2>2. Within(w, o)
    BY <1>2, <2>1 DEF ReserveReplyLost, Within, Ended, Moved, OthersWait, WorksOn,
       shelf, stores, told, TypeOK, TakeUnits, Blame
  <2>3. ASSUME Clean(o)', Sound(w, o) PROVE Sound(w, o)'
    BY <1>2, <2>1, <2>3 DEF ReserveReplyLost, Sound, Settled, InProgress, Stage, Unrecorded,
       WholeCart, Owed, Book, BookOf, Ended, Moved, WorksOn, Clean,
       shelf, stores, told, TypeOK, TakeUnits, Blame
  <2> QED
    BY <2>2, <2>3, StepKeeps
<1>3. ASSUME NEW l \in Lines, RollBackLine(w, l) PROVE Books' /\ Within(w, o)
  <2>1. IF (req[w].moved \ {l}) = {} THEN Ended(w)
       ELSE Moved(w, "rollback", req[w].row, {}, (req[w].moved \ {l}))
    BY <1>3, UnwindMoves DEF RollBackLine, TypeOK, WorksOn
  <2>2. Within(w, o)
    BY <1>3, <2>1 DEF RollBackLine, Within, Ended, Moved, OthersWait, WorksOn,
       shelf, stores, told, TypeOK, GiveUnits, Blame
  <2>3. ASSUME Clean(o)', Sound(w, o) PROVE Sound(w, o)'
    <3>1. GiveUnits(o, l) /\ UNCHANGED causes
      BY <1>3, <2>3, NothingBlamed DEF RollBackLine, WorksOn, TypeOK
    <3>2. Owed(o)' = Owed(o)
      BY <1>3 DEF RollBackLine, Owed, Book, BookOf, stores
    <3>3. \A k \in LinesOf(o) :
             taken'[o][k] = taken[o][k] - IF k = l THEN 1 ELSE 0
      BY <3>1 DEF GiveUnits, TypeOK, LinesOf
    <3>4. /\ req[w].goal = "none" /\ l \in req[w].moved
          /\ \A k \in LinesOf(o) :
                taken[o][k] = Owed(o) + IF k \in req[w].moved THEN 1 ELSE 0
      BY <1>3, <2>3 DEF RollBackLine, Sound, InProgress, Stage, Unrecorded, WorksOn
    <3>5. UNCHANGED <<table, cache, accepted, warned>>
      BY <1>3 DEF RollBackLine, stores, told
    <3>6. req'[w].pc # "idle" => InProgress(w, o)'
      BY <2>1, <3>2, <3>3, <3>4, OwedIs DEF InProgress, Stage, Unrecorded, Ended, Moved
    <3>7. req'[w].pc = "idle" => Settled(o)'
      BY <2>1, <3>2, <3>3, <3>4, OwedIs DEF Settled, Ended, Moved
    <3> QED
      BY <1>3, <2>3, <3>5, <3>6, <3>7 DEF RollBackLine, Sound
  <2> QED
    BY <2>2, <2>3, StepKeeps
<1> QED
  BY <1>1, <1>2, <1>3

\* Steps of a checkout that write its row.
LEMMA RecordingStepsKeep ==
  ASSUME TypeOK, Books, NEW w \in Workers, NEW o \in Orders, WorksOn(w, o)
  PROVE  /\ RecordOrder(w) => Books' /\ Within(w, o)
         /\ RecordReplyLost(w) => Books' /\ Within(w, o)
         /\ UndoOrder(w) => Books' /\ Within(w, o)
         /\ InsertCache(w) => Books' /\ Within(w, o)
         /\ FinishCheckout(w) => Books' /\ Within(w, o)
<1>1. ASSUME RecordOrder(w) PROVE Books' /\ Within(w, o)
  <2>1. Moved(w, IF req[w].proof THEN "receipt" ELSE "insert", req[w].row, req[w].todo, {})
    BY <1>1 DEF RecordOrder, TypeOK, Become, Moved, OthersWait, Request, WorksOn
  <2>2. Within(w, o)
    BY <1>1, <2>1 DEF RecordOrder, Within, Ended, Moved, OthersWait, WorksOn,
       shelf, stores, told, TypeOK, UpsertOrder, Blame
  <2>3. ASSUME Clean(o)', Sound(w, o) PROVE Sound(w, o)'
    <3>1. /\ req[w].goal = "none" /\ cache[o] = NoRow /\ req[w].moved = LinesOf(o)
          /\ \A k \in LinesOf(o) : taken[o][k] = Owed(o) + 1
      BY <1>1, <2>3 DEF RecordOrder, Sound, InProgress, Stage, Unrecorded, WorksOn
    <3>2. table[o] = NoRow /\ o \notin accepted
      BY <1>1, <2>3 DEF RecordOrder, Blame, Clean, Sound, WorksOn, TypeOK
    <3>3. /\ table'[o] = NewRow(o) /\ cache'[o] = NoRow /\ taken' = taken
          /\ accepted' = accepted
      BY <1>1, <3>1 DEF RecordOrder, UpsertOrder, WorksOn, shelf, told, TypeOK
    <3>4. Owed(o) = 0 /\ Owed(o)' = 1
      BY <3>1, <3>2, <3>3, OwedIs, OwedNext, RowFacts
    <3>5. InProgress(w, o)'
      BY <2>1, <3>1, <3>2, <3>3, <3>4 DEF InProgress, Stage, Unrecorded, Moved, WorksOn
    <3> QED
      BY <2>1, <3>3, <3>5, RowFacts DEF Sound, Moved
  <2> QED
    BY <2>2, <2>3, StepKeeps
<1>2. ASSUME RecordReplyLost(w) PROVE Books' /\ Within(w, o)
  <2>1. IF req[w].moved = {} THEN Ended(w)
       ELSE Moved(w, "rollback", req[w].row, {}, req[w].moved)
    BY <1>2, UnwindMoves DEF RecordReplyLost, TypeOK, WorksOn
  <2>2. Within(w, o)
    BY <1>2, <2>1 DEF RecordReplyLost, Within, Ended, Moved, OthersWait, WorksOn,
       shelf, stores, told, TypeOK, UpsertOrder, Blame
  <2>3. ASSUME Clean(o)', Sound(w, o) PROVE Sound(w, o)'
    BY <1>2, <2>1, <2>3 DEF RecordReplyLost, Sound, Settled, InProgress, Stage, Unrecorded,
       WholeCart, Owed, Book, BookOf, Ended, Moved, WorksOn, Clean,
       shelf, stores, told, TypeOK, UpsertOrder, Blame
  <2> QED
    BY <2>2, <2>3, StepKeeps
<1>3. ASSUME UndoOrder(w) PROVE Books' /\ Within(w, o)
  <2>1. IF LinesOf(o) = {} THEN Ended(w)
       ELSE Moved(w, "rollback", req[w].row, {}, LinesOf(o))
    BY <1>3, UnwindMoves DEF UndoOrder, TypeOK, WorksOn
  <2>2. Within(w, o)
    BY <1>3, <2>1 DEF UndoOrder, Within, Ended, Moved, OthersWait, WorksOn,
       shelf, stores, told, TypeOK, Blame
  <2>3. ASSUME Clean(o)', Sound(w, o) PROVE Sound(w, o)'
    <3>1. /\ req[w].goal = "none" /\ cache[o] = NoRow /\ req[w].moved = {}
          /\ table[o] = NewRow(o) /\ o \notin accepted
          /\ \A k \in LinesOf(o) : taken[o][k] = Owed(o)
      BY <1>3, <2>3, OwedIs DEF UndoOrder, Sound, InProgress, Stage, Unrecorded, WorksOn, TypeOK
    <3>2. table'[o] = NoRow
      BY <1>3, <2>3 DEF UndoOrder, Blame, Clean, WorksOn, TypeOK
    <3>3. cache'[o] = NoRow /\ taken' = taken /\ accepted' = accepted
      BY <1>3, <3>1 DEF UndoOrder, WorksOn, shelf, told
    <3>4. Owed(o) = 1 /\ Owed(o)' = 0
      BY <3>1, <3>2, <3>3, OwedIs, OwedNext, RowFacts
    <3>5. req'[w].pc # "idle" => InProgress(w, o)'
      BY <2>1, <3>1, <3>3, <3>4 DEF InProgress, Stage, Unrecorded, Ended, Moved, WorksOn
    <3>6. req'[w].pc = "idle" => Settled(o)'
      BY <2>1, <3>1, <3>3, <3>4 DEF Settled, Ended, Moved
    <3> QED
      BY <3>1, <3>3, <3>5, <3>6 DEF Sound
  <2> QED
    BY <2>2, <2>3, StepKeeps
<1>4. ASSUME InsertCache(w) PROVE Books' /\ Within(w, o)
  <2>1. IF o \in WalkIns THEN Ended(w)
       ELSE Moved(w, "referral", req[w].row, req[w].todo, req[w].moved)
    BY <1>4, AnswerEnds, GotoMoves DEF InsertCache, TypeOK, WorksOn
  <2>2. Within(w, o)
    BY <1>4, <2>1 DEF InsertCache, Within, Ended, Moved, OthersWait, WorksOn,
       shelf, stores, told, TypeOK
  <2>3. ASSUME Clean(o)', Sound(w, o) PROVE Sound(w, o)'
    <3>1. /\ req[w].goal = "none" /\ cache[o] = NoRow /\ req[w].moved = {}
          /\ table[o] = NewRow(o)
          /\ \A k \in LinesOf(o) : taken[o][k] = Owed(o)
      BY <1>4, <2>3, OwedIs DEF InsertCache, Sound, InProgress, Stage, Unrecorded, WorksOn, TypeOK
    <3>2. /\ cache'[o] \in {NoRow, NewRow(o)} /\ table' = table
          /\ taken' = taken /\ accepted' = accepted
      BY <1>4, <3>1 DEF InsertCache, WorksOn, shelf, told, TypeOK
    <3>3. Owed(o) = 1 /\ Owed(o)' = 1
      BY <3>1, <3>2, OwedIs, OwedNext, RowFacts
    <3>4. req'[w].pc # "idle" => InProgress(w, o)'
      BY <2>1, <3>1, <3>2, <3>3, RowFacts
      DEF InProgress, Stage, Unrecorded, Ended, Moved, WorksOn
    <3>5. req'[w].pc = "idle" => Settled(o)'
      BY <2>1, <3>1, <3>2, <3>3 DEF Settled
    <3> QED
      BY <3>1, <3>2, <3>4, <3>5, RowFacts DEF Sound
  <2> QED
    BY <2>2, <2>3, StepKeeps
<1>5. ASSUME FinishCheckout(w) PROVE Books' /\ Within(w, o)
  <2>1. Ended(w)
    BY <1>5, AnswerEnds DEF FinishCheckout, TypeOK, WorksOn
  <2>2. Within(w, o)
    <3>1. \A p \in Orders \ {o} : cache'[p] = cache[p]
      BY <1>5 DEF FinishCheckout, WorksOn, TypeOK
    <3>2. \A p \in Orders \ {o} : p \in accepted' <=> p \in accepted
      BY <1>5 DEF FinishCheckout, WorksOn
    <3> QED
      BY <1>5, <2>1, <3>1, <3>2 DEF FinishCheckout, Within, Ended, OthersWait, WorksOn, shelf
  <2>3. ASSUME Clean(o)', Sound(w, o) PROVE Sound(w, o)'
    <3>1. /\ req[w].goal = "none" /\ cache[o] \in {NoRow, PlacedRow} /\ req[w].moved = {}
          /\ table[o] = PlacedRow
          /\ \A k \in LinesOf(o) : taken[o][k] = Owed(o)
      BY <1>5, <2>3, OwedIs DEF FinishCheckout, Sound, InProgress, Stage, Unrecorded, WorksOn, TypeOK
    <3>2. [PlacedRow EXCEPT !.applied = TRUE] = PlacedRow
      BY RowFacts, RowKept
    <3>3. cache'[o] = cache[o]
      <4>1. CASE UNCHANGED cache
        BY <4>1
      <4>2. CASE cache[o] # NoRow /\ cache' = [cache EXCEPT ![o].applied = TRUE]
        BY <3>1, <3>2, <4>2 DEF TypeOK
      <4> QED
        BY <1>5, <4>1, <4>2 DEF FinishCheckout, WorksOn
    <3>4. table' = table /\ taken' = taken
      BY <1>5 DEF FinishCheckout, shelf
    <3>5. Owed(o)' = Owed(o)
      BY <3>3, <3>4, OwedIs, OwedNext
    <3> QED
      BY <2>1, <3>1, <3>3, <3>4, <3>5, RowFacts DEF Sound, Settled, Ended
  <2> QED
    BY <2>2, <2>3, StepKeeps
<1> QED
  BY <1>1, <1>2, <1>3, <1>4, <1>5

\* Steps of an admin's decision.
LEMMA DecidingStepsKeep ==
  ASSUME TypeOK, Books, NEW w \in Workers, NEW o \in Orders, WorksOn(w, o)
  PROVE  /\ \A l \in Lines : TakeLine(w, l) => Books' /\ Within(w, o)
         /\ \A l \in Lines : GiveLine(w, l) => Books' /\ Within(w, o)
         /\ SaveDecision(w) => Books' /\ Within(w, o)
         /\ SaveRefused(w) => Books' /\ Within(w, o)
         /\ MirrorDecision(w) => Books' /\ Within(w, o)
         /\ MirrorFailed(w) => Books' /\ Within(w, o)
<1>1. ASSUME NEW l \in Lines, TakeLine(w, l) PROVE Books' /\ Within(w, o)
  <2>1. \E done \in SUBSET {l} : Moved(w, IF req[w].todo \ {l} # {} THEN req[w].pc
                  ELSE IF req[w].goal = "delete" THEN "drop" ELSE "save",
               req[w].row, req[w].todo \ {l}, req[w].moved \cup done)
    BY <1>1, AdvanceMoves DEF TakeLine, TypeOK, WorksOn
  <2>2. Within(w, o)
    BY <1>1, <2>1 DEF TakeLine, Within, Ended, Moved, OthersWait, WorksOn,
       shelf, stores, told, TypeOK, TakeUnits, Blame
  <2>3. ASSUME Clean(o)', Sound(w, o) PROVE Sound(w, o)'
    <3>1. /\ req[w].row # NoRow /\ cache[o] = req[w].row /\ WholeCart(req[w])
          /\ MovesUnits(req[w]) /\ Takes(req[w].row, req[w].goal)
          /\ \A k \in LinesOf(o) :
                taken[o][k] = Owed(o) + IF k \in req[w].moved THEN 1 ELSE 0
      BY <1>1, <2>3 DEF TakeLine, Sound, InProgress, Stage, Unrecorded, WorksOn
    <3>2. TakeUnits(o, l) /\ Advance(w, l, {l})
      BY <1>1, <2>3, NothingBlamed DEF TakeLine, WorksOn, TypeOK
    <3>3. Moved(w, IF req[w].todo \ {l} # {} THEN "take" ELSE "save",
                req[w].row, req[w].todo \ {l}, req[w].moved \cup {l})
      <4>1. req[w].goal # "delete" /\ req[w].pc = "take"
        BY <1>1, <3>1 DEF TakeLine, Takes
      <4> QED
        BY <3>2, <4>1, AdvanceMoves DEF TypeOK, Moved
    <3>4. UNCHANGED <<table, cache, accepted, warned>> /\ Owed(o)' = Owed(o)
      BY <1>1 DEF TakeLine, Owed, Book, BookOf, stores, told
    <3>5. \A k \in LinesOf(o) :
             taken'[o][k] = taken[o][k] + IF k = l THEN 1 ELSE 0
      BY <3>2 DEF TakeUnits, TypeOK, LinesOf
    <3>6. /\ req[w].order = o /\ l \in req[w].todo /\ req[w].goal = "confirmed"
          /\ req[w].todo \subseteq Lines
      BY <1>1, <3>1, RequestParts DEF TakeLine, Takes, WorksOn, TypeOK
    <3>7. Stage(req[w])'
      BY <3>1, <3>3, <3>4, <3>6 DEF Stage, WholeCart, MovesUnits, Moved
    <3>8. \A k \in LinesOf(o) : taken'[o][k] = Owed(o)' + Unrecorded(w, k)'
      BY <3>1, <3>3, <3>4, <3>5, <3>6, OwedIs DEF Unrecorded, Moved, WholeCart
    <3> QED
      BY <1>1, <2>3, <3>3, <3>4, <3>7, <3>8 DEF TakeLine, Sound, InProgress, Moved
  <2> QED
    BY <2>2, <2>3, StepKeeps
<1>2. ASSUME NEW l \in Lines, GiveLine(w, l) PROVE Books' /\ Within(w, o)
  <2>1. \E done \in SUBSET {l} : Moved(w, IF req[w].todo \ {l} # {} THEN req[w].pc
                  ELSE IF req[w].goal = "delete" THEN "drop" ELSE "save",
               req[w].row, req[w].todo \ {l}, req[w].moved \cup done)
    BY <1>2, AdvanceMoves DEF GiveLine, TypeOK, WorksOn
  <2>2. Within(w, o)
    BY <1>2, <2>1 DEF GiveLine, Within, Ended, Moved, OthersWait, WorksOn,
       shelf, stores, told, TypeOK, GiveUnits, Blame
  <2>3. ASSUME Clean(o)', Sound(w, o) PROVE Sound(w, o)'
    <3>1. /\ req[w].row # NoRow /\ cache[o] = req[w].row /\ WholeCart(req[w])
          /\ MovesUnits(req[w]) /\ ~Takes(req[w].row, req[w].goal)
          /\ req[w].goal # "none"
          /\ \A k \in LinesOf(o) :
                taken[o][k] = Owed(o) + IF k \in req[w].moved THEN -1 ELSE 0
      BY <1>2, <2>3 DEF GiveLine, Sound, InProgress, Stage, Unrecorded, WorksOn, TypeOK, WellFormed
    <3>2. GiveUnits(o, l) /\ Advance(w, l, {l})
      BY <1>2, <2>3, NothingBlamed DEF GiveLine, WorksOn, TypeOK
    <3>3. Moved(w, IF req[w].todo \ {l} # {} THEN "give"
                   ELSE IF req[w].goal = "delete" THEN "drop" ELSE "save",
                req[w].row, req[w].todo \ {l}, req[w].moved \cup {l})
      BY <1>2, <3>2, AdvanceMoves DEF GiveLine, TypeOK, Moved
    <3>4. UNCHANGED <<table, cache, accepted, warned>> /\ Owed(o)' = Owed(o)
      BY <1>2 DEF GiveLine, Owed, Book, BookOf, stores, told
    <3>5. \A k \in LinesOf(o) :
             taken'[o][k] = taken[o][k] - IF k = l THEN 1 ELSE 0
      BY <3>2 DEF GiveUnits, TypeOK, LinesOf
    <3>6. req[w].order = o /\ l \in req[w].todo /\ req[w].todo \subseteq Lines
      BY <1>2, RequestParts DEF GiveLine, WorksOn, TypeOK
    <3>7. Stage(req[w])'
      BY <3>1, <3>3, <3>4, <3>6 DEF Stage, WholeCart, MovesUnits, Moved
    <3>8. \A k \in LinesOf(o) : taken'[o][k] = Owed(o)' + Unrecorded(w, k)'
      BY <3>1, <3>3, <3>4, <3>5, <3>6, OwedIs DEF Unrecorded, Moved, WholeCart
    <3> QED
      BY <1>2, <2>3, <3>3, <3>4, <3>7, <3>8 DEF GiveLine, Sound, InProgress, Moved
  <2> QED
    BY <2>2, <2>3, StepKeeps
<1>3. ASSUME SaveDecision(w) PROVE Books' /\ Within(w, o)
  <2>1. Moved(w, "mirror", Synced(req[w].row, req[w].goal), req[w].todo, {})
    BY <1>3 DEF SaveDecision, TypeOK, Become, Moved, OthersWait, Request, WorksOn
  <2>2. Within(w, o)
    BY <1>3, <2>1 DEF SaveDecision, Within, Ended, Moved, OthersWait, WorksOn,
       shelf, stores, told, TypeOK, Overwrite
  <2>3. ASSUME Clean(o)', Sound(w, o) PROVE Sound(w, o)'
    <3> DEFINE r == req[w]
    <3>1. /\ r.row # NoRow /\ cache[o] = r.row /\ r.goal \in Statuses /\ r.order = o
          /\ r.moved = IF Takes(r.row, r.goal) \/ Gives(r.row, r.goal)
                       THEN LinesOf(o) ELSE {}
          /\ \A k \in LinesOf(o) : taken[o][k] = Owed(o) + Unrecorded(w, k)
      BY <1>3, <2>3 DEF SaveDecision, Sound, InProgress, Stage, MovesUnits, WorksOn,
         TypeOK, WellFormed, Statuses
    <3>2. r.row \in Row
      BY <3>1 DEF TypeOK
    <3>3. /\ cache'[o] = Synced(r.row, r.goal) /\ cache'[o] # NoRow
          /\ UNCHANGED <<table, taken, accepted, warned>>
      BY <1>3, <3>1, <3>2, RowsAreTyped, RowFacts
      DEF SaveDecision, Overwrite, WorksOn, shelf, told, TypeOK
    <3>4. \A k \in LinesOf(o) : taken[o][k] = Owed(o)'
      <4>1. /\ Owed(o) = IF Owes(r.row) THEN 1 ELSE 0
            /\ Owed(o)' = IF Owes(Synced(r.row, r.goal)) THEN 1 ELSE 0
        BY <3>1, <3>3, OwedIs, OwedNext
      <4>2. \A k \in LinesOf(o) :
              Unrecorded(w, k) = IF Takes(r.row, r.goal) THEN 1
                                 ELSE IF Gives(r.row, r.goal) THEN -1 ELSE 0
        BY <3>1, <3>2, SyncedOwes DEF Unrecorded, Statuses
      <4> QED
        BY <3>1, <3>2, <4>1, <4>2, SyncedOwes
    <3>5. Stage(req[w])'
      <4>1. Synced(r.row, r.goal).status = r.goal
        BY DEF Synced
      <4> QED
        BY <2>1, <3>1, <3>3, <4>1 DEF Stage, Moved
    <3>6. \A k \in LinesOf(o) : Unrecorded(w, k)' = 0
      BY <2>1 DEF Unrecorded, Moved
    <3>7. InProgress(w, o)'
      BY <3>3, <3>4, <3>5, <3>6, OwedNext DEF InProgress
    <3> QED
      BY <2>1, <2>3, <3>3, <3>7 DEF Sound, Moved
  <2> QED
    BY <2>2, <2>3, StepKeeps
<1>4. ASSUME SaveRefused(w) PROVE Books' /\ Within(w, o)
  <2>1. Ended(w)
    BY <1>4, AnswerEnds DEF SaveRefused, TypeOK, WorksOn
  <2>2. Within(w, o)
    BY <1>4, <2>1 DEF SaveRefused, Within, Ended, Moved, OthersWait, WorksOn,
       shelf, stores, told, TypeOK, Blame
  <2>3. ASSUME Clean(o)', Sound(w, o) PROVE Sound(w, o)'
    <3>1. req[w].moved = {} /\ req[w].pc # "idle"
      BY <1>4, <2>3 DEF SaveRefused, Blame, Clean, WorksOn, TypeOK
    <3>2. \A k \in LinesOf(o) : taken[o][k] = Owed(o)
      BY <2>3, <3>1, OwedIs DEF Sound, InProgress, Unrecorded
    <3>3. UNCHANGED <<table, cache, taken, accepted, warned>> /\ Owed(o)' = Owed(o)
      BY <1>4 DEF SaveRefused, Owed, Book, BookOf, shelf, stores, told
    <3> QED
      BY <1>4, <2>1, <2>3, <3>2, <3>3 DEF SaveRefused, Sound, Settled, Ended
  <2> QED
    BY <2>2, <2>3, StepKeeps
<1>5. ASSUME MirrorDecision(w) PROVE Books' /\ Within(w, o)
  <2>1. Ended(w)
    BY <1>5, AnswerEnds DEF MirrorDecision, TypeOK, WorksOn
  <2>2. Within(w, o)
    BY <1>5, <2>1 DEF MirrorDecision, Within, Ended, Moved, OthersWait, WorksOn,
       shelf, stores, told, TypeOK, Overwrite
  <2>3. ASSUME Clean(o)', Sound(w, o) PROVE Sound(w, o)'
    BY <1>5, <2>1, <2>3 DEF MirrorDecision, Sound, Settled, InProgress, Stage, Unrecorded,
       WholeCart, Owed, Book, BookOf, Ended, Moved, WorksOn, Clean,
       shelf, stores, told, TypeOK, Overwrite
  <2> QED
    BY <2>2, <2>3, StepKeeps
<1>6. ASSUME MirrorFailed(w) PROVE Books' /\ Within(w, o)
  <2>1. Ended(w)
    BY <1>6, AnswerEnds DEF MirrorFailed, TypeOK, WorksOn
  <2>2. Within(w, o)
    BY <1>6, <2>1 DEF MirrorFailed, Within, Ended, Moved, OthersWait, WorksOn,
       shelf, stores, told, TypeOK, Overwrite
  <2>3. ASSUME Clean(o)', Sound(w, o) PROVE Sound(w, o)'
    BY <1>6, <2>1, <2>3 DEF MirrorFailed, Sound, Settled, InProgress, Stage, Unrecorded,
       WholeCart, Owed, Book, BookOf, Ended, Moved, WorksOn, Clean,
       shelf, stores, told, TypeOK, Overwrite
  <2> QED
    BY <2>2, <2>3, StepKeeps
<1> QED
  BY <1>1, <1>2, <1>3, <1>4, <1>5, <1>6

\* Steps of a deletion and of an accounting edit.
LEMMA RemovingStepsKeep ==
  ASSUME TypeOK, Books, NEW w \in Workers, NEW o \in Orders, WorksOn(w, o)
  PROVE  /\ DropRecord(w) => Books' /\ Within(w, o)
         /\ DropRefused(w) => Books' /\ Within(w, o)
         /\ ForgetOrder(w) => Books' /\ Within(w, o)
         /\ EditRecord(w) => Books' /\ Within(w, o)
         /\ EditCache(w) => Books' /\ Within(w, o)
<1>1. ASSUME DropRecord(w) PROVE Books' /\ Within(w, o)
  <2>1. Moved(w, "forget", req[w].row, req[w].todo, req[w].moved)
    BY <1>1, GotoMoves DEF DropRecord, TypeOK, WorksOn
  <2>2. Within(w, o)
    BY <1>1, <2>1 DEF DropRecord, Within, Ended, Moved, OthersWait, WorksOn,
       shelf, stores, told, TypeOK
  <2>3. ASSUME Clean(o)', Sound(w, o) PROVE Sound(w, o)'
    <3>1. /\ req[w].row # NoRow /\ cache[o] = req[w].row /\ req[w].goal = "delete"
          /\ req[w].moved = IF MovesUnits(req[w]) THEN LinesOf(o) ELSE {}
          /\ req[w].todo = {} /\ req[w].order = o
          /\ \A k \in LinesOf(o) : taken[o][k] = Owed(o) + Unrecorded(w, k)
      BY <1>1, <2>3 DEF DropRecord, Sound, InProgress, Stage, WorksOn
    <3>2. /\ table'[o] = NoRow /\ UNCHANGED <<cache, taken, warned>>
          /\ o \notin accepted'
      BY <1>1 DEF DropRecord, WorksOn, shelf, TypeOK
    <3>3. Owed(o)' = Owed(o)
      BY <3>1, <3>2, OwedIs, OwedNext
    <3>4. Stage(req[w])'
      BY <2>1, <3>1, <3>2 DEF Stage, Moved, MovesUnits
    <3>5. \A k \in LinesOf(o) : Unrecorded(w, k)' = Unrecorded(w, k)
      BY <2>1 DEF Unrecorded, Moved
    <3> QED
      BY <2>1, <3>1, <3>2, <3>3, <3>4, <3>5 DEF Sound, InProgress, Moved
  <2> QED
    BY <2>2, <2>3, StepKeeps
<1>2. ASSUME DropRefused(w) PROVE Books' /\ Within(w, o)
  <2>1. Ended(w)
    BY <1>2, AnswerEnds DEF DropRefused, TypeOK, WorksOn
  <2>2. Within(w, o)
    BY <1>2, <2>1 DEF DropRefused, Within, Ended, Moved, OthersWait, WorksOn,
       shelf, stores, told, TypeOK, Blame
  <2>3. ASSUME Clean(o)', Sound(w, o) PROVE Sound(w, o)'
    <3>1. req[w].moved = {} /\ req[w].row # NoRow /\ cache[o] = req[w].row
      BY <1>2, <2>3 DEF DropRefused, Blame, Clean, WorksOn, TypeOK, Sound, InProgress, Stage
    <3>2. \A k \in LinesOf(o) : taken[o][k] = Owed(o)
      BY <1>2, <2>3, <3>1, OwedIs DEF DropRefused, Sound, InProgress, Unrecorded
    <3>3. /\ UNCHANGED <<cache, taken, warned>>
          /\ \/ UNCHANGED <<table, accepted>>
             \/ table'[o] = NoRow /\ o \notin accepted'
      BY <1>2 DEF DropRefused, WorksOn, shelf, TypeOK
    <3>4. Owed(o)' = Owed(o)
      BY <3>1, <3>3, OwedIs, OwedNext
    <3> QED
      BY <1>2, <2>1, <2>3, <3>2, <3>3, <3>4 DEF DropRefused, Sound, Settled, Ended
  <2> QED
    BY <2>2, <2>3, StepKeeps
<1>3. ASSUME ForgetOrder(w) PROVE Books' /\ Within(w, o)
  <2>1. Ended(w)
    BY <1>3, AnswerEnds DEF ForgetOrder, TypeOK, WorksOn
  <2>2. Within(w, o)
    <3>1. \A p \in Orders \ {o} : cache'[p] = cache[p]
      BY <1>3 DEF ForgetOrder, WorksOn, TypeOK
    <3>2. /\ causes[o] \subseteq causes'[o]
          /\ \A p \in Orders \ {o} : causes'[p] = causes[p]
      BY <1>3 DEF ForgetOrder, Blame, WorksOn, TypeOK
    <3> QED
      BY <1>3, <2>1, <3>1, <3>2 DEF ForgetOrder, Within, Ended, OthersWait, WorksOn, shelf, told
  <2>3. ASSUME Clean(o)', Sound(w, o) PROVE Sound(w, o)'
    <3>1. /\ req[w].row # NoRow /\ cache[o] = req[w].row /\ req[w].goal = "delete"
          /\ req[w].moved = IF Owes(req[w].row) THEN LinesOf(o) ELSE {}
          /\ table[o] = NoRow
          /\ \A k \in LinesOf(o) : taken[o][k] = Owed(o) + Unrecorded(w, k)
      BY <1>3, <2>3 DEF ForgetOrder, Sound, InProgress, Stage, MovesUnits, WorksOn
    <3>2. /\ UNCHANGED <<table, taken, accepted, warned>>
          /\ \/ cache'[o] = NoRow
             \/ cache' = cache /\ req[w].moved = {}
      <4>1. CASE cache' = [cache EXCEPT ![o] = NoRow]
        BY <1>3, <4>1 DEF ForgetOrder, WorksOn, shelf, told, TypeOK
      <4>2. CASE /\ Blame(o, IF req[w].moved = {} THEN {} ELSE {"unsaved"})
                 /\ UNCHANGED cache
        <5>1. req[w].moved = {}
          BY <2>3, <4>2, NothingBlamed DEF TypeOK
        <5> QED
          BY <1>3, <4>2, <5>1 DEF ForgetOrder, shelf, told
      <4> QED
        BY <1>3, <4>1, <4>2 DEF ForgetOrder, WorksOn
    <3>3. Settled(o)'
      <4>1. \A k \in LinesOf(o) : Unrecorded(w, k) = IF Owes(req[w].row) THEN -1 ELSE 0
        BY <3>1 DEF Unrecorded, Takes
      <4>2. Owed(o) = IF Owes(req[w].row) THEN 1 ELSE 0
        BY <3>1, OwedIs
      <4>3. CASE cache'[o] = NoRow
        <5>1. Owed(o)' = 0
          BY <3>1, <3>2, <4>3, OwedNext, RowFacts
        <5> QED
          BY <3>1, <3>2, <4>1, <4>2, <5>1 DEF Settled
      <4>4. CASE cache' = cache /\ req[w].moved = {}
        <5>1. Owed(o)' = Owed(o)
          BY <3>1, <4>2, <4>4, OwedNext
        <5>2. \A k \in LinesOf(o) : ~Owes(req[w].row)
          BY <3>1, <4>4
        <5> QED
          BY <3>1, <3>2, <4>1, <4>2, <5>1, <5>2 DEF Settled
      <4> QED
        BY <3>2, <4>3, <4>4
    <3> QED
      BY <2>1, <2>3, <3>1, <3>2, <3>3 DEF Sound, Ended
  <2> QED
    BY <2>2, <2>3, StepKeeps
<1>4. ASSUME EditRecord(w) PROVE Books' /\ Within(w, o)
  <2>1. Ended(w) \/ Moved(w, "editCache", req[w].row, req[w].todo, req[w].moved)
    BY <1>4, AnswerEnds, GotoMoves DEF EditRecord, TypeOK, WorksOn
  <2>2. Within(w, o)
    BY <1>4, <2>1 DEF EditRecord, Within, Ended, Moved, OthersWait, WorksOn,
       shelf, stores, told, TypeOK, WithPayload
  <2>3. ASSUME Clean(o)', Sound(w, o) PROVE Sound(w, o)'
    <3>1. /\ req[w].row = table[o] /\ req[w].moved = {} /\ req[w].goal = "none"
          /\ req[w].order = o
          /\ \A k \in LinesOf(o) : taken[o][k] = Owed(o)
      BY <1>4, <2>3, OwedIs DEF EditRecord, Sound, InProgress, Stage, Unrecorded, WorksOn
    <3>3. WithPayload(table, o, req[w].row) = table
      BY <3>1, RowKept DEF WithPayload, TypeOK
    <3>4. UNCHANGED <<table, cache, taken, accepted, warned>>
      BY <1>4, <3>3 DEF EditRecord, WorksOn, shelf, told
    <3>5. Owed(o)' = Owed(o)
      BY <3>4 DEF Owed, Book, BookOf
    <3> QED
      BY <1>4, <2>1, <2>3, <3>1, <3>4, <3>5, OwedIs
      DEF EditRecord, Sound, Settled, InProgress, Stage, Unrecorded, Ended, Moved
  <2> QED
    BY <2>2, <2>3, StepKeeps
<1>5. ASSUME EditCache(w) PROVE Books' /\ Within(w, o)
  <2>1. Ended(w)
    BY <1>5, AnswerEnds DEF EditCache, TypeOK, WorksOn
  <2>2. Within(w, o)
    <3>1. \A p \in Orders \ {o} : cache'[p] = cache[p]
      BY <1>5 DEF EditCache, WithPayload, WorksOn, TypeOK
    <3>2. /\ causes[o] \subseteq causes'[o]
          /\ \A p \in Orders \ {o} : causes'[p] = causes[p]
      BY <1>5 DEF EditCache, Blame, WorksOn, TypeOK
    <3> QED
      BY <1>5, <2>1, <3>1, <3>2 DEF EditCache, Within, Ended, OthersWait, WorksOn, shelf, told
  <2>3. ASSUME Clean(o)', Sound(w, o) PROVE Sound(w, o)'
    <3>1. \A k \in LinesOf(o) : taken[o][k] = Owed(o)
      BY <1>5, <2>3, OwedIs DEF EditCache, Sound, InProgress, Stage, Unrecorded, WorksOn
    <3>2. cache'[o] = cache[o]
      BY <1>5, <2>3, NothingBlamed DEF EditCache, WorksOn, TypeOK
    <3>3. UNCHANGED <<table, taken, accepted, warned>>
      BY <1>5 DEF EditCache, shelf, told
    <3>4. Owed(o)' = Owed(o)
      BY <3>2, <3>3, OwedIs, OwedNext
    <3> QED
      BY <1>5, <2>1, <2>3, <3>1, <3>2, <3>3, <3>4 DEF EditCache, Sound, Settled, Ended
  <2> QED
    BY <2>2, <2>3, StepKeeps
<1> QED
  BY <1>1, <1>2, <1>3, <1>4, <1>5

(***************************************************************************)
(* Arrivals.                                                               *)
(***************************************************************************)
LEMMA BeginIs ==
  ASSUME TypeOK, NEW w \in Workers, NEW o \in Orders, NEW r, Begin(w, o, r)
  PROVE  /\ ~Busy(w) /\ OthersWait(w) /\ req'[w] = r
         /\ causes[o] \subseteq causes'[o]
         /\ \A p \in Orders \ {o} : causes'[p] = causes[p]
         /\ Clean(o)' => \A v \in Workers : ~WorksOn(v, o)
  BY DEF Begin, Become, Blame, OthersWait, Clean, TypeOK

\* A request begins with nothing in hand, at a stage its stores support.
LEMMA ArrivalKeeps ==
  ASSUME TypeOK, Books, NEW w \in Workers, NEW o \in Orders, NEW r, Begin(w, o, r),
         r.order = o, r.moved = {}, r.pc \notin {"idle", "mirror"},
         UNCHANGED <<cache, table, taken, accepted, warned>>,
         Stage(r)'
  PROVE  Books' /\ Within(w, o)
<1>1. /\ ~Busy(w) /\ OthersWait(w) /\ req'[w] = r
      /\ causes[o] \subseteq causes'[o]
      /\ \A p \in Orders \ {o} : causes'[p] = causes[p]
      /\ Clean(o)' => \A v \in Workers : ~WorksOn(v, o)
  BY BeginIs
<1>2. Within(w, o)
  BY <1>1 DEF Within, OthersWait
<1>3. ASSUME Sound(w, o) PROVE Sound(w, o)'
  <2>1. Stage(req[w])'
    BY <1>1 DEF Stage, WholeCart, MovesUnits
  <2>2. Owed(o)' = Owed(o)
    BY DEF Owed, Book, BookOf
  <2>3. \A l \in LinesOf(o) : taken'[o][l] = Owed(o)' + Unrecorded(w, l)'
    BY <1>1, <1>3, <2>2, OwedIs DEF Sound, Settled, Unrecorded, Busy
  <2> QED
    BY <1>1, <1>3, <2>1, <2>3 DEF Sound, InProgress, Busy
<1> QED
  BY <1>1, <1>2, <1>3, BeginKeeps

\* Every request that begins keeps the books and stays inside its order.
LEMMA ArrivalsKeep ==
  ASSUME TypeOK, Posted, Books, NEW w \in Workers, NEW o \in Orders, Arrive(w, o)
  PROVE  Books' /\ Within(w, o)
<1>1. CASE PostCheckout(w, o)
  <2> DEFINE r == [Idle EXCEPT !.pc = "validate", !.order = o]
  <2>1. r.order = o /\ r.moved = {} /\ r.pc = "validate" /\ r.goal = "none"
    BY DEF Idle
  <2>2. Begin(w, o, r) /\ UNCHANGED <<cache, table, taken, accepted, warned>>
    BY <1>1 DEF PostCheckout, shelf, stores, told
  <2> HIDE DEF r
  <2>3. Stage(r)'
    BY <2>1 DEF Stage
  <2> QED
    BY <2>1, <2>2, <2>3, ArrivalKeeps
<1>2. CASE PostWalkIn(w, o)
  <2> DEFINE r == [Idle EXCEPT !.pc = "reserve", !.order = o, !.todo = LinesOf(o)]
  <2>1. /\ r.order = o /\ r.moved = {} /\ r.pc = "reserve" /\ r.goal = "none"
        /\ r.todo = LinesOf(o)
    BY DEF Idle
  <2>2. /\ Begin(w, o, r) /\ UNCHANGED <<cache, table, taken, accepted, warned>>
        /\ cache[o] = NoRow
    BY <1>2 DEF PostWalkIn, Posted, shelf, stores, told
  <2> HIDE DEF r
  <2>3. Stage(r)'
    BY <2>1, <2>2 DEF Stage, WholeCart
  <2> QED
    BY <2>1, <2>2, <2>3, ArrivalKeeps
<1>3. ASSUME NEW new \in Statuses, RequestStatus(w, o, new)
      PROVE  Books' /\ Within(w, o)
  <2>0. PICK row : row = cache[o]
    OBVIOUS
  <2> DEFINE pc   == IF Takes(row, new) THEN "take"
                     ELSE IF Gives(row, new) THEN "give" ELSE "save"
             todo == IF Takes(row, new) \/ Gives(row, new) THEN LinesOf(o) ELSE {}
             r    == [Idle EXCEPT !.pc = pc, !.order = o, !.row = row,
                                  !.goal = new, !.todo = todo]
  <2>1. /\ r.order = o /\ r.moved = {} /\ r.pc = pc /\ r.goal = new
        /\ r.row = row /\ r.todo = todo
    <3> HIDE DEF pc, todo
    <3> QED
      BY DEF Idle
  <2>2. /\ Begin(w, o, r) /\ UNCHANGED <<cache, table, taken, accepted, warned>>
        /\ row # NoRow
    BY <1>3, <2>0 DEF RequestStatus, shelf, stores, told
  <2> HIDE DEF r
  <2>3. Stage(r)'
    BY <2>0, <2>1, <2>2 DEF Stage, WholeCart, MovesUnits, Statuses
  <2> QED
    BY <2>1, <2>2, <2>3, ArrivalKeeps
<1>4. CASE RequestDelete(w, o)
  <2>0. PICK row : row = cache[o]
    OBVIOUS
  <2> DEFINE pc   == IF Owes(row) THEN "give" ELSE "drop"
             todo == IF Owes(row) THEN LinesOf(o) ELSE {}
             r    == [Idle EXCEPT !.pc = pc, !.order = o, !.row = row,
                                  !.goal = "delete", !.todo = todo]
  <2>1. /\ r.order = o /\ r.moved = {} /\ r.pc = pc /\ r.goal = "delete"
        /\ r.row = row /\ r.todo = todo
    <3> HIDE DEF pc, todo
    <3> QED
      BY DEF Idle
  <2>2. /\ Begin(w, o, r) /\ UNCHANGED <<cache, table, taken, accepted, warned>>
        /\ row # NoRow
    BY <1>4, <2>0 DEF RequestDelete, shelf, stores, told
  <2> HIDE DEF r
  <2>3. Stage(r)'
    BY <2>0, <2>1, <2>2 DEF Stage, WholeCart, MovesUnits, Takes
  <2> QED
    BY <2>1, <2>2, <2>3, ArrivalKeeps
<1>5. CASE RequestEdit(w, o)
  <2>0. PICK row : row = table[o]
    OBVIOUS
  <2> DEFINE r == [Idle EXCEPT !.pc = "editRecord", !.order = o, !.row = row]
  <2>1. /\ r.order = o /\ r.moved = {} /\ r.pc = "editRecord" /\ r.goal = "none"
        /\ r.row = row
    BY DEF Idle
  <2>2. Begin(w, o, r) /\ UNCHANGED <<cache, table, taken, accepted, warned>>
    BY <1>5, <2>0 DEF RequestEdit, shelf, stores, told
  <2> HIDE DEF r
  <2>3. Stage(r)'
    BY <2>0, <2>1, <2>2 DEF Stage
  <2> QED
    BY <2>1, <2>2, <2>3, ArrivalKeeps
<1> QED
  BY <1>1, <1>2, <1>3, <1>4, <1>5 DEF Arrive

\* Every step of a worker keeps the books and stays inside its order.
LEMMA StepsKeep ==
  ASSUME TypeOK, Books, NEW w \in Workers, NEW o \in Orders, WorksOn(w, o), Step(w)
  PROVE  Books' /\ Within(w, o)
  BY QuietStepsKeep, ReservingStepsKeep, RecordingStepsKeep, DecidingStepsKeep,
     RemovingStepsKeep DEF Step

\* Switching a line on or off moves no unit.
LEMMA ToggleKeeps ==
  ASSUME Books, NEW l \in Lines, Toggle(l)
  PROVE  Books'
<1>1. \A p \in Orders : Untouched(p) /\ (Clean(p)' <=> Clean(p))
  BY DEF Toggle, Untouched, Clean, WorksOn, Busy, stores, told
<1> QED
  BY <1>1, OtherOrderKept DEF Books

\* A clean order had no request when the server died, and the row that speaks
\* for it is the same afterwards.
LEMMA RestartKeeps ==
  ASSUME TypeOK, Books, Restart
  PROVE  Books'
<1> SUFFICES ASSUME NEW p \in Orders, Clean(p)' PROVE OrderInv(p)'
  BY DEF Books
<1>1. /\ Clean(p) /\ \A v \in Workers : ~WorksOn(v, p)
      /\ BookOf(table, cache', p) = Book(p)
  BY DEF Restart, Clean
<1>2. OrderInv(p)
  BY <1>1 DEF Books
<1>3. \A v \in Workers : ~WorksOn(v, p)'
  BY DEF Restart, WorksOn, Busy, Idle
<1>4. /\ UNCHANGED <<table, taken, accepted, warned>>
      /\ cache'[p] \in {table[p], cache[p], NoRow}
  BY DEF Restart, shelf, told
<1>5. Owed(p)' = Owed(p)
  BY <1>1, <1>4 DEF Owed, Book
<1>6. Alone(p)' /\ Staged(p)'
  BY <1>3 DEF Alone, Staged
<1>7. Balanced(p)'
  BY <1>1, <1>2, <1>3, <1>4, <1>5 DEF OrderInv, Balanced
<1>8. Recorded(p)' /\ Agreed(p)'
  BY <1>1, <1>2, <1>4 DEF OrderInv, Recorded, Agreed
<1> QED
  BY <1>6, <1>7, <1>8 DEF OrderInv

(***************************************************************************)
(* Requests and rows are of posted orders.                                 *)
(***************************************************************************)
LEMMA StepLeavesPosts ==
  ASSUME NEW w \in Workers, Step(w)
  PROVE  posts' = posts
  BY DEF Step, Validate, RefuseSoldOut, AnswerDuplicate, PassDuplicate,
     ReserveLine, ReserveRefused, ReserveReplyLost, RollBackLine, UploadProof,
     UploadRefused, RecordOrder, RecordRefused, RecordReplyLost, RecordReceipt,
     UndoOrder, InsertCache, FinishCheckout, TakeLine, GiveLine, SaveDecision,
     SaveRefused, MirrorDecision, MirrorFailed, DropRecord, DropRefused,
     ForgetOrder, EditRecord, EditCache, counts

\* Only an order that a shopper posted ever gets a row or a worker.
LEMMA PostedKept ==
  ASSUME TypeOK, Posted, NEW w \in Workers, NEW o \in Orders, Within(w, o),
         Busy(w) => req[w].order = o,
         posts' \in [Orders -> Nat], posts'[o] # 0,
         \A p \in Orders : posts[p] # 0 => posts'[p] # 0
  PROVE  Posted'
  BY DEF Posted, Within, Busy, TypeOK, WellFormed

\* A request that begins concerns a posted order, and forgets no earlier post.
LEMMA ArrivalIsPosted ==
  ASSUME TypeOK, Posted, NEW w \in Workers, NEW o \in Orders, Arrive(w, o)
  PROVE  /\ ~Busy(w) /\ posts'[o] # 0
         /\ \A p \in Orders : posts[p] # 0 => posts'[p] # 0
<1>1. CASE PostCheckout(w, o)
  BY <1>1 DEF PostCheckout, Begin, TypeOK
<1>2. CASE PostWalkIn(w, o)
  BY <1>2 DEF PostWalkIn, Begin, TypeOK
<1>3. ASSUME NEW new \in Statuses, RequestStatus(w, o, new)
      PROVE  ~Busy(w) /\ posts' = posts /\ posts[o] # 0
  BY <1>3 DEF RequestStatus, Begin, Posted
<1>4. CASE RequestDelete(w, o)
  BY <1>4 DEF RequestDelete, Begin, Posted
<1>5. CASE RequestEdit(w, o)
  BY <1>5 DEF RequestEdit, Begin, Posted, NoRow
<1> QED
  BY <1>1, <1>2, <1>3, <1>4, <1>5 DEF Arrive

\* The empty shop satisfies the inductive invariant.
LEMMA InductiveInit == Init => Inductive
<1> SUFFICES ASSUME Init PROVE Inductive
  OBVIOUS
<1>1. TypeOK
  BY InitTyped
<1>2. Posted
  BY DEF Init, Posted, Busy, Idle
<1>3. ASSUME NEW o \in Orders PROVE OrderInv(o)
  <2>1. \A w \in Workers : ~WorksOn(w, o)
    BY DEF Init, WorksOn, Busy, Idle
  <2>2. Owed(o) = 0
    BY OwedIs, RowFacts DEF Init
  <2>3. Alone(o) /\ Staged(o)
    BY <2>1 DEF Alone, Staged
  <2>4. Balanced(o)
    BY <2>1, <2>2 DEF Init, Balanced, LinesOf
  <2>5. Recorded(o) /\ Agreed(o)
    BY DEF Init, Recorded, Agreed
  <2> QED
    BY <2>3, <2>4, <2>5 DEF OrderInv
<1> QED
  BY <1>1, <1>2, <1>3 DEF Inductive

\* Every step keeps it.
LEMMA InductiveNext == Inductive /\ [Next]_vars => Inductive'
<1> SUFFICES ASSUME Inductive, [Next]_vars PROVE Inductive'
  OBVIOUS
<1>1. TypeOK /\ Posted /\ Books
  BY DEF Inductive, Books
<1>2. TypeOK'
  BY <1>1, NextTyped
<1>3. ASSUME NEW w \in Workers, Step(w) PROVE Posted' /\ Books'
  <2> DEFINE o == req[w].order
  <2>1. o \in Orders /\ WorksOn(w, o) /\ Busy(w)
    BY <1>1, <1>3, StepIsBusy DEF TypeOK, WellFormed, WorksOn, Busy
  <2>2. Books' /\ Within(w, o)
    BY <1>1, <1>3, <2>1, StepsKeep
  <2>3. posts' = posts /\ posts[o] # 0
    BY <1>1, <1>3, <2>1, StepLeavesPosts DEF Posted
  <2> QED
    BY <1>1, <1>2, <2>1, <2>2, <2>3, PostedKept DEF TypeOK
<1>4. ASSUME NEW w \in Workers, NEW o \in Orders, Arrive(w, o)
      PROVE  Posted' /\ Books'
  <2>1. Books' /\ Within(w, o)
    BY <1>1, <1>4, ArrivalsKeep
  <2>2. /\ ~Busy(w) /\ posts'[o] # 0
        /\ \A p \in Orders : posts[p] # 0 => posts'[p] # 0
    BY <1>1, <1>4, ArrivalIsPosted
  <2> QED
    BY <1>1, <1>2, <2>1, <2>2, PostedKept DEF TypeOK
<1>5. ASSUME NEW l \in Lines, Toggle(l) PROVE Posted' /\ Books'
  <2>1. Posted'
    BY <1>1, <1>5 DEF Toggle, Posted, Busy, stores, counts
  <2> QED
    BY <1>1, <1>5, <2>1, ToggleKeeps
<1>6. CASE Restart
  <2>1. Posted'
    BY <1>1, <1>6 DEF Restart, Posted, Busy, Idle
  <2> QED
    BY <1>1, <1>2, <1>6, <2>1, RestartKeeps DEF Inductive, Books
<1>7. CASE UNCHANGED vars
  <2>1. \A p \in Orders : Untouched(p) /\ (Clean(p)' <=> Clean(p))
    BY <1>7 DEF vars, Untouched, Clean, WorksOn, Busy
  <2>2. Books'
    BY <1>1, <2>1, OtherOrderKept DEF Books
  <2>3. Posted'
    BY <1>1, <1>7 DEF vars, Posted, Busy
  <2> QED
    BY <1>2, <2>2, <2>3 DEF Inductive, Books
<1> QED
  BY <1>2, <1>3, <1>4, <1>5, <1>6, <1>7 DEF Next, Inductive, Books

(***************************************************************************)
(* The inductive invariant holds in every state: an order that nothing has *)
(* gone wrong with has one request at most, and what that request read is  *)
(* still true when it writes.                                              *)
(***************************************************************************)
THEOREM AlwaysInductive == Spec => []Inductive
  BY InductiveInit, InductiveNext, PTL DEF Spec

\* It implies the three properties of the ledger that the runs check.
LEMMA InductiveImplies ==
  Inductive => LedgerBalanced /\ AcceptedIsRecorded /\ DivergenceIsReported
<1> SUFFICES ASSUME Inductive
             PROVE  LedgerBalanced /\ AcceptedIsRecorded /\ DivergenceIsReported
  OBVIOUS
<1>1. \A o \in Orders : causes[o] = {} => OrderInv(o)
  BY DEF Inductive, Clean
<1>2. LedgerBalanced
  BY <1>1 DEF LedgerBalanced, OrderInv, Balanced
<1>3. AcceptedIsRecorded
  BY <1>1 DEF AcceptedIsRecorded, OrderInv, Recorded, Inductive, TypeOK
<1>4. DivergenceIsReported
  BY <1>1 DEF DivergenceIsReported, OrderInv, Agreed
<1> QED
  BY <1>2, <1>3, <1>4

(***************************************************************************)
(* An order that none of the listed mishaps happened to has its units off  *)
(* the shelf exactly when its row says so, give or take what its request   *)
(* has in hand: for any number of orders, lines, threads, retries, failed  *)
(* calls and restarts.                                                     *)
(***************************************************************************)
THEOREM LedgerAlwaysBalanced == Spec => []LedgerBalanced
  BY AlwaysInductive, InductiveImplies, PTL

(***************************************************************************)
(* An order whose shopper was told "ok" is in PostgreSQL until the admin   *)
(* deletes it.                                                             *)
(***************************************************************************)
THEOREM AcceptedAlwaysRecorded == Spec => []AcceptedIsRecorded
  BY AlwaysInductive, InductiveImplies, PTL

(***************************************************************************)
(* The cache and the record of a settled order differ only if the admin    *)
(* was told so.                                                            *)
(***************************************************************************)
THEOREM DivergenceAlwaysReported == Spec => []DivergenceIsReported
  BY AlwaysInductive, InductiveImplies, PTL

------------------------------------------------------------------------------
(***************************************************************************)
(* No unit is created or lost.  In every state the shelf and what has been *)
(* taken from it, net, add up to the initial stock (Accounted); where the  *)
(* books are kept, what has been taken of an order is what its row or its  *)
(* request says.                                                           *)
(***************************************************************************)
UnitsTaken(l) == SumFunction([o \in Orders |-> Cart[o][l] * taken[o][l]])

Accounted == \A l \in Lines : stock[l] + UnitsTaken(l) = InitialStock[l]

\* d times the order's line leaves the shelf.
UnitsMove(o, l, d) ==
    /\ stock' = [stock EXCEPT ![l] = @ - d * Cart[o][l]]
    /\ taken' = [taken EXCEPT ![o][l] = @ + d]

\* A product of integers is an integer, and one more time is one cart more.
LEMMA CartTimes ==
  ASSUME NEW a \in Nat, NEW t \in Int, NEW d \in {-1, 1}
  PROVE  a * t \in Int /\ a * (t + d) = a * t + d * a /\ d * a \in Int
<1>1. a * t \in Int
  OBVIOUS
<1>2. CASE d = 1
  BY <1>1, <1>2
<1>3. CASE d = -1
  BY <1>1, <1>3
<1> QED
  BY <1>1, <1>2, <1>3

\* What is taken of a line is the sum over the orders.
LEMMA UnitsTakenIs ==
  ASSUME NEW l \in Lines, NEW t \in [Orders -> [Lines -> Int]]
  PROVE  /\ SumFunction([o \in Orders |-> Cart[o][l] * t[o][l]])
              = SumFunctionOnSet([o \in Orders |-> Cart[o][l] * t[o][l]], Orders)
         /\ SumFunctionOnSet([o \in Orders |-> Cart[o][l] * t[o][l]], Orders) \in Int
<1> DEFINE f == [o \in Orders |-> Cart[o][l] * t[o][l]]
<1>1. ASSUME NEW o \in Orders PROVE f[o] \in Int
  <2>1. Cart[o][l] \in Nat /\ t[o][l] \in Int
    BY CartIsNat
  <2>2. Cart[o][l] * t[o][l] \in Int
    BY <2>1
  <2> QED
    BY <2>2
<1>2. DOMAIN f = Orders
  OBVIOUS
<1> HIDE DEF f
<1>3. SumFunctionOnSet(f, Orders) \in Int
  BY <1>1, OrdersAssumption, SumIsInt
<1>4. SumFunction(f) = SumFunctionOnSet(f, Orders)
  BY <1>2 DEF SumFunction
<1> QED
  BY <1>3, <1>4 DEF f

\* Units that move between the shelf and an order stay accounted for.
LEMMA MoveKeepsAccount ==
  ASSUME TypeOK, Accounted, NEW o \in Orders, NEW l \in Lines, NEW d \in {-1, 1},
         UnitsMove(o, l, d)
  PROVE  Accounted'
<1> SUFFICES ASSUME NEW k \in Lines
             PROVE  stock'[k] + UnitsTaken(k)' = InitialStock[k]
  BY DEF Accounted
<1> DEFINE f == [p \in Orders |-> Cart[p][k] * taken[p][k]]
           g == [p \in Orders |-> Cart[p][k] * taken'[p][k]]
<1>1. taken \in [Orders -> [Lines -> Int]] /\ stock \in [Lines -> Nat]
  BY DEF TypeOK
<1>2. taken' \in [Orders -> [Lines -> Int]]
  BY <1>1 DEF UnitsMove
<1>3. /\ UnitsTaken(k) = SumFunctionOnSet(f, Orders)
      /\ UnitsTaken(k)' = SumFunctionOnSet(g, Orders)
      /\ SumFunctionOnSet(f, Orders) \in Int
  BY <1>1, <1>2, UnitsTakenIs DEF UnitsTaken
<1>4. \A p \in Orders : /\ Cart[p][k] \in Nat /\ taken[p][k] \in Int
                        /\ Cart[p][k] * taken[p][k] \in Int
                        /\ Cart[p][k] * taken'[p][k] \in Int
  BY <1>1, <1>2, CartIsNat
<1>5. stock[k] + SumFunctionOnSet(f, Orders) = InitialStock[k]
  BY <1>3 DEF Accounted
<1>6. CASE k # l
  <2>1. \A p \in Orders : taken'[p][k] = taken[p][k]
    BY <1>1, <1>6 DEF UnitsMove
  <2>2. \A p \in Orders : f[p] \in Int /\ g[p] = f[p]
    BY <1>4, <2>1
  <2> HIDE DEF f, g
  <2>3. SumFunctionOnSet(f, Orders) = SumFunctionOnSet(g, Orders)
    BY <2>2, OrdersAssumption, SumEqual
  <2>4. stock'[k] = stock[k]
    BY <1>1, <1>6 DEF UnitsMove
  <2> QED
    BY <1>3, <1>5, <2>3, <2>4
<1>7. CASE k = l
  <2>1. taken'[o][k] = taken[o][k] + d
        /\ \A p \in Orders \ {o} : taken'[p][k] = taken[p][k]
    BY <1>1, <1>7 DEF UnitsMove
  <2>2. g[o] = f[o] + d * Cart[o][k] /\ d * Cart[o][k] \in Int
    BY <1>4, <2>1, CartTimes
  <2>3. /\ \A p \in Orders : f[p] \in Int /\ g[p] \in Int
        /\ \A p \in Orders : p # o => g[p] = f[p]
    BY <1>4, <2>1
  <2>4. stock'[k] = stock[k] - d * Cart[o][k] /\ stock[k] \in Int
    BY <1>1, <1>7 DEF UnitsMove
  <2> DEFINE c == d * Cart[o][k]
  <2>5. g[o] = f[o] + c /\ c \in Int /\ stock'[k] = stock[k] - c
    BY <2>2, <2>4
  <2> HIDE DEF f, g, c
  <2>6. SumFunctionOnSet(g, Orders) = SumFunctionOnSet(f, Orders) + g[o] - f[o]
    BY <2>3, OrdersAssumption, SumChange
  <2>7. f[o] \in Int
    BY <2>3
  <2> QED
    BY <1>3, <1>5, <2>4, <2>5, <2>6, <2>7
<1> QED
  BY <1>6, <1>7

\* Taking and giving back are such moves.
LEMMA TakesAndGives ==
  ASSUME TypeOK, NEW o \in Orders, NEW l \in Lines, TakeUnits(o, l) \/ GiveUnits(o, l)
  PROVE  \E d \in {-1, 1} : UnitsMove(o, l, d)
<1>1. Cart[o][l] \in Nat /\ stock[l] \in Nat /\ taken[o][l] \in Int
  BY CartIsNat DEF TypeOK
<1>2. CASE TakeUnits(o, l)
  <2>1. 1 * Cart[o][l] = Cart[o][l]
    BY <1>1
  <2>2. UnitsMove(o, l, 1)
    BY <1>2, <2>1 DEF TakeUnits, UnitsMove
  <2> QED
    BY <2>2
<1>3. CASE GiveUnits(o, l)
  <2>1. /\ stock[l] - (-1) * Cart[o][l] = stock[l] + Cart[o][l]
        /\ taken[o][l] + (-1) = taken[o][l] - 1
    BY <1>1
  <2>2. UnitsMove(o, l, -1)
    BY <1>3, <2>1 DEF GiveUnits, UnitsMove
  <2> QED
    BY <2>2
<1> QED
  BY <1>2, <1>3

\* The units of one line move, or none do.
LEMMA StepMovesUnits ==
  ASSUME NEW w \in Workers, Step(w)
  PROVE  \/ UNCHANGED <<stock, taken>>
         \/ \E l \in Lines : TakeUnits(req[w].order, l) \/ GiveUnits(req[w].order, l)
<1>1. CASE \E l \in Lines : ReserveLine(w, l) \/ ReserveReplyLost(w, l)
  BY <1>1 DEF ReserveLine, ReserveReplyLost
<1>2. CASE \E l \in Lines : RollBackLine(w, l)
  BY <1>2 DEF RollBackLine, shelf
<1>3. CASE \E l \in Lines : TakeLine(w, l)
  BY <1>3 DEF TakeLine, shelf
<1>4. CASE \E l \in Lines : GiveLine(w, l)
  BY <1>4 DEF GiveLine, shelf
<1>5. CASE \/ Validate(w) \/ RefuseSoldOut(w) \/ AnswerDuplicate(w) \/ PassDuplicate(w)
           \/ \E l \in Lines : ReserveRefused(w, l)
           \/ UploadProof(w) \/ UploadRefused(w)
           \/ RecordOrder(w) \/ RecordRefused(w) \/ RecordReplyLost(w)
           \/ RecordReceipt(w) \/ UndoOrder(w) \/ InsertCache(w) \/ FinishCheckout(w)
  BY <1>5 DEF Validate, RefuseSoldOut, AnswerDuplicate, PassDuplicate, ReserveRefused,
     UploadProof, UploadRefused, RecordOrder, RecordRefused, RecordReplyLost,
     RecordReceipt, UndoOrder, InsertCache, FinishCheckout, shelf
<1>6. CASE \/ SaveDecision(w) \/ SaveRefused(w) \/ MirrorDecision(w) \/ MirrorFailed(w)
           \/ DropRecord(w) \/ DropRefused(w) \/ ForgetOrder(w)
           \/ EditRecord(w) \/ EditCache(w)
  BY <1>6 DEF SaveDecision, SaveRefused, MirrorDecision, MirrorFailed, DropRecord,
     DropRefused, ForgetOrder, EditRecord, EditCache, shelf
<1> QED
  BY <1>1, <1>2, <1>3, <1>4, <1>5, <1>6 DEF Step

\* No other action touches the units.
LEMMA OthersMoveNoUnits ==
  ASSUME \/ \E w \in Workers, o \in Orders : Arrive(w, o)
         \/ \E l \in Lines : Toggle(l)
         \/ Restart \/ UNCHANGED vars
  PROVE  UNCHANGED <<stock, taken>>
<1>1. ASSUME NEW w \in Workers, NEW o \in Orders, Arrive(w, o)
      PROVE  UNCHANGED <<stock, taken>>
  BY <1>1 DEF Arrive, PostCheckout, PostWalkIn, RequestStatus, RequestDelete,
     RequestEdit, shelf
<1> QED
  BY <1>1 DEF Toggle, Restart, shelf, vars

\* Every step keeps the account.
LEMMA NextKeepsAccount == TypeOK /\ Accounted /\ [Next]_vars => Accounted'
<1> SUFFICES ASSUME TypeOK, Accounted, [Next]_vars PROVE Accounted'
  OBVIOUS
<1>1. CASE UNCHANGED <<stock, taken>>
  BY <1>1 DEF Accounted, UnitsTaken
<1>2. ASSUME NEW w \in Workers, Step(w) PROVE Accounted'
  <2>1. req[w].order \in Orders
    BY <1>2, StepIsBusy DEF TypeOK, WellFormed, Busy
  <2> QED
    BY <1>1, <1>2, <2>1, StepMovesUnits, TakesAndGives, MoveKeepsAccount
<1> QED
  BY <1>1, <1>2, OthersMoveNoUnits DEF Next

\* At the start nothing is taken.
LEMMA InitAccount == Init => Accounted
<1> SUFFICES ASSUME Init, NEW l \in Lines
             PROVE  stock[l] + UnitsTaken(l) = InitialStock[l]
  BY DEF Accounted
<1> DEFINE f == [o \in Orders |-> Cart[o][l] * taken[o][l]]
<1>1. DOMAIN f = Orders /\ \A o \in Orders : f[o] = 0
  BY CartIsNat DEF Init
<1> HIDE DEF f
<1>2. SumFunction(f) = 0
  BY <1>1, OrdersAssumption, SumZero DEF SumFunction
<1>3. UnitsTaken(l) = 0
  BY <1>2 DEF f, UnitsTaken
<1> QED
  BY <1>3, OrdersAssumption DEF Init

\* The account holds throughout.
LEMMA AlwaysAccounted == Spec => []Accounted
<1>1. TypeOK /\ Accounted /\ [Next]_vars => TypeOK' /\ Accounted'
  BY NextTyped, NextKeepsAccount
<1>2. Init => TypeOK /\ Accounted
  BY InitTyped, InitAccount
<1> QED
  BY <1>1, <1>2, PTL DEF Spec

\* What is out on a clean order is what was taken for it.
LEMMA CleanOrderOut ==
  ASSUME TypeOK, NEW o \in Orders, OrderInv(o), NEW l \in Lines
  PROVE  OutOnOrder(o, l) = Cart[o][l] * taken[o][l]
<1> DEFINE u  == [w \in Workers |-> Unrecorded(w, l)]
           ws == {w \in Workers : WorksOn(w, o)}
<1>1. Cart[o][l] \in Nat /\ taken[o][l] \in Int /\ Owed(o) \in Int
  BY CartIsNat DEF TypeOK, Owed
<1>2. \A w \in Workers : u[w] \in Int
  BY DEF Unrecorded
<1>3. IsFiniteSet(ws)
  BY OrdersAssumption, FS_Subset
<1>4. SumFunctionOnSet(u, ws) \in Int
  <2> HIDE DEF u
  <2> QED
    BY <1>2, <1>3, SumIsInt
<1>5. CASE l \notin LinesOf(o)
  <2>1. Cart[o][l] = 0
    BY <1>1, <1>5 DEF LinesOf
  <2> DEFINE n == SumFunctionOnSet(u, ws)
  <2>2. OutOnOrder(o, l) = 0 * (Owed(o) + n) /\ n \in Int
    BY <1>4, <2>1 DEF OutOnOrder
  <2> HIDE DEF n
  <2> QED
    BY <1>1, <2>1, <2>2
<1>6. CASE l \in LinesOf(o)
  <2>1. /\ ws = {} => taken[o][l] = Owed(o)
        /\ \A w \in ws : taken[o][l] = Owed(o) + u[w]
    BY <1>6 DEF OrderInv, Balanced
  <2>2. CASE ws = {}
    <3>1. SumFunctionOnSet(u, ws) = 0
      BY <2>2, SumEmpty
    <3> QED
      BY <1>1, <2>1, <2>2, <3>1 DEF OutOnOrder
  <2>3. CASE ws # {}
    <3>1. PICK w \in ws : TRUE
      BY <2>3
    <3>2. ws = {w}
      BY <3>1 DEF OrderInv, Alone
    <3>3. SumFunctionOnSet(u, ws) = u[w]
      <4> HIDE DEF u, ws
      <4>1. u[w] \in Int
        BY <1>2, <3>1 DEF ws
      <4> QED
        BY <3>2, <4>1, SumSingle
    <3> QED
      BY <2>1, <3>1, <3>3 DEF OutOnOrder
  <2> QED
    BY <2>2, <2>3
<1> QED
  BY <1>5, <1>6

\* Where nothing has gone wrong the account and the books say the same.
LEMMA BooksAddUp == Inductive /\ Accounted => UnitsConserved
<1> SUFFICES ASSUME Inductive, Accounted, \A o \in Orders : causes[o] = {},
                    NEW l \in Lines
             PROVE  stock[l] + SumFunction([o \in Orders |-> OutOnOrder(o, l)])
                       = InitialStock[l]
  BY DEF UnitsConserved
<1>1. \A o \in Orders : OutOnOrder(o, l) = Cart[o][l] * taken[o][l]
  BY CleanOrderOut DEF Inductive, Clean
<1>2. [o \in Orders |-> OutOnOrder(o, l)] = [o \in Orders |-> Cart[o][l] * taken[o][l]]
  BY <1>1
<1> QED
  BY <1>2 DEF Accounted, UnitsTaken

(***************************************************************************)
(* No unit is created or lost: while nothing has gone wrong with any order *)
(* the shelf, the units the rows record and the units in the hands of      *)
(* running requests add up to the initial stock, for every number of       *)
(* orders, lines and threads.                                              *)
(***************************************************************************)
THEOREM UnitsAlwaysConserved == Spec => []UnitsConserved
  BY AlwaysInductive, AlwaysAccounted, BooksAddUp, PTL

(***************************************************************************)
(* Retried checkouts never sell a unit twice: `Covered` of OrderProperties *)
(* is an inductive invariant of a shop without decisions and deletions,    *)
(* whose record of an order never lands unnoticed and can be undone.       *)
(***************************************************************************)
RetriesOnly ==
    /\ AdminMoves = {} /\ CanDelete = FALSE
    /\ "order" \notin Losable /\ "undo" \notin Refusable

\* The claims on a line are counted.
LEMMA ClaimsAre ==
  ASSUME NEW o, NEW l
  PROVE  /\ Claims(o, l) = SumFunctionOnSet([w \in Workers |-> Claim(w, o, l)], Workers)
         /\ Claims(o, l) \in Nat
         /\ \A w \in Workers : Claim(w, o, l) \in {0, 1} /\ Claim(w, o, l) <= Claims(o, l)
<1> DEFINE f == [w \in Workers |-> Claim(w, o, l)]
<1>1. /\ DOMAIN f = Workers
      /\ \A w \in Workers : f[w] = Claim(w, o, l) /\ f[w] \in {0, 1}
  BY DEF Claim
<1> HIDE DEF f
<1>2. /\ SumFunctionOnSet(f, Workers) \in Nat
      /\ \A w \in Workers : f[w] <= SumFunctionOnSet(f, Workers)
  BY <1>1, OrdersAssumption, SumIsNat
<1>3. Claims(o, l) = SumFunctionOnSet(f, Workers)
  BY <1>1 DEF Claims, SumFunction, f
<1> QED
  BY <1>1, <1>2, <1>3 DEF f

\* One worker's term of a sum changes.
LEMMA WorkerSum ==
  ASSUME NEW f, NEW g, NEW w \in Workers,
         \A v \in Workers : f[v] \in Int /\ g[v] \in Int,
         \A v \in Workers : v # w => g[v] = f[v]
  PROVE  SumFunctionOnSet(g, Workers) = SumFunctionOnSet(f, Workers) + g[w] - f[w]
<1>1. IsFiniteSet(Workers)
  BY OrdersAssumption
<1> QED
  BY <1>1, SumChange

\* A step of one worker changes its own claim only.
LEMMA ClaimsNext ==
  ASSUME NEW w \in Workers, NEW o, NEW l, OthersWait(w)
  PROVE  /\ Claims(o, l)' \in Nat
         /\ Claims(o, l)' = Claims(o, l) + Claim(w, o, l)' - Claim(w, o, l)
<1> DEFINE f == [v \in Workers |-> Claim(v, o, l)]
           g == [v \in Workers |-> Claim(v, o, l)']
<1>1. /\ \A v \in Workers : f[v] = Claim(v, o, l) /\ f[v] \in Int
      /\ \A v \in Workers : g[v] = Claim(v, o, l)' /\ g[v] \in Nat
  BY DEF Claim
<1>2. \A v \in Workers \ {w} : g[v] = f[v]
  BY DEF Claim, Recording, WorksOn, Busy, OthersWait
<1>3. Claims(o, l) = SumFunctionOnSet(f, Workers)
  BY ClaimsAre
<1>4. Claims(o, l)' = SumFunctionOnSet(g, Workers)
  BY DEF Claims, SumFunction
<1> HIDE DEF f, g
<1>b. /\ \A v \in Workers : f[v] \in Int /\ g[v] \in Int
      /\ \A v \in Workers : v # w => g[v] = f[v]
  BY <1>1, <1>2
<1>5. SumFunctionOnSet(g, Workers) = SumFunctionOnSet(f, Workers) + g[w] - f[w]
  BY <1>b, WorkerSum
<1>6. SumFunctionOnSet(g, Workers) \in Nat
  BY <1>1, OrdersAssumption, SumIsNat
<1> QED
  BY <1>1, <1>3, <1>4, <1>5, <1>6

\* What Covered says of one line of one order.
LineCovered(o, l) ==
    /\ taken[o][l] >= Claims(o, l) + Cached(o)
    /\ RecordAlone(o) => taken[o][l] >= Claims(o, l) + 1

\* A step of w is no concern of order p.
Elsewhere(w, p) ==
    /\ OthersWait(w) /\ ~WorksOn(w, p) /\ ~WorksOn(w, p)'
    /\ taken'[p] = taken[p] /\ table'[p] = table[p] /\ cache'[p] = cache[p]

\* An order that the step does not concern stays covered.
LEMMA ElsewhereKept ==
  ASSUME NEW w \in Workers, NEW p \in Orders, NEW l \in Lines, LineCovered(p, l),
         Elsewhere(w, p)
  PROVE  LineCovered(p, l)'
<1>1. Claim(w, p, l) = 0 /\ Claim(w, p, l)' = 0
  BY DEF Claim, Recording, Elsewhere
<1>a. OthersWait(w)
  BY DEF Elsewhere
<1>b. Claims(p, l)' = Claims(p, l) + Claim(w, p, l)' - Claim(w, p, l)
  BY <1>a, ClaimsNext
<1>c. Claims(p, l) \in Nat
  BY ClaimsAre
<1>2. Claims(p, l)' = Claims(p, l)
  BY <1>1, <1>b, <1>c
<1>3. Cached(p)' = Cached(p)
  BY DEF Cached, Elsewhere
<1>4. RecordAlone(p)' => RecordAlone(p)
  BY DEF RecordAlone, Recording, WorksOn, Busy, Elsewhere, OthersWait
<1> QED
  BY <1>2, <1>3, <1>4 DEF LineCovered, Elsewhere

\* A step that claims no more than it takes, and leaves no row alone that was
\* not alone, where the cache keeps what it has.
LEMMA QuietCovered ==
  ASSUME TypeOK, NEW w \in Workers, NEW o \in Orders, NEW l \in Lines,
         LineCovered(o, l), OthersWait(w),
         taken'[o][l] \in Int,
         taken'[o][l] - taken[o][l] >= Claim(w, o, l)' - Claim(w, o, l),
         cache'[o] = NoRow <=> cache[o] = NoRow,
         RecordAlone(o)' => RecordAlone(o)
  PROVE  LineCovered(o, l)'
<1>1. /\ Claims(o, l)' = Claims(o, l) + Claim(w, o, l)' - Claim(w, o, l)
      /\ Claims(o, l)' \in Nat
  BY ClaimsNext
<1>2. Claims(o, l) \in Nat
  BY ClaimsAre
<1>3. Claim(w, o, l) \in Int /\ Claim(w, o, l)' \in Int
  BY DEF Claim
<1>4. taken[o][l] \in Int
  BY DEF TypeOK
<1>5. Cached(o)' = Cached(o) /\ Cached(o) \in Nat
  BY DEF Cached
<1> DEFINE t == taken[o][l]  u == taken'[o][l]
           n == Claims(o, l)  m == Claims(o, l)'
           c == Claim(w, o, l)  d == Claim(w, o, l)'
<1>6. t \in Int /\ u \in Int /\ n \in Nat /\ m \in Nat /\ c \in Int /\ d \in Int
      /\ m = n + d - c /\ u - t >= d - c
  BY <1>1, <1>2, <1>3, <1>4
<1>7. t >= n + Cached(o) /\ (RecordAlone(o) => t >= n + 1)
  BY DEF LineCovered
<1> SUFFICES u >= m + Cached(o)' /\ (RecordAlone(o)' => u >= m + 1)
  BY DEF LineCovered
<1> HIDE DEF t, u, n, m, c, d
<1> QED
  BY <1>5, <1>6, <1>7

\* The record stays alone only if it was: w still records or does not stop.
LEMMA AloneBefore ==
  ASSUME NEW w \in Workers, NEW o \in Orders, OthersWait(w),
         cache'[o] = NoRow <=> cache[o] = NoRow,
         table'[o] = NoRow <=> table[o] = NoRow,
         Recording(w, o) => Recording(w, o)'
  PROVE  RecordAlone(o)' => RecordAlone(o)
  BY DEF RecordAlone, Recording, WorksOn, Busy, OthersWait

\* The same where no unit moves.
LEMMA StillCovered ==
  ASSUME TypeOK, NEW w \in Workers, NEW o \in Orders, NEW l \in Lines,
         LineCovered(o, l), OthersWait(w),
         taken' = taken, Claim(w, o, l)' <= Claim(w, o, l),
         cache'[o] = NoRow <=> cache[o] = NoRow,
         RecordAlone(o)' => RecordAlone(o)
  PROVE  LineCovered(o, l)'
<1>1. taken[o][l] \in Int /\ Claim(w, o, l) \in Int /\ Claim(w, o, l)' \in Int
  BY DEF Claim, TypeOK
<1>2. taken'[o][l] - taken[o][l] >= Claim(w, o, l)' - Claim(w, o, l)
  BY <1>1
<1>3. taken'[o][l] \in Int
  BY <1>1
<1> QED
  BY <1>2, <1>3, QuietCovered

\* A request that ends its claim has left one unit for the row it wrote.
LEMMA ReleasedCovered ==
  ASSUME TypeOK, NEW w \in Workers, NEW o \in Orders, NEW l \in Lines,
         LineCovered(o, l), OthersWait(w), taken' = taken,
         Claim(w, o, l) = 1, Claim(w, o, l)' = 0
  PROVE  LineCovered(o, l)'
<1>1. /\ Claims(o, l)' = Claims(o, l) + Claim(w, o, l)' - Claim(w, o, l)
      /\ Claims(o, l)' \in Nat
  BY ClaimsNext
<1>2. Claims(o, l) \in Nat
  BY ClaimsAre
<1>3. Cached(o)' \in {0, 1} /\ Cached(o) \in {0, 1}
  BY DEF Cached
<1>4. taken[o][l] \in Int /\ taken[o][l] >= Claims(o, l) + Cached(o)
  BY DEF TypeOK, LineCovered
<1>5. taken[o][l] >= Claims(o, l)' + 1
  BY <1>1, <1>2, <1>3, <1>4
<1>6. taken[o][l] >= Claims(o, l)' + Cached(o)'
  BY <1>1, <1>3, <1>4, <1>5
<1> QED
  BY <1>5, <1>6 DEF LineCovered

\* The claim of a request that is at pc with some lines in hand.
LEMMA ClaimThen ==
  ASSUME NEW w \in Workers, NEW o, NEW l, NEW pc, NEW row, NEW todo, NEW held,
         Moved(w, pc, row, todo, held), req[w].order = o, pc # "idle"
  PROVE  /\ Recording(w, o)' <=> pc \in {"receipt", "undo", "insert"}
         /\ Claim(w, o, l)' = IF pc \in {"receipt", "undo", "insert"} \/ l \in held
                              THEN 1 ELSE 0
BY DEF Moved, Claim, Recording, WorksOn, Busy

\* A request that has been answered claims nothing.
LEMMA ClaimEnded ==
  ASSUME NEW w \in Workers, NEW o, NEW l, Ended(w)
  PROVE  ~Recording(w, o)' /\ Claim(w, o, l)' = 0
BY DEF Ended, Claim, Recording, WorksOn, Busy

\* A checkout that unwinds claims what it has still to give back.
LEMMA ClaimUnwinds ==
  ASSUME NEW w \in Workers, NEW o, NEW l, NEW held, req \in [Workers -> Request],
         Unwind(w, held), req[w].order = o
  PROVE  /\ OthersWait(w) /\ ~Recording(w, o)'
         /\ Claim(w, o, l)' = IF l \in held THEN 1 ELSE 0
         /\ CheckoutStage(req'[w])
         /\ req'[w].pc # "idle" => req'[w].order = o
<1>1. CASE held = {}
  <2>1. Ended(w)
    BY <1>1, UnwindMoves
  <2> QED
    BY <1>1, <2>1, ClaimEnded DEF Ended, CheckoutStage
<1>2. CASE held # {}
  <2>1. Moved(w, "rollback", req[w].row, {}, held)
    BY <1>2, UnwindMoves
  <2> QED
    BY <2>1, ClaimThen DEF Moved, CheckoutStage
<1> QED
  BY <1>1, <1>2

\* What a step of worker w on order o leaves of Covered.
Safe(w, o) ==
    CheckoutStage(req'[w]) /\ \A l \in LinesOf(o) : LineCovered(o, l)'

\* A step that leaves shelf and rows alone and claims nothing more.
LEMMA RestingStep ==
  ASSUME TypeOK, NEW w \in Workers, NEW o \in Orders, OthersWait(w),
         \A l \in LinesOf(o) : LineCovered(o, l),
         UNCHANGED <<taken, table, cache>>,
         Recording(w, o) => Recording(w, o)',
         \A l \in LinesOf(o) : Claim(w, o, l)' <= Claim(w, o, l)
  PROVE  \A l \in LinesOf(o) : LineCovered(o, l)'
<1>1. RecordAlone(o)' => RecordAlone(o)
  BY AloneBefore
<1>2. \A l \in LinesOf(o) : l \in Lines
  BY DEF LinesOf
<1> QED
  BY <1>1, <1>2, StillCovered

\* A checkout that has nothing in hand yet, or refuses.
LEMMA LookingSteps ==
  ASSUME TypeOK, NEW w \in Workers, NEW o \in Orders, WorksOn(w, o),
         CheckoutStage(req[w]), \A l \in LinesOf(o) : LineCovered(o, l)
  PROVE  /\ Validate(w) => Safe(w, o)
         /\ RefuseSoldOut(w) => Safe(w, o)
         /\ AnswerDuplicate(w) => Safe(w, o)
         /\ PassDuplicate(w) => Safe(w, o)
         /\ UploadProof(w) => Safe(w, o)
<1>a. req \in [Workers -> Request] /\ req[w].order = o
  BY DEF TypeOK, WorksOn
<1>1. ASSUME Validate(w) PROVE Safe(w, o)
  <2>1. Moved(w, "lookup", req[w].row, req[w].todo, req[w].moved)
    BY <1>1, <1>a, GotoMoves DEF Validate
  <2>2. /\ \A l \in LinesOf(o) : Claim(w, o, l)' <= Claim(w, o, l)
        /\ ~Recording(w, o) /\ OthersWait(w)
    BY <1>1, <1>a, <2>1 DEF Validate, Moved, Claim, Recording, WorksOn, Busy
  <2>3. CheckoutStage(req'[w])
    BY <1>1, <2>1 DEF Validate, Moved, CheckoutStage
  <2> QED
    BY <1>1, <2>2, <2>3, RestingStep DEF Validate, Safe, shelf, stores
<1>2. ASSUME RefuseSoldOut(w) \/ AnswerDuplicate(w) PROVE Safe(w, o)
  <2>1. Ended(w)
    BY <1>2, <1>a, AnswerEnds DEF RefuseSoldOut, AnswerDuplicate
  <2>2. /\ \A l \in LinesOf(o) : Claim(w, o, l)' <= Claim(w, o, l)
        /\ ~Recording(w, o) /\ OthersWait(w)
    BY <1>2, <2>1 DEF RefuseSoldOut, AnswerDuplicate, Ended, Claim, Recording,
       WorksOn, Busy
  <2>3. CheckoutStage(req'[w])
    BY <2>1 DEF Ended, CheckoutStage
  <2> QED
    BY <1>2, <2>2, <2>3, RestingStep DEF RefuseSoldOut, AnswerDuplicate, Safe,
       shelf, stores
<1>3. ASSUME PassDuplicate(w) PROVE Safe(w, o)
  <2>1. Moved(w, "reserve", req[w].row, LinesOf(o), req[w].moved)
    BY <1>3, <1>a DEF PassDuplicate, Become, Moved, OthersWait, Request
  <2>2. /\ \A l \in LinesOf(o) : Claim(w, o, l)' <= Claim(w, o, l)
        /\ ~Recording(w, o) /\ OthersWait(w)
    BY <1>3, <1>a, <2>1 DEF PassDuplicate, Moved, Claim, Recording, WorksOn, Busy
  <2>3. CheckoutStage(req'[w])
    BY <1>3, <1>a, <2>1 DEF PassDuplicate, Moved, CheckoutStage
  <2> QED
    BY <1>3, <2>2, <2>3, RestingStep DEF PassDuplicate, Safe, shelf, stores
<1>4. ASSUME UploadProof(w) PROVE Safe(w, o)
  <2>1. Moved(w, "record", req[w].row, req[w].todo, req[w].moved)
    BY <1>4, <1>a DEF UploadProof, Become, Moved, OthersWait, Request
  <2>2. /\ \A l \in LinesOf(o) : Claim(w, o, l)' <= Claim(w, o, l)
        /\ ~Recording(w, o) /\ OthersWait(w)
    BY <1>4, <1>a, <2>1 DEF UploadProof, Moved, Claim, Recording, WorksOn, Busy
  <2>3. CheckoutStage(req'[w])
    BY <1>4, <1>a, <2>1 DEF UploadProof, Moved, CheckoutStage
  <2> QED
    BY <1>4, <2>2, <2>3, RestingStep DEF UploadProof, Safe, shelf, stores
<1> QED
  BY <1>1, <1>2, <1>3, <1>4

\* A checkout that must give back keeps its claims until it has.
LEMMA RefusedSteps ==
  ASSUME TypeOK, NEW w \in Workers, NEW o \in Orders, WorksOn(w, o),
         CheckoutStage(req[w]), \A l \in LinesOf(o) : LineCovered(o, l)
  PROVE  /\ \A l \in Lines : ReserveRefused(w, l) => Safe(w, o)
         /\ UploadRefused(w) => Safe(w, o)
         /\ RecordRefused(w) => Safe(w, o)
<1>a. req \in [Workers -> Request] /\ req[w].order = o
  BY DEF TypeOK, WorksOn
<1>1. ASSUME Unwind(w, req[w].moved), UNCHANGED <<shelf, stores>>,
             req[w].pc \in {"reserve", "proof", "record"}
      PROVE  Safe(w, o)
  <2>1. /\ OthersWait(w) /\ ~Recording(w, o) /\ CheckoutStage(req'[w])
        /\ \A l : Claim(w, o, l)' = IF l \in req[w].moved THEN 1 ELSE 0
    BY <1>1, <1>a, ClaimUnwinds DEF Recording
  <2>2. \A l \in LinesOf(o) : Claim(w, o, l)' <= Claim(w, o, l)
    BY <2>1 DEF Claim
  <2> QED
    BY <1>1, <2>1, <2>2, RestingStep DEF Safe, shelf, stores
<1> QED
  BY <1>1 DEF ReserveRefused, UploadRefused, RecordRefused

\* A step that moves units and leaves the rows alone.
LEMMA MovingStep ==
  ASSUME TypeOK, NEW w \in Workers, NEW o \in Orders, OthersWait(w),
         \A l \in LinesOf(o) : LineCovered(o, l),
         UNCHANGED <<table, cache>>, taken' \in [Orders -> [Lines -> Int]],
         Recording(w, o) => Recording(w, o)',
         \A l \in LinesOf(o) :
            taken'[o][l] - taken[o][l] >= Claim(w, o, l)' - Claim(w, o, l)
  PROVE  \A l \in LinesOf(o) : LineCovered(o, l)'
<1>1. RecordAlone(o)' => RecordAlone(o)
  BY AloneBefore
<1>2. \A l \in LinesOf(o) : l \in Lines /\ taken'[o][l] \in Int
  BY DEF LinesOf
<1> QED
  BY <1>1, <1>2, QuietCovered

\* Reserving claims what it takes, giving back releases what it returns; a
\* lost reply takes a unit that nobody claims.
LEMMA ReservingSteps ==
  ASSUME TypeOK, TypeOK', NEW w \in Workers, NEW o \in Orders, WorksOn(w, o),
         CheckoutStage(req[w]), \A l \in LinesOf(o) : LineCovered(o, l)
  PROVE  /\ \A l \in Lines : ReserveLine(w, l) => Safe(w, o)
         /\ \A l \in Lines : ReserveReplyLost(w, l) => Safe(w, o)
         /\ \A l \in Lines : RollBackLine(w, l) => Safe(w, o)
<1>a. /\ req \in [Workers -> Request] /\ req[w].order = o
      /\ taken \in [Orders -> [Lines -> Int]] /\ taken' \in [Orders -> [Lines -> Int]]
      /\ req[w].todo \in SUBSET Lines
  BY DEF TypeOK, WorksOn, Request
<1>b. \A k \in LinesOf(o) : k \in Lines /\ taken[o][k] \in Int
  BY <1>a DEF LinesOf
<1>1. ASSUME NEW l \in Lines, ReserveLine(w, l) PROVE Safe(w, o)
  <2> DEFINE pc == IF req[w].todo \ {l} # {} THEN "reserve"
                   ELSE IF o \in WalkIns THEN "record" ELSE "proof"
  <2>1. Moved(w, pc, req[w].row, req[w].todo \ {l}, req[w].moved \cup {l})
    BY <1>1, <1>a DEF ReserveLine, Become, Moved, OthersWait, Request
  <2>2. req[w].todo \cup req[w].moved = LinesOf(o) /\ req[w].pc = "reserve"
        /\ l \in req[w].todo
    BY <1>1, <1>a DEF ReserveLine, CheckoutStage
  <2>3. CheckoutStage(req'[w])
    BY <1>a, <2>1, <2>2 DEF Moved, CheckoutStage
  <2>4. /\ ~Recording(w, o) /\ OthersWait(w)
        /\ \A k : Claim(w, o, k)' = IF k \in req[w].moved \cup {l} THEN 1 ELSE 0
        /\ \A k : Claim(w, o, k)  = IF k \in req[w].moved THEN 1 ELSE 0
    BY <1>a, <2>1, <2>2 DEF Moved, Claim, Recording, WorksOn, Busy
  <2>5. \A k \in LinesOf(o) : taken'[o][k] = taken[o][k] + IF k = l THEN 1 ELSE 0
    BY <1>1, <1>a, <1>b DEF ReserveLine, TakeUnits
  <2>6. \A k \in LinesOf(o) :
           taken'[o][k] - taken[o][k] >= Claim(w, o, k)' - Claim(w, o, k)
    BY <1>b, <2>4, <2>5
  <2>7. UNCHANGED <<table, cache>>
    BY <1>1 DEF ReserveLine, stores
  <2> QED
    BY <1>a, <2>3, <2>4, <2>6, <2>7, MovingStep DEF Safe
<1>2. ASSUME NEW l \in Lines, ReserveReplyLost(w, l) PROVE Safe(w, o)
  <2>1. Unwind(w, req[w].moved) /\ req[w].pc = "reserve" /\ UNCHANGED <<table, cache>>
    BY <1>2 DEF ReserveReplyLost, stores
  <2>2. /\ OthersWait(w) /\ ~Recording(w, o) /\ CheckoutStage(req'[w])
        /\ \A k : Claim(w, o, k)' = IF k \in req[w].moved THEN 1 ELSE 0
    BY <1>a, <2>1, ClaimUnwinds DEF Recording
  <2>3. \A k : Claim(w, o, k) = IF k \in req[w].moved THEN 1 ELSE 0
    BY <2>1, <2>2 DEF Claim
  <2>4. \A k \in LinesOf(o) : taken'[o][k] = taken[o][k] + IF k = l THEN 1 ELSE 0
    BY <1>2, <1>a, <1>b DEF ReserveReplyLost, TakeUnits
  <2>5. \A k \in LinesOf(o) :
           taken'[o][k] - taken[o][k] >= Claim(w, o, k)' - Claim(w, o, k)
    BY <1>b, <2>2, <2>3, <2>4
  <2> QED
    BY <1>a, <2>1, <2>2, <2>5, MovingStep DEF Safe
<1>3. ASSUME NEW l \in Lines, RollBackLine(w, l) PROVE Safe(w, o)
  <2>1. /\ Unwind(w, req[w].moved \ {l}) /\ req[w].pc = "rollback"
        /\ l \in req[w].moved /\ UNCHANGED <<table, cache>>
    BY <1>3 DEF RollBackLine, stores
  <2> DEFINE held == req[w].moved \ {l}
  <2>a. Unwind(w, held)
    BY <2>1
  <2> HIDE DEF held
  <2>b. /\ OthersWait(w) /\ ~Recording(w, o) /\ CheckoutStage(req'[w])
        /\ \A k : Claim(w, o, k)' = IF k \in held THEN 1 ELSE 0
    BY <1>a, <2>1, <2>a, ClaimUnwinds DEF Recording
  <2>2. /\ OthersWait(w) /\ ~Recording(w, o) /\ CheckoutStage(req'[w])
        /\ \A k : Claim(w, o, k)' = IF k \in req[w].moved \ {l} THEN 1 ELSE 0
    BY <2>b DEF held
  <2>3. \A k : Claim(w, o, k) = IF k \in req[w].moved THEN 1 ELSE 0
    BY <2>1, <2>2 DEF Claim
  <2>4. \A k \in LinesOf(o) : \/ taken'[o][k] = taken[o][k] - IF k = l THEN 1 ELSE 0
                              \/ taken'[o][k] = taken[o][k]
    BY <1>3, <1>a, <1>b DEF RollBackLine, GiveUnits, shelf
  <2>5. \A k \in LinesOf(o) :
           taken'[o][k] - taken[o][k] >= Claim(w, o, k)' - Claim(w, o, k)
    BY <1>b, <2>1, <2>2, <2>3, <2>4
  <2> QED
    BY <1>a, <2>1, <2>2, <2>5, MovingStep DEF Safe
<1> QED
  BY <1>1, <1>2, <1>3

\* A step that rewrites rows but neither makes nor removes one.
LEMMA RewritingStep ==
  ASSUME TypeOK, NEW w \in Workers, NEW o \in Orders, OthersWait(w),
         \A l \in LinesOf(o) : LineCovered(o, l),
         taken' = taken,
         cache'[o] = NoRow <=> cache[o] = NoRow,
         table'[o] = NoRow <=> table[o] = NoRow,
         Recording(w, o) => Recording(w, o)',
         \A l \in LinesOf(o) : Claim(w, o, l)' <= Claim(w, o, l)
  PROVE  \A l \in LinesOf(o) : LineCovered(o, l)'
<1>1. RecordAlone(o)' => RecordAlone(o)
  BY AloneBefore
<1>2. \A l \in LinesOf(o) : l \in Lines
  BY DEF LinesOf
<1> QED
  BY <1>1, <1>2, StillCovered

\* The record of a checkout, and its way into the cache.
LEMMA RecordingSteps ==
  ASSUME RetriesOnly, TypeOK, NEW w \in Workers, NEW o \in Orders, WorksOn(w, o),
         CheckoutStage(req[w]), \A l \in LinesOf(o) : LineCovered(o, l)
  PROVE  /\ RecordOrder(w) => Safe(w, o)
         /\ RecordReceipt(w) => Safe(w, o)
         /\ UndoOrder(w) => Safe(w, o)
         /\ InsertCache(w) => Safe(w, o)
<1>a. req \in [Workers -> Request] /\ req[w].order = o
  BY DEF TypeOK, WorksOn
<1>b. \A l \in LinesOf(o) : l \in Lines
  BY DEF LinesOf
<1>1. ASSUME RecordOrder(w) PROVE Safe(w, o)
  <2>1. PICK pc \in {"receipt", "insert"} : Moved(w, pc, req[w].row, req[w].todo, {})
    <3>1. CASE req[w].proof
      BY <1>1, <1>a, <3>1 DEF RecordOrder, Become, Moved, OthersWait, Request
    <3>2. CASE ~req[w].proof
      BY <1>1, <1>a, <3>2 DEF RecordOrder, Become, Moved, OthersWait, Request
    <3> QED
      BY <3>1, <3>2
  <2>2. /\ OthersWait(w) /\ CheckoutStage(req'[w]) /\ Recording(w, o)'
        /\ \A l : Claim(w, o, l)' = 1
    BY <1>a, <2>1 DEF Moved, CheckoutStage, Recording, Claim, WorksOn, Busy
  <2>3. \A l \in LinesOf(o) : Claim(w, o, l) = 1
    BY <1>1, <1>a DEF RecordOrder, CheckoutStage, Claim
  <2>4. taken' = taken /\ cache' = cache
    BY <1>1 DEF RecordOrder, UpsertOrder, shelf
  <2>5. ~RecordAlone(o)'
    BY <2>2 DEF RecordAlone
  <2>6. \A l \in LinesOf(o) : Claim(w, o, l)' <= Claim(w, o, l)
    BY <2>2, <2>3
  <2> QED
    BY <1>b, <2>2, <2>4, <2>5, <2>6, StillCovered DEF Safe
<1>2. ASSUME RecordReceipt(w) PROVE Safe(w, o)
  <2>1. PICK pc \in {"undo", "insert"} :
           Moved(w, pc, req[w].row, req[w].todo, req[w].moved)
    BY <1>2, <1>a, GotoMoves DEF RecordReceipt
  <2>2. /\ OthersWait(w) /\ CheckoutStage(req'[w]) /\ Recording(w, o)'
        /\ \A l : Claim(w, o, l)' = 1 /\ Claim(w, o, l) = 1
    BY <1>2, <1>a, <2>1 DEF RecordReceipt, Moved, CheckoutStage, Recording, Claim,
       WorksOn, Busy
  <2> QED
    BY <1>2, <2>2, RestingStep DEF RecordReceipt, Safe, shelf, stores
<1>3. ASSUME UndoOrder(w) PROVE Safe(w, o)
  <2>1. /\ table' = [table EXCEPT ![o] = NoRow] /\ Unwind(w, LinesOf(o))
        /\ taken' = taken /\ cache' = cache /\ req[w].pc = "undo"
    BY <1>3, <1>a DEF UndoOrder, RetriesOnly, shelf
  <2>2. table'[o] = NoRow
    BY <2>1 DEF TypeOK
  <2>3. /\ OthersWait(w) /\ CheckoutStage(req'[w])
        /\ \A l \in LinesOf(o) : Claim(w, o, l)' = 1
    BY <1>a, <2>1, ClaimUnwinds
  <2>4. \A l : Claim(w, o, l) = 1
    BY <2>1 DEF Claim, Recording
  <2>5. ~RecordAlone(o)'
    BY <2>2 DEF RecordAlone
  <2>6. \A l \in LinesOf(o) : Claim(w, o, l)' <= Claim(w, o, l)
    BY <2>3, <2>4
  <2> QED
    BY <1>b, <2>1, <2>3, <2>5, <2>6, StillCovered DEF Safe
<1>4. ASSUME InsertCache(w) PROVE Safe(w, o)
  <2>1. /\ OthersWait(w) /\ CheckoutStage(req'[w])
        /\ \A l : Claim(w, o, l)' = 0
    <3>1. req[w].moved = {}
      BY <1>4 DEF InsertCache, CheckoutStage
    <3>2. CASE Answer(w)
      BY <1>a, <3>2, AnswerEnds, ClaimEnded DEF Ended, CheckoutStage
    <3>3. CASE Goto(w, "referral")
      <4>1. Moved(w, "referral", req[w].row, req[w].todo, {})
        BY <1>a, <3>1, <3>3, GotoMoves
      <4> QED
        BY <1>a, <4>1 DEF Moved, CheckoutStage, Claim, Recording, WorksOn, Busy
    <3> QED
      BY <1>4, <3>2, <3>3 DEF InsertCache
  <2>2. \A l : Claim(w, o, l) = 1
    BY <1>4 DEF InsertCache, Claim, Recording
  <2>3. taken' = taken
    BY <1>4 DEF InsertCache, shelf
  <2> QED
    BY <1>b, <2>1, <2>2, <2>3, ReleasedCovered DEF Safe
<1> QED
  BY <1>1, <1>2, <1>3, <1>4

\* The last steps of a checkout, and the accounting edit, rewrite a row.
LEMMA RewritingSteps ==
  ASSUME TypeOK, NEW w \in Workers, NEW o \in Orders, WorksOn(w, o),
         CheckoutStage(req[w]), \A l \in LinesOf(o) : LineCovered(o, l)
  PROVE  /\ FinishCheckout(w) => Safe(w, o)
         /\ EditRecord(w) => Safe(w, o)
         /\ EditCache(w) => Safe(w, o)
<1>a. /\ req \in [Workers -> Request] /\ req[w].order = o
      /\ cache \in [Orders -> Row \cup {NoRow}] /\ table \in [Orders -> Row \cup {NoRow}]
      /\ req[w].row \in Row \cup {NoRow}
  BY DEF TypeOK, WorksOn, Request
<1>b. /\ \A row \in Row, b \in BOOLEAN : [row EXCEPT !.applied = b] # NoRow
      /\ req[w].row.applied \in BOOLEAN
  BY <1>a, RowsAreTyped, RowFacts
<1>c. ASSUME NEW store \in [Orders -> Row \cup {NoRow}]
      PROVE  WithPayload(store, o, req[w].row)[o] = NoRow <=> store[o] = NoRow
  BY <1>b DEF WithPayload
<1>1. ASSUME FinishCheckout(w) PROVE Safe(w, o)
  <2>1. Ended(w)
    BY <1>1, <1>a, AnswerEnds DEF FinishCheckout
  <2>2. /\ OthersWait(w) /\ ~Recording(w, o) /\ CheckoutStage(req'[w])
        /\ \A l : Claim(w, o, l)' <= Claim(w, o, l)
    BY <1>1, <2>1 DEF FinishCheckout, Ended, CheckoutStage, Recording, Claim,
       WorksOn, Busy
  <2>3. taken' = taken /\ table' = table
    BY <1>1 DEF FinishCheckout, shelf
  <2>4. cache'[o] = NoRow <=> cache[o] = NoRow
    BY <1>1, <1>a, <1>b DEF FinishCheckout
  <2> QED
    BY <2>2, <2>3, <2>4, RewritingStep DEF Safe
<1>2. ASSUME EditRecord(w) PROVE Safe(w, o)
  <2>1. Ended(w) \/ Moved(w, "editCache", req[w].row, req[w].todo, req[w].moved)
    BY <1>2, <1>a, AnswerEnds, GotoMoves DEF EditRecord
  <2>2. req[w].moved = {} /\ req[w].pc = "editRecord"
    BY <1>2 DEF EditRecord, CheckoutStage
  <2>3. /\ OthersWait(w) /\ ~Recording(w, o) /\ CheckoutStage(req'[w])
        /\ \A l : Claim(w, o, l)' <= Claim(w, o, l)
    BY <2>1, <2>2 DEF Ended, Moved, CheckoutStage, Recording, Claim, WorksOn, Busy
  <2>4. taken' = taken /\ cache' = cache
    BY <1>2 DEF EditRecord, shelf
  <2>5. table'[o] = NoRow <=> table[o] = NoRow
    BY <1>2, <1>a, <1>c DEF EditRecord
  <2> QED
    BY <2>3, <2>4, <2>5, RewritingStep DEF Safe
<1>3. ASSUME EditCache(w) PROVE Safe(w, o)
  <2>1. Ended(w)
    BY <1>3, <1>a, AnswerEnds DEF EditCache
  <2>2. /\ OthersWait(w) /\ ~Recording(w, o) /\ CheckoutStage(req'[w])
        /\ \A l : Claim(w, o, l)' <= Claim(w, o, l)
    BY <1>3, <2>1 DEF EditCache, Ended, CheckoutStage, Recording, Claim, WorksOn, Busy
  <2>3. taken' = taken /\ table' = table
    BY <1>3 DEF EditCache, shelf
  <2>4. cache'[o] = NoRow <=> cache[o] = NoRow
    BY <1>3, <1>a, <1>c DEF EditCache
  <2> QED
    BY <2>2, <2>3, <2>4, RewritingStep DEF Safe
<1> QED
  BY <1>1, <1>2, <1>3

\* No decision or deletion is under way, and every record that lands is noticed.
LEMMA NoOtherSteps ==
  ASSUME RetriesOnly, NEW w \in Workers, CheckoutStage(req[w])
  PROVE  /\ \A l \in Lines : ~TakeLine(w, l) /\ ~GiveLine(w, l)
         /\ ~SaveDecision(w) /\ ~SaveRefused(w) /\ ~MirrorDecision(w)
         /\ ~MirrorFailed(w) /\ ~DropRecord(w) /\ ~DropRefused(w) /\ ~ForgetOrder(w)
         /\ ~RecordReplyLost(w)
  BY DEF RetriesOnly, CheckoutStage, TakeLine, GiveLine, SaveDecision, SaveRefused,
     MirrorDecision, MirrorFailed, DropRecord, DropRefused, ForgetOrder, RecordReplyLost

\* Every step of a request leaves its own order covered.
LEMMA StepIsSafe ==
  ASSUME RetriesOnly, TypeOK, TypeOK', NEW w \in Workers, NEW o \in Orders,
         WorksOn(w, o), CheckoutStage(req[w]),
         \A l \in LinesOf(o) : LineCovered(o, l), Step(w)
  PROVE  Safe(w, o)
<1>1. CASE Validate(w) \/ RefuseSoldOut(w) \/ AnswerDuplicate(w) \/ PassDuplicate(w)
           \/ UploadProof(w)
  BY <1>1, LookingSteps
<1>2. CASE (\E l \in Lines : ReserveRefused(w, l)) \/ UploadRefused(w) \/ RecordRefused(w)
  BY <1>2, RefusedSteps
<1>3. CASE \E l \in Lines : ReserveLine(w, l) \/ ReserveReplyLost(w, l) \/ RollBackLine(w, l)
  BY <1>3, ReservingSteps
<1>4. CASE RecordOrder(w) \/ RecordReceipt(w) \/ UndoOrder(w) \/ InsertCache(w)
  BY <1>4, RecordingSteps
<1>5. CASE FinishCheckout(w) \/ EditRecord(w) \/ EditCache(w)
  BY <1>5, RewritingSteps
<1> QED
  BY <1>1, <1>2, <1>3, <1>4, <1>5, NoOtherSteps DEF Step

\* What is covered stays covered when one worker acts on one order.
LEMMA WithinCovers ==
  ASSUME Covered, NEW w \in Workers, NEW o \in Orders, Within(w, o),
         Busy(w) => req[w].order = o, Safe(w, o)
  PROVE  Covered'
<1>1. \A v \in Workers : CheckoutStage(req'[v])
  BY DEF Within, Safe, Covered
<1>2. ASSUME NEW p \in Orders, NEW l \in LinesOf(p) PROVE LineCovered(p, l)'
  <2>1. CASE p = o
    BY <2>1 DEF Safe
  <2>2. CASE p # o
    <3>1. Elsewhere(w, p)
      BY <2>2 DEF Elsewhere, Within, OthersWait, WorksOn, Busy
    <3>2. LineCovered(p, l)
      BY DEF Covered, ClaimsCovered, LineCovered
    <3>3. l \in Lines
      BY DEF LinesOf
    <3> QED
      BY <3>1, <3>2, <3>3, ElsewhereKept
  <2> QED
    BY <2>1, <2>2
<1> QED
  BY <1>1, <1>2 DEF Covered, ClaimsCovered, LineCovered

\* A request begins with no claim.
LEMMA ArrivalIsSafe ==
  ASSUME RetriesOnly, TypeOK, NEW w \in Workers, NEW o \in Orders,
         \A l \in LinesOf(o) : LineCovered(o, l), Arrive(w, o)
  PROVE  Safe(w, o) /\ ~Busy(w)
<1>1. ASSUME NEW r, Begin(w, o, r), r.moved = {}, r.order = o,
             r.pc \in {"validate", "editRecord"}
                \/ (r.pc = "reserve" /\ r.todo = LinesOf(o)),
             UNCHANGED <<taken, table, cache>>
      PROVE  Safe(w, o) /\ ~Busy(w)
  <2>1. ~Busy(w) /\ OthersWait(w) /\ req'[w] = r
    BY <1>1, BeginIs
  <2>2. CheckoutStage(req'[w])
    BY <1>1, <2>1 DEF CheckoutStage
  <2>3. ~Recording(w, o) /\ \A l : Claim(w, o, l)' <= Claim(w, o, l)
    BY <1>1, <2>1 DEF Recording, Claim, WorksOn
  <2> QED
    BY <1>1, <2>1, <2>2, <2>3, RestingStep DEF Safe
<1>2. CASE PostCheckout(w, o)
  <2> DEFINE r == [Idle EXCEPT !.pc = "validate", !.order = o]
  <2>1. r.order = o /\ r.moved = {} /\ r.pc = "validate"
    BY DEF Idle
  <2>2. Begin(w, o, r) /\ UNCHANGED <<taken, table, cache>>
    BY <1>2 DEF PostCheckout, shelf, stores
  <2> HIDE DEF r
  <2> QED
    BY <1>1, <2>1, <2>2
<1>3. CASE PostWalkIn(w, o)
  <2> DEFINE r == [Idle EXCEPT !.pc = "reserve", !.order = o, !.todo = LinesOf(o)]
  <2>1. r.order = o /\ r.moved = {} /\ r.pc = "reserve" /\ r.todo = LinesOf(o)
    BY DEF Idle
  <2>2. Begin(w, o, r) /\ UNCHANGED <<taken, table, cache>>
    BY <1>3 DEF PostWalkIn, shelf, stores
  <2> HIDE DEF r
  <2> QED
    BY <1>1, <2>1, <2>2
<1>4. CASE RequestEdit(w, o)
  <2>0. PICK row : row = table[o]
    OBVIOUS
  <2> DEFINE r == [Idle EXCEPT !.pc = "editRecord", !.order = o, !.row = row]
  <2>1. r.order = o /\ r.moved = {} /\ r.pc = "editRecord"
    BY DEF Idle
  <2>2. Begin(w, o, r) /\ UNCHANGED <<taken, table, cache>>
    BY <1>4, <2>0 DEF RequestEdit, shelf, stores
  <2> HIDE DEF r
  <2> QED
    BY <1>1, <2>1, <2>2
<1>5. ~RequestDelete(w, o) /\ \A new \in Statuses : ~RequestStatus(w, o, new)
  BY DEF RetriesOnly, RequestDelete, RequestStatus
<1> QED
  BY <1>2, <1>3, <1>4, <1>5 DEF Arrive

\* Nobody claims anything any more when the process has died, and a row that
\* is left was covered by a unit that its order has taken.
LEMMA RestartCovers ==
  ASSUME TypeOK, TypeOK', Covered, Restart
  PROVE  Covered'
<1>1. req' = [w \in Workers |-> Idle] /\ taken' = taken /\ table' = table
  BY DEF Restart, shelf
<1>2. \A w \in Workers : CheckoutStage(req'[w])
  BY <1>1 DEF CheckoutStage, Idle
<1>3. ASSUME NEW p \in Orders, NEW l \in LinesOf(p) PROVE LineCovered(p, l)'
  <2>1. LineCovered(p, l) /\ l \in Lines
    BY DEF Covered, ClaimsCovered, LineCovered, LinesOf
  <2>2. Claims(p, l) \in Nat /\ \A w \in Workers : Claim(w, p, l) <= Claims(p, l)
    BY ClaimsAre
  <2>3. taken[p][l] \in Int
    BY <2>1 DEF TypeOK
  <2>4. Claims(p, l)' = 0
    <3> DEFINE g == [w \in Workers |-> Claim(w, p, l)']
    <3>1. \A w \in Workers : g[w] = 0
      BY <1>1 DEF Claim, Recording, WorksOn, Busy, Idle
    <3>2. Claims(p, l)' = SumFunctionOnSet(g, Workers)
      BY DEF Claims, SumFunction
    <3> HIDE DEF g
    <3> QED
      BY <3>1, <3>2, OrdersAssumption, SumZero
  <2>5. taken[p][l] >= 0
    BY <2>1, <2>2, <2>3 DEF LineCovered, Cached
  <2>6. cache'[p] # NoRow \/ table'[p] # NoRow => taken[p][l] >= 1
    <3>1. cache'[p] \in {table[p], cache[p], NoRow}
      BY DEF Restart
    <3>2. CASE cache[p] # NoRow
      BY <2>1, <2>2, <2>3, <3>2 DEF LineCovered, Cached
    <3>3. CASE cache[p] = NoRow /\ table[p] # NoRow
      <4>1. CASE RecordAlone(p)
        BY <2>1, <2>2, <2>3, <4>1 DEF LineCovered
      <4>2. CASE ~RecordAlone(p)
        <5>1. PICK w \in Workers : Recording(w, p)
          BY <3>3, <4>2 DEF RecordAlone
        <5>2. Claim(w, p, l) = 1
          BY <5>1 DEF Claim
        <5>3. taken[p][l] >= Claims(p, l)
          BY <2>1, <2>2, <2>3 DEF LineCovered, Cached
        <5>4. Claim(w, p, l) <= Claims(p, l)
          BY <2>2
        <5> QED
          BY <2>2, <2>3, <5>2, <5>3, <5>4
      <4> QED
        BY <4>1, <4>2
    <3> QED
      BY <1>1, <3>1, <3>2, <3>3
  <2>7. taken'[p][l] >= Claims(p, l)' + Cached(p)'
    BY <1>1, <2>3, <2>4, <2>5, <2>6 DEF Cached
  <2>8. RecordAlone(p)' => taken'[p][l] >= Claims(p, l)' + 1
    BY <1>1, <2>3, <2>4, <2>6 DEF RecordAlone
  <2> QED
    BY <2>7, <2>8 DEF LineCovered
<1> QED
  BY <1>2, <1>3 DEF Covered, ClaimsCovered, LineCovered

\* At the start nobody claims anything and there is no row.
LEMMA InitCovers == Init => Covered
<1> SUFFICES ASSUME Init PROVE Covered
  OBVIOUS
<1>1. \A w \in Workers : CheckoutStage(req[w])
  BY DEF Init, CheckoutStage, Idle
<1>2. ASSUME NEW p \in Orders, NEW l \in LinesOf(p) PROVE LineCovered(p, l)
  <2>1. Claims(p, l) = 0
    <3> DEFINE f == [w \in Workers |-> Claim(w, p, l)]
    <3>1. \A w \in Workers : f[w] = 0
      BY DEF Init, Claim, Recording, WorksOn, Busy, Idle
    <3>2. Claims(p, l) = SumFunctionOnSet(f, Workers)
      BY DEF Claims, SumFunction
    <3> HIDE DEF f
    <3> QED
      BY <3>1, <3>2, OrdersAssumption, SumZero
  <2>2. taken[p][l] = 0 /\ Cached(p) = 0 /\ ~RecordAlone(p)
    BY DEF Init, LinesOf, Cached, RecordAlone
  <2> QED
    BY <2>1, <2>2 DEF LineCovered
<1> QED
  BY <1>1, <1>2 DEF Covered, ClaimsCovered, LineCovered

\* Every step keeps retried checkouts covered.
LEMMA NextCovers ==
  RetriesOnly /\ Inductive /\ Covered /\ [Next]_vars => Covered'
<1> SUFFICES ASSUME RetriesOnly, Inductive, Covered, [Next]_vars PROVE Covered'
  OBVIOUS
<1>1. TypeOK /\ TypeOK' /\ Posted /\ Books
  BY NextTyped DEF Inductive, Books
<1>2. ASSUME NEW w \in Workers, Step(w) PROVE Covered'
  <2> DEFINE o == req[w].order
  <2>1. o \in Orders /\ WorksOn(w, o) /\ Busy(w)
    BY <1>1, <1>2, StepIsBusy DEF TypeOK, WellFormed, WorksOn, Busy
  <2>2. Within(w, o)
    BY <1>1, <1>2, <2>1, StepsKeep
  <2>3. CheckoutStage(req[w]) /\ \A l \in LinesOf(o) : LineCovered(o, l)
    BY <2>1 DEF Covered, ClaimsCovered, LineCovered
  <2>4. Safe(w, o)
    BY <1>1, <1>2, <2>1, <2>3, StepIsSafe
  <2> QED
    BY <2>1, <2>2, <2>4, WithinCovers
<1>3. ASSUME NEW w \in Workers, NEW o \in Orders, Arrive(w, o) PROVE Covered'
  <2>1. Within(w, o)
    BY <1>1, <1>3, ArrivalsKeep
  <2>2. \A l \in LinesOf(o) : LineCovered(o, l)
    BY DEF Covered, ClaimsCovered, LineCovered
  <2>3. Safe(w, o) /\ ~Busy(w)
    BY <1>1, <1>3, <2>2, ArrivalIsSafe
  <2> QED
    BY <2>1, <2>3, WithinCovers
<1>4. ASSUME UNCHANGED <<taken, table, cache, req>> PROVE Covered'
  <2>1. \A p, l : Claims(p, l)' = Claims(p, l)
    BY <1>4 DEF Claims, Claim, Recording, WorksOn, Busy
  <2>2. \A p : (RecordAlone(p)' <=> RecordAlone(p)) /\ Cached(p)' = Cached(p)
    BY <1>4 DEF RecordAlone, Recording, WorksOn, Busy, Cached
  <2>3. ClaimsCovered'
    BY <1>4, <2>1, <2>2 DEF Covered, ClaimsCovered
  <2> QED
    BY <1>4, <2>3 DEF Covered, CheckoutStage
<1> QED
  BY <1>1, <1>2, <1>3, <1>4, RestartCovers DEF Next, Toggle, stores, vars

\* Retried checkouts, restarts, lost replies and refused writes leave every
\* order with a unit off the shelf for each of its claims and for its row.
THEOREM RetriesAlwaysCovered ==
  ASSUME RetriesOnly
  PROVE  Spec => []Covered
<1>1. Inductive /\ Covered /\ [Next]_vars => Covered'
  BY NextCovers
<1> QED
  BY <1>1, InitCovers, AlwaysInductive, PTL DEF Spec

\* What a row promises has been taken.
LEMMA OwedIsTaken ==
  ASSUME TypeOK, Covered, NEW o \in Orders, NEW l \in LinesOf(o)
  PROVE  Owed(o) <= taken[o][l]
<1>1. LineCovered(o, l) /\ taken[o][l] \in Int
  BY DEF TypeOK, Covered, ClaimsCovered, LineCovered, LinesOf
<1>2. Claims(o, l) \in Nat /\ \A w \in Workers : Claim(w, o, l) <= Claims(o, l)
  BY ClaimsAre
<1>3. CASE cache[o] # NoRow
  BY <1>1, <1>2, <1>3, OwedIs DEF LineCovered, Cached
<1>4. CASE cache[o] = NoRow /\ RecordAlone(o)
  BY <1>1, <1>2, <1>4, OwedIs DEF LineCovered
<1>5. CASE cache[o] = NoRow /\ table[o] # NoRow /\ ~RecordAlone(o)
  <2>1. PICK w \in Workers : Recording(w, o)
    BY <1>5 DEF RecordAlone
  <2>2. Claim(w, o, l) = 1
    BY <2>1 DEF Claim
  <2>3. Claim(w, o, l) <= Claims(o, l)
    BY <1>2
  <2>4. taken[o][l] >= Claims(o, l)
    BY <1>1, <1>2 DEF LineCovered, Cached
  <2> QED
    BY <1>1, <1>2, <2>2, <2>3, <2>4, OwedIs
<1>6. CASE cache[o] = NoRow /\ table[o] = NoRow
  <2>1. Owed(o) = 0
    BY <1>6, OwedIs, RowFacts
  <2> QED
    BY <1>1, <1>2, <2>1 DEF LineCovered, Cached
<1> QED
  BY <1>3, <1>4, <1>5, <1>6

\* More times a cart is more units.
LEMMA MoreTimes ==
  ASSUME NEW c \in Nat, NEW n \in {0, 1}, NEW t \in Int, n <= t
  PROVE  c * n \in Int /\ c * t \in Int /\ c * n <= c * t
<1>1. t \in Nat
  OBVIOUS
<1>2. c * t \in Nat
  BY <1>1
<1>3. CASE n = 0
  BY <1>2, <1>3
<1>4. CASE n = 1
  <2>1. t - 1 \in Nat
    BY <1>4
  <2>2. c * (t - 1) \in Nat
    BY <2>1
  <2>3. c * t = c * (t - 1) + c
    BY <2>1
  <2> QED
    BY <1>2, <1>4, <2>2, <2>3
<1> QED
  BY <1>3, <1>4

\* The shelf does not run below zero, so what the rows promise was there.
LEMMA CoveredIsEnough == TypeOK /\ Accounted /\ Covered => NeverOversold
<1> SUFFICES ASSUME TypeOK, Accounted, Covered, NEW l \in Lines
             PROVE  SumFunction([o \in Orders |-> Cart[o][l] * Owed(o)]) <= InitialStock[l]
  BY DEF NeverOversold
<1> DEFINE f == [o \in Orders |-> Cart[o][l] * Owed(o)]
           g == [o \in Orders |-> Cart[o][l] * taken[o][l]]
<1>1. \A o \in Orders : f[o] \in Int /\ g[o] \in Int /\ f[o] <= g[o]
  <2> TAKE o \in Orders
  <2>1. /\ Cart[o][l] \in Nat /\ taken[o][l] \in Int /\ Owed(o) \in {0, 1}
    BY CartIsNat, OwedIs DEF TypeOK
  <2>2. CASE l \in LinesOf(o)
    <3>1. Owed(o) <= taken[o][l]
      BY <2>2, OwedIsTaken
    <3>2. /\ Cart[o][l] * Owed(o) \in Int /\ Cart[o][l] * taken[o][l] \in Int
          /\ Cart[o][l] * Owed(o) <= Cart[o][l] * taken[o][l]
      BY <2>1, <3>1, MoreTimes
    <3> QED
      BY <3>2
  <2>3. CASE l \notin LinesOf(o)
    <3>1. Cart[o][l] = 0
      BY <2>1, <2>3 DEF LinesOf
    <3>2. Cart[o][l] * Owed(o) = 0 /\ Cart[o][l] * taken[o][l] = 0
      BY <2>1, <3>1
    <3> QED
      BY <3>2
  <2> QED
    BY <2>2, <2>3
<1>2. stock[l] \in Nat /\ InitialStock[l] \in Nat
  BY OrdersAssumption DEF TypeOK
<1>3. stock[l] + SumFunctionOnSet(g, Orders) = InitialStock[l]
  BY DEF Accounted, UnitsTaken, SumFunction
<1>4. SumFunction(f) = SumFunctionOnSet(f, Orders)
  BY DEF SumFunction
<1> HIDE DEF f, g
<1>5. SumFunctionOnSet(f, Orders) <= SumFunctionOnSet(g, Orders)
  BY <1>1, OrdersAssumption, SumMonotone
<1>6. SumFunctionOnSet(f, Orders) \in Int /\ SumFunctionOnSet(g, Orders) \in Int
  BY <1>1, OrdersAssumption, SumIsInt
<1>7. SumFunction(f) <= InitialStock[l]
  BY <1>2, <1>3, <1>4, <1>5, <1>6
<1> QED
  BY <1>7 DEF f

(***************************************************************************)
(* The units promised to orders never exceed what the shop had, for every  *)
(* number of orders, lines, threads, retries and restarts, whatever fails  *)
(* that RetriesOnly does not rule out.                                     *)
(***************************************************************************)
THEOREM RetriesNeverOversell ==
  ASSUME RetriesOnly
  PROVE  Spec => []NeverOversold
  BY RetriesAlwaysCovered, TypeCorrect, AlwaysAccounted, CoveredIsEnough, PTL

------------------------------------------------------------------------------
(***************************************************************************)
(* Decisions stand.  A checkout writes its record as pending, over one of  *)
(* the same id.  It gets that far only if SQLite had no row of the order,  *)
(* and a record that was decided has one: the decision was made on it, and *)
(* a restart brings it back.  Another request for the same order between   *)
(* the look and the write would break this, and so would a restart that    *)
(* restores only some of the records.                                      *)
(***************************************************************************)
OneAtATime == Exclusive = TRUE

RestoresAll ==
    \/ MaxRestarts = 0
    \/ "boot" \notin Refusable /\ Cardinality(Orders) <= RestoreLimit

Decided(row) == row.status \in {"confirmed", "declined"}

\* What a request that is about to write has seen still holds.
Informed(r) ==
    LET o == r.order IN
    /\ r.pc \in {"reserve", "proof", "record"} /\ o \notin WalkIns => cache[o] = NoRow
    /\ r.pc \in {"take", "give", "save", "mirror", "drop", "forget"} => cache[o] # NoRow
    /\ r.pc = "mirror" => r.row.status = r.goal
    /\ r.pc = "forget" => table[o] = NoRow

Known(o) == o \notin WalkIns /\ Decided(table[o]) => cache[o] # NoRow

Guarded(o) ==
    Alone(o) /\ Known(o) /\ \A w \in Workers : WorksOn(w, o) => Informed(req[w])

\* A step of w on order o, which is the only one on it.
Heeds(w, o) ==
    /\ Known(o)'
    /\ req'[w].pc # "idle" => Informed(req[w])'
    /\ Decided(table[o]) /\ table'[o].status = "pending" => req[w].goal = "pending"

\* A record that is there has a status, whatever is written over its payload.
LEMMA RowsStay ==
  /\ \A row \in Row : row.status \in Statuses /\ row # NoRow
  /\ \A row \in Row : \A b : [row EXCEPT !.applied = b].status = row.status
  /\ \A row, new : Synced(row, new).status = new
  /\ NoRow.status \notin Statuses /\ \A row : row.status \in Statuses => row # NoRow
  BY DEF Row, NoRow, Synced, Statuses

\* A step that leaves the records alone, and the request with what it knew.
LEMMA LookingHeeds ==
  ASSUME TypeOK, NEW w \in Workers, NEW o \in Orders, WorksOn(w, o), Known(o),
         Informed(req[w])
  PROVE  /\ Validate(w) => Heeds(w, o)
         /\ RefuseSoldOut(w) => Heeds(w, o)
         /\ AnswerDuplicate(w) => Heeds(w, o)
         /\ PassDuplicate(w) => Heeds(w, o)
         /\ UploadProof(w) => Heeds(w, o)
         /\ RecordReceipt(w) => Heeds(w, o)
         /\ SaveRefused(w) => Heeds(w, o)
<1>a. req \in [Workers -> Request] /\ req[w].order = o
  BY DEF TypeOK, WorksOn
<1>b. ASSUME UNCHANGED stores PROVE /\ Known(o)' /\ cache'[o] = cache[o] /\ table'[o] = table[o]
                                    /\ ~ (Decided(table[o]) /\ table'[o].status = "pending")
  BY <1>b DEF stores, Known, Decided
<1>1. ASSUME Validate(w) PROVE Heeds(w, o)
  <2>1. Moved(w, "lookup", req[w].row, req[w].todo, req[w].moved)
    BY <1>1, <1>a, GotoMoves DEF Validate
  <2> QED
    BY <1>1, <1>b, <2>1 DEF Validate, Heeds, Informed, Moved
<1>2. ASSUME RefuseSoldOut(w) \/ AnswerDuplicate(w) \/ SaveRefused(w) PROVE Heeds(w, o)
  <2>1. Ended(w)
    BY <1>2, <1>a, AnswerEnds DEF RefuseSoldOut, AnswerDuplicate, SaveRefused
  <2> QED
    BY <1>2, <1>b, <2>1 DEF RefuseSoldOut, AnswerDuplicate, SaveRefused, Heeds, Ended
<1>3. ASSUME PassDuplicate(w) PROVE Heeds(w, o)
  <2>1. Moved(w, "reserve", req[w].row, LinesOf(o), req[w].moved)
    BY <1>3, <1>a DEF PassDuplicate, Become, Moved, OthersWait, Request
  <2> QED
    BY <1>3, <1>a, <1>b, <2>1 DEF PassDuplicate, Heeds, Informed, Moved
<1>4. ASSUME UploadProof(w) PROVE Heeds(w, o)
  <2>1. Moved(w, "record", req[w].row, req[w].todo, req[w].moved)
    BY <1>4, <1>a DEF UploadProof, Become, Moved, OthersWait, Request
  <2> QED
    BY <1>4, <1>a, <1>b, <2>1 DEF UploadProof, Heeds, Informed, Moved
<1>5. ASSUME RecordReceipt(w) PROVE Heeds(w, o)
  <2>1. PICK pc \in {"insert", "undo"} :
           Moved(w, pc, req[w].row, req[w].todo, req[w].moved)
    BY <1>5, <1>a, GotoMoves DEF RecordReceipt
  <2> QED
    BY <1>5, <1>b, <2>1 DEF RecordReceipt, Heeds, Informed, Moved
<1> QED
  BY <1>1, <1>2, <1>3, <1>4, <1>5

\* Units move, or a checkout has to give them back.
LEMMA MovingHeeds ==
  ASSUME TypeOK, NEW w \in Workers, NEW o \in Orders, WorksOn(w, o), Known(o),
         Informed(req[w])
  PROVE  /\ \A l \in Lines : /\ ReserveLine(w, l) => Heeds(w, o)
                             /\ ReserveRefused(w, l) => Heeds(w, o)
                             /\ ReserveReplyLost(w, l) => Heeds(w, o)
                             /\ RollBackLine(w, l) => Heeds(w, o)
                             /\ TakeLine(w, l) => Heeds(w, o)
                             /\ GiveLine(w, l) => Heeds(w, o)
         /\ UploadRefused(w) => Heeds(w, o)
         /\ RecordRefused(w) => Heeds(w, o)
<1>a. req \in [Workers -> Request] /\ req[w].order = o
  BY DEF TypeOK, WorksOn
<1>b. ASSUME UNCHANGED stores PROVE /\ Known(o)' /\ cache'[o] = cache[o] /\ table'[o] = table[o]
                                    /\ ~ (Decided(table[o]) /\ table'[o].status = "pending")
  BY <1>b DEF stores, Known, Decided
<1>1. ASSUME NEW l \in Lines, ReserveLine(w, l) PROVE Heeds(w, o)
  <2> DEFINE rest == req[w].todo \ {l}
  <2>1. PICK pc \in {"reserve", "record", "proof"} :
           Moved(w, pc, req[w].row, rest, req[w].moved \cup {l})
    <3> DEFINE pc == IF rest # {} THEN "reserve"
                     ELSE IF o \in WalkIns THEN "record" ELSE "proof"
    <3>1. req' = [req EXCEPT ![w] = [req[w] EXCEPT !.pc = pc, !.todo = rest,
                                                   !.moved = req[w].moved \cup {l}]]
      BY <1>1, <1>a DEF ReserveLine, Become
    <3>2. pc \in {"reserve", "record", "proof"}
      OBVIOUS
    <3> HIDE DEF pc, rest
    <3>3. Moved(w, pc, req[w].row, rest, req[w].moved \cup {l})
      BY <1>a, <3>1 DEF Moved, OthersWait, Request
    <3> QED
      BY <3>2, <3>3
  <2> QED
    BY <1>1, <1>a, <1>b, <2>1 DEF ReserveLine, Heeds, Informed, Moved
<1>2. ASSUME NEW held, Unwind(w, held), UNCHANGED stores PROVE Heeds(w, o)
  <2>1. req'[w].pc \in {"idle", "rollback"}
    BY <1>2, <1>a, UnwindMoves DEF Ended, Moved
  <2> QED
    BY <1>2, <1>b, <2>1 DEF Heeds, Informed
<1>3. ASSUME NEW l \in Lines, ReserveRefused(w, l) \/ ReserveReplyLost(w, l) \/ RollBackLine(w, l)
      PROVE  Heeds(w, o)
  BY <1>2, <1>3 DEF ReserveRefused, ReserveReplyLost, RollBackLine
<1>4. ASSUME UploadRefused(w) \/ RecordRefused(w) PROVE Heeds(w, o)
  BY <1>2, <1>4 DEF UploadRefused, RecordRefused
<1>5. ASSUME NEW l \in Lines, TakeLine(w, l) \/ GiveLine(w, l) PROVE Heeds(w, o)
  <2>1. PICK done \in {{}, {l}} : Advance(w, l, done)
    BY <1>5 DEF TakeLine, GiveLine
  <2>2. /\ req'[w].pc \in {req[w].pc, "drop", "save"} /\ req'[w].order = o
        /\ req[w].pc \in {"take", "give"}
    BY <1>5, <1>a, <2>1, AdvanceMoves DEF Moved, TakeLine, GiveLine
  <2> QED
    BY <1>5, <1>a, <1>b, <2>2 DEF TakeLine, GiveLine, Heeds, Informed
<1> QED
  BY <1>1, <1>3, <1>4, <1>5

\* The writes of a checkout.
LEMMA CheckoutHeeds ==
  ASSUME TypeOK, NEW w \in Workers, NEW o \in Orders, WorksOn(w, o), Known(o),
         Informed(req[w])
  PROVE  /\ RecordOrder(w) => Heeds(w, o)
         /\ RecordReplyLost(w) => Heeds(w, o)
         /\ UndoOrder(w) => Heeds(w, o)
         /\ InsertCache(w) => Heeds(w, o)
         /\ FinishCheckout(w) => Heeds(w, o)
<1>a. req \in [Workers -> Request] /\ req[w].order = o /\ table[o] \in Row \cup {NoRow}
      /\ cache[o] \in Row \cup {NoRow}
  BY DEF TypeOK, WorksOn
<1>b. /\ ~ Decided(NoRow) /\ ~ Decided(PlacedRow) /\ NoRow.status # "pending"
      /\ WalkInRow.status # "pending" /\ \A p : NewRow(p) # NoRow
  BY DEF Decided, NoRow, PlacedRow, WalkInRow, NewRow
<1>1. ASSUME UpsertOrder(o), req[w].pc = "record",
             req'[w].pc \in {"receipt", "insert", "idle", "rollback"}
      PROVE  Heeds(w, o)
  <2>1. table'[o] = NewRow(o) /\ cache' = cache
    BY <1>1 DEF UpsertOrder, TypeOK
  <2>2. CASE o \in WalkIns
    BY <1>1, <1>b, <2>1, <2>2 DEF Heeds, Known, Informed, NewRow
  <2>3. CASE o \notin WalkIns
    BY <1>1, <1>a, <1>b, <2>1, <2>3 DEF Heeds, Known, Informed, NewRow
  <2> QED
    BY <2>2, <2>3
<1>2. ASSUME RecordOrder(w) PROVE Heeds(w, o)
  <2>1. req'[w].pc \in {"receipt", "insert"}
    BY <1>2, <1>a DEF RecordOrder, Become, Request
  <2> QED
    BY <1>1, <1>2, <1>a, <2>1 DEF RecordOrder
<1>3. ASSUME RecordReplyLost(w) PROVE Heeds(w, o)
  <2>1. req'[w].pc \in {"idle", "rollback"}
    BY <1>3, <1>a, UnwindMoves DEF RecordReplyLost, Ended, Moved
  <2> QED
    BY <1>1, <1>3, <1>a, <2>1 DEF RecordReplyLost
<1>4. ASSUME UndoOrder(w) PROVE Heeds(w, o)
  <2>1. req'[w].pc \in {"idle", "rollback"}
    BY <1>4, <1>a, UnwindMoves DEF UndoOrder, Ended, Moved
  <2>2. table'[o] \in {NoRow, table[o]} /\ cache' = cache
    BY <1>4, <1>a DEF UndoOrder, TypeOK
  <2> QED
    BY <1>b, <2>1, <2>2 DEF Heeds, Known, Informed, Decided
<1>5. ASSUME InsertCache(w) PROVE Heeds(w, o)
  <2>1. req'[w].pc \in {"idle", "referral"}
    BY <1>5, <1>a, AnswerEnds, GotoMoves DEF InsertCache, Ended, Moved
  <2>2. table' = table /\ (cache'[o] = cache[o] \/ cache'[o] # NoRow)
    BY <1>5, <1>a, <1>b DEF InsertCache, TypeOK
  <2> QED
    BY <2>1, <2>2 DEF Heeds, Known, Informed, Decided
<1>6. ASSUME FinishCheckout(w) PROVE Heeds(w, o)
  <2>1. req'[w].pc = "idle"
    BY <1>6, <1>a, AnswerEnds DEF FinishCheckout, Ended
  <2>2. table' = table
    BY <1>6 DEF FinishCheckout
  <2>3. cache'[o] = cache[o] \/ cache'[o] # NoRow
    <3>1. CASE cache[o] # NoRow /\ cache' = [cache EXCEPT ![o].applied = TRUE]
      <4>1. cache'[o] = [cache[o] EXCEPT !.applied = TRUE] /\ cache[o] \in Row
        BY <1>a, <3>1 DEF TypeOK
      <4>2. cache'[o].status \in Statuses
        BY <4>1, RowsStay
      <4> QED
        BY <4>2, RowsStay
    <3> QED
      BY <1>6, <1>a, <3>1 DEF FinishCheckout
  <2> QED
    BY <2>1, <2>2, <2>3 DEF Heeds, Known, Decided
<1> QED
  BY <1>2, <1>3, <1>4, <1>5, <1>6

\* The writes of the admin's requests.
LEMMA AdminHeeds ==
  ASSUME TypeOK, NEW w \in Workers, NEW o \in Orders, WorksOn(w, o), Known(o),
         Informed(req[w])
  PROVE  /\ SaveDecision(w) => Heeds(w, o)
         /\ MirrorDecision(w) => Heeds(w, o)
         /\ MirrorFailed(w) => Heeds(w, o)
         /\ DropRecord(w) => Heeds(w, o)
         /\ DropRefused(w) => Heeds(w, o)
         /\ ForgetOrder(w) => Heeds(w, o)
<1>a. req \in [Workers -> Request] /\ req[w].order = o /\ table[o] \in Row \cup {NoRow}
      /\ cache[o] \in Row \cup {NoRow}
  BY DEF TypeOK, WorksOn
<1>b. ~ Decided(NoRow) /\ NoRow.status # "pending"
  BY DEF Decided, NoRow
<1>1. ASSUME SaveDecision(w) PROVE Heeds(w, o)
  <2>1. PICK row : row = Synced(req[w].row, req[w].goal)
    OBVIOUS
  <2>2. /\ cache' = Overwrite(cache, o, row) /\ table' = table
        /\ Become(w, [req[w] EXCEPT !.pc = "mirror", !.row = row, !.moved = {}])
    BY <1>1, <1>a, <2>1 DEF SaveDecision
  <2>3. row.status = req[w].goal /\ row # NoRow
    BY <1>1, <2>1, RowsStay DEF SaveDecision, TypeOK, WellFormed
  <2>4. /\ req'[w].pc = "mirror" /\ req'[w].row = row /\ req'[w].goal = req[w].goal
        /\ req'[w].order = o
    BY <1>a, <2>2 DEF Become, Request
  <2>5. cache'[o] # NoRow
    BY <1>1, <1>a, <2>2, <2>3 DEF SaveDecision, Overwrite, Informed, TypeOK
  <2> QED
    BY <1>a, <2>2, <2>3, <2>4, <2>5 DEF Heeds, Known, Informed, Decided
<1>2. ASSUME MirrorDecision(w) \/ MirrorFailed(w) PROVE Heeds(w, o)
  <2>1. req'[w].pc = "idle"
    BY <1>2, <1>a, AnswerEnds DEF MirrorDecision, MirrorFailed, Ended
  <2>2. /\ cache' = cache /\ req[w].pc = "mirror"
        /\ table'[o] \in {NoRow, req[w].row} \/ table'[o] = table[o]
    BY <1>2, <1>a DEF MirrorDecision, MirrorFailed, Overwrite, TypeOK
  <2>3. cache[o] # NoRow /\ req[w].row.status = req[w].goal
    BY <1>a, <2>2 DEF Informed
  <2> QED
    BY <1>b, <2>1, <2>2, <2>3 DEF Heeds, Known, Decided
<1>3. ASSUME DropRecord(w) PROVE Heeds(w, o)
  <2>1. req'[w].pc = "forget" /\ req'[w].order = o
    BY <1>3, <1>a, GotoMoves DEF DropRecord, Moved
  <2>2. table'[o] = NoRow /\ cache' = cache /\ cache[o] # NoRow
    BY <1>3, <1>a DEF DropRecord, Informed, TypeOK
  <2> QED
    BY <1>b, <2>1, <2>2 DEF Heeds, Known, Informed
<1>4. ASSUME DropRefused(w) PROVE Heeds(w, o)
  <2>1. req'[w].pc = "idle"
    BY <1>4, <1>a, AnswerEnds DEF DropRefused, Ended
  <2>2. table'[o] \in {NoRow, table[o]} /\ cache' = cache
    BY <1>4, <1>a DEF DropRefused, TypeOK
  <2> QED
    BY <1>b, <2>1, <2>2 DEF Heeds, Known, Decided
<1>5. ASSUME ForgetOrder(w) PROVE Heeds(w, o)
  <2>1. req'[w].pc = "idle"
    BY <1>5, <1>a, AnswerEnds DEF ForgetOrder, Ended
  <2>2. table' = table /\ table[o] = NoRow
    BY <1>5, <1>a DEF ForgetOrder, Informed
  <2> QED
    BY <1>b, <2>1, <2>2 DEF Heeds, Known
<1> QED
  BY <1>1, <1>2, <1>3, <1>4, <1>5

\* The accounting desk writes a payload and no status.
LEMMA EditHeeds ==
  ASSUME TypeOK, NEW w \in Workers, NEW o \in Orders, WorksOn(w, o), Known(o),
         Informed(req[w])
  PROVE  /\ EditRecord(w) => Heeds(w, o)
         /\ EditCache(w) => Heeds(w, o)
<1>a. /\ req \in [Workers -> Request] /\ req[w].order = o
      /\ table \in [Orders -> Row \cup {NoRow}] /\ cache \in [Orders -> Row \cup {NoRow}]
  BY DEF TypeOK, WorksOn
<1>b. ASSUME NEW store \in [Orders -> Row \cup {NoRow}]
      PROVE  /\ WithPayload(store, o, req[w].row)[o].status = store[o].status
             /\ WithPayload(store, o, req[w].row)[o] = NoRow => store[o] = NoRow
  <2>1. CASE store[o] = NoRow
    BY <1>a, <2>1 DEF WithPayload
  <2>2. CASE store[o] \in Row
    <3>1. WithPayload(store, o, req[w].row)[o]
             = [store[o] EXCEPT !.applied = req[w].row.applied]
      BY <1>a, <2>2, RowsStay DEF WithPayload
    <3>2. PICK new : new = WithPayload(store, o, req[w].row)[o]
      OBVIOUS
    <3>3. new.status = store[o].status
      BY <2>2, <3>1, <3>2 DEF Row
    <3>4. new # NoRow
      BY <2>2, <3>3, RowsStay
    <3> QED
      BY <3>2, <3>3, <3>4
  <2> QED
    BY <2>1, <2>2
<1>1. ASSUME EditRecord(w) PROVE Heeds(w, o)
  <2>1. req'[w].pc \in {"idle", "editCache"}
    BY <1>1, <1>a, AnswerEnds, GotoMoves DEF EditRecord, Ended, Moved
  <2>2. table'[o].status = table[o].status /\ cache' = cache
    BY <1>1, <1>a, <1>b DEF EditRecord
  <2> QED
    BY <2>1, <2>2 DEF Heeds, Known, Informed, Decided
<1>2. ASSUME EditCache(w) PROVE Heeds(w, o)
  <2>1. req'[w].pc = "idle"
    BY <1>2, <1>a, AnswerEnds DEF EditCache, Ended
  <2>2. table' = table /\ (cache'[o] = NoRow => cache[o] = NoRow)
    BY <1>2, <1>a, <1>b DEF EditCache
  <2> QED
    BY <2>1, <2>2 DEF Heeds, Known, Decided
<1> QED
  BY <1>1, <1>2

\* A worker whose row is current writes no status that an earlier decision forbids.
LEMMA StepHeeds ==
  ASSUME TypeOK, NEW w \in Workers, NEW o \in Orders, WorksOn(w, o), Known(o),
         Informed(req[w]), Step(w)
  PROVE  Heeds(w, o)
  BY LookingHeeds, MovingHeeds, CheckoutHeeds, AdminHeeds, EditHeeds DEF Step

\* The other orders stay guarded, and their records stay as they are.
LEMMA OthersGuarded ==
  ASSUME NEW p \in Orders, Guarded(p), Untouched(p)
  PROVE  Guarded(p)' /\ table'[p] = table[p]
<1>1. \A v \in Workers : WorksOn(v, p)' <=> WorksOn(v, p)
  BY DEF Untouched, WorksOn, Busy
<1>2. \A v \in Workers : WorksOn(v, p) => req'[v] = req[v]
  BY DEF Untouched
<1>3. Alone(p)' /\ Known(p)'
  BY <1>1 DEF Guarded, Alone, Known, Decided, Untouched
<1>4. ASSUME NEW v \in Workers, WorksOn(v, p)' PROVE Informed(req[v])'
  <2>1. Informed(req[v]) /\ req'[v] = req[v] /\ req[v].order = p
    BY <1>1, <1>2, <1>4 DEF Guarded, WorksOn
  <2> QED
    BY <2>1 DEF Informed, Untouched
<1> QED
  BY <1>3, <1>4 DEF Guarded, Untouched

AllGuarded == \A o \in Orders : Guarded(o)

\* A decision is not undone except by a request for "pending".
Stands ==
    \A o \in Orders :
        (table[o].status \in {"confirmed", "declined"} /\ table'[o].status = "pending")
        => \E w \in Workers : WorksOn(w, o) /\ req[w].goal = "pending"

\* A step keeps every order's row known to its worker, and lets decisions stand.
LEMMA StepGuarded ==
  ASSUME TypeOK, Books, AllGuarded, NEW w \in Workers, Step(w)
  PROVE  AllGuarded' /\ Stands
<1>1. PICK o \in Orders : WorksOn(w, o)
  BY StepIsBusy DEF TypeOK, WellFormed, WorksOn, Busy
<1>2. Within(w, o)
  BY <1>1, StepsKeep
<1>3. Known(o) /\ Informed(req[w]) /\ Alone(o)
  BY <1>1 DEF AllGuarded, Guarded
<1>4. Heeds(w, o)
  BY <1>1, <1>3, StepHeeds
<1>5. \A v \in Workers \ {w} : ~WorksOn(v, o) /\ ~WorksOn(v, o)'
  BY <1>1, <1>2, <1>3 DEF Alone, Within, WorksOn, Busy
<1>6. Guarded(o)'
  <2>1. Alone(o)'
    BY <1>5 DEF Alone
  <2>2. \A v \in Workers : WorksOn(v, o)' => Informed(req[v])'
    BY <1>4, <1>5 DEF Heeds, WorksOn, Busy
  <2> QED
    BY <1>4, <2>1, <2>2 DEF Guarded, Heeds
<1>7. \A p \in Orders \ {o} : Guarded(p)' /\ table'[p] = table[p]
  <2>1. \A p \in Orders \ {o} : Untouched(p)
    BY <1>1, <1>2, OthersUntouched DEF WorksOn
  <2> QED
    BY <2>1, OthersGuarded DEF AllGuarded
<1>8. AllGuarded'
  BY <1>6, <1>7 DEF AllGuarded
<1>9. Stands
  BY <1>1, <1>4, <1>7 DEF Stands, Heeds, Decided
<1> QED
  BY <1>8, <1>9

\* A request begins when no other is on its order, and has seen its row.
LEMMA ArrivalGuarded ==
  ASSUME OneAtATime, TypeOK, AllGuarded, NEW w \in Workers, NEW o \in Orders,
         Arrive(w, o)
  PROVE  AllGuarded' /\ UNCHANGED table
<1>1. \E r : /\ Begin(w, o, r) /\ r.order = o
             /\ \/ r.pc \in {"validate", "editRecord"}
                \/ r.pc = "reserve" /\ o \in WalkIns
                \/ r.pc \in {"take", "give", "save", "drop"} /\ cache[o] # NoRow
  <2>1. CASE PostCheckout(w, o)
    <3> DEFINE r == [Idle EXCEPT !.pc = "validate", !.order = o]
    <3>1. r.order = o /\ r.pc = "validate"
      BY DEF Idle
    <3>2. Begin(w, o, r)
      BY <2>1 DEF PostCheckout
    <3> HIDE DEF r
    <3> QED
      BY <3>1, <3>2
  <2>2. CASE PostWalkIn(w, o)
    <3> DEFINE r == [Idle EXCEPT !.pc = "reserve", !.order = o, !.todo = LinesOf(o)]
    <3>1. r.order = o /\ r.pc = "reserve"
      BY DEF Idle
    <3>2. Begin(w, o, r) /\ o \in WalkIns
      BY <2>2 DEF PostWalkIn
    <3> HIDE DEF r
    <3> QED
      BY <3>1, <3>2
  <2>3. ASSUME NEW new \in Statuses, RequestStatus(w, o, new)
        PROVE  \E r : Begin(w, o, r) /\ r.order = o
                      /\ r.pc \in {"take", "give", "save", "drop"} /\ cache[o] # NoRow
    <3>0. PICK row : row = cache[o]
      OBVIOUS
    <3> DEFINE pc   == IF Takes(row, new) THEN "take"
                       ELSE IF Gives(row, new) THEN "give" ELSE "save"
               todo == IF Takes(row, new) \/ Gives(row, new) THEN LinesOf(o) ELSE {}
               r    == [Idle EXCEPT !.pc = pc, !.order = o, !.row = row,
                                    !.goal = new, !.todo = todo]
    <3>1. pc \in {"take", "give", "save", "drop"}
      OBVIOUS
    <3>2. Begin(w, o, r) /\ cache[o] # NoRow
      BY <2>3, <3>0 DEF RequestStatus
    <3> HIDE DEF pc, todo
    <3>3. r.order = o /\ r.pc = pc
      BY DEF Idle
    <3> HIDE DEF r
    <3> QED
      BY <3>1, <3>2, <3>3
  <2>4. ASSUME RequestDelete(w, o)
        PROVE  \E r : Begin(w, o, r) /\ r.order = o
                      /\ r.pc \in {"take", "give", "save", "drop"} /\ cache[o] # NoRow
    <3>0. PICK row : row = cache[o]
      OBVIOUS
    <3> DEFINE pc   == IF Owes(row) THEN "give" ELSE "drop"
               todo == IF Owes(row) THEN LinesOf(o) ELSE {}
               r    == [Idle EXCEPT !.pc = pc, !.order = o, !.row = row,
                                    !.goal = "delete", !.todo = todo]
    <3>1. pc \in {"take", "give", "save", "drop"}
      OBVIOUS
    <3>2. Begin(w, o, r) /\ cache[o] # NoRow
      BY <2>4, <3>0 DEF RequestDelete
    <3> HIDE DEF pc, todo
    <3>3. r.order = o /\ r.pc = pc
      BY DEF Idle
    <3> HIDE DEF r
    <3> QED
      BY <3>1, <3>2, <3>3
  <2>5. CASE RequestEdit(w, o)
    <3>0. PICK row : row = table[o]
      OBVIOUS
    <3> DEFINE r == [Idle EXCEPT !.pc = "editRecord", !.order = o, !.row = row]
    <3>1. r.order = o /\ r.pc = "editRecord"
      BY DEF Idle
    <3>2. Begin(w, o, r)
      BY <2>5, <3>0 DEF RequestEdit
    <3> HIDE DEF r
    <3> QED
      BY <3>1, <3>2
  <2> QED
    BY <2>1, <2>2, <2>3, <2>4, <2>5 DEF Arrive
<1>2. PICK r : /\ Begin(w, o, r) /\ r.order = o
               /\ \/ r.pc \in {"validate", "editRecord"}
                  \/ r.pc = "reserve" /\ o \in WalkIns
                  \/ r.pc \in {"take", "give", "save", "drop"} /\ cache[o] # NoRow
  BY <1>1
<1>3. /\ ~Busy(w) /\ OthersWait(w) /\ req'[w] = r
      /\ \A v \in Workers : ~WorksOn(v, o)
  BY <1>2, BeginIs DEF Begin, OneAtATime
<1>4. UNCHANGED <<table, cache>>
  BY DEF Arrive, PostCheckout, PostWalkIn, RequestStatus, RequestDelete, RequestEdit,
     stores
<1>5. ASSUME NEW p \in Orders PROVE Guarded(p)'
  <2>1. Known(p)'
    BY <1>4 DEF AllGuarded, Guarded, Known, Decided
  <2>2. CASE p = o
    <3>1. \A v \in Workers \ {w} : ~WorksOn(v, o)'
      BY <1>3 DEF OthersWait, WorksOn, Busy
    <3>2. Alone(o)'
      BY <3>1 DEF Alone
    <3>3. Informed(req[w])'
      BY <1>2, <1>3, <1>4 DEF Informed
    <3> QED
      BY <2>1, <2>2, <3>1, <3>2, <3>3 DEF Guarded
  <2>3. CASE p # o
    <3>1. \A v \in Workers : WorksOn(v, p)' => WorksOn(v, p) /\ req'[v] = req[v]
      BY <1>2, <1>3, <2>3 DEF OthersWait, WorksOn, Busy
    <3>2. Alone(p)'
      BY <3>1 DEF AllGuarded, Guarded, Alone
    <3>3. \A v \in Workers : WorksOn(v, p)' => Informed(req[v])'
      BY <1>4, <3>1 DEF AllGuarded, Guarded, Informed
    <3> QED
      BY <2>1, <3>2, <3>3 DEF Guarded
  <2> QED
    BY <2>2, <2>3
<1> QED
  BY <1>4, <1>5 DEF AllGuarded

\* After a restart that restores every record SQLite has a row of each.
LEMMA RestartGuarded ==
  ASSUME RestoresAll, TypeOK, AllGuarded, Restart
  PROVE  AllGuarded' /\ UNCHANGED table
<1>1. table' = table /\ req' = [w \in Workers |-> Idle]
  BY DEF Restart
<1>2. \A w \in Workers, o \in Orders : ~WorksOn(w, o)'
  BY <1>1 DEF WorksOn, Busy, Idle
<1>3. \A o \in Orders : table[o] # NoRow => cache'[o] # NoRow
  <2> DEFINE all == {o \in Orders : table[o] # NoRow}
  <2>1. "boot" \notin Refusable /\ Cardinality(Orders) <= RestoreLimit
    BY OrdersAssumption DEF RestoresAll, Restart, TypeOK
  <2>2. PICK back \in SUBSET all, wiped \in BOOLEAN :
           /\ \/ back = {} /\ "boot" \in Refusable
              \/ /\ Cardinality(back) <= RestoreLimit
                 /\ Cardinality(back) = RestoreLimit \/ back = all
           /\ cache' = [o \in Orders |-> IF o \in back THEN table[o]
                                         ELSE IF wiped THEN NoRow ELSE cache[o]]
    BY DEF Restart
  <2>3. back = all
    <3>1. all \in SUBSET Orders /\ IsFiniteSet(Orders)
      BY OrdersAssumption
    <3> HIDE DEF all
    <3>2. IsFiniteSet(all) /\ Cardinality(all) <= Cardinality(Orders)
      BY <3>1, FS_Subset
    <3>3. IsFiniteSet(back) /\ Cardinality(back) <= Cardinality(all)
          /\ (Cardinality(all) = Cardinality(back) => all = back)
      BY <3>2, FS_Subset
    <3>4. /\ Cardinality(back) \in Nat /\ Cardinality(all) \in Nat
          /\ Cardinality(Orders) \in Nat /\ RestoreLimit \in Nat
      BY <3>1, <3>2, <3>3, FS_CardinalityType, OrdersAssumption
    <3>5. Cardinality(back) = RestoreLimit \/ back = all
      BY <2>1, <2>2
    <3> QED
      BY <2>1, <3>2, <3>3, <3>4, <3>5
  <2> QED
    BY <2>2, <2>3
<1>4. \A o \in Orders : Known(o)'
  <2>1. ~ Decided(NoRow)
    BY DEF Decided, NoRow
  <2> QED
    BY <1>1, <1>3, <2>1 DEF Known
<1> QED
  BY <1>1, <1>2, <1>4 DEF AllGuarded, Guarded, Alone

\* Every step keeps the guards, and no decision is undone.
LEMMA NextGuarded ==
  ASSUME OneAtATime, RestoresAll
  PROVE  TypeOK /\ Books /\ AllGuarded /\ [Next]_vars
           => AllGuarded' /\ (Stands \/ UNCHANGED vars)
<1> SUFFICES ASSUME TypeOK, Books, AllGuarded, [Next]_vars
             PROVE  AllGuarded' /\ (Stands \/ UNCHANGED vars)
  OBVIOUS
<1>1. UNCHANGED table => Stands
  BY DEF Stands
<1>2. ASSUME UNCHANGED <<table, cache, req>> PROVE AllGuarded'
  BY <1>2 DEF AllGuarded, Guarded, Alone, Known, Decided, Informed, WorksOn, Busy
<1>3. CASE \E l \in Lines : Toggle(l)
  BY <1>1, <1>2, <1>3 DEF Toggle, stores
<1>4. CASE UNCHANGED vars
  BY <1>1, <1>2, <1>4 DEF vars
<1> QED
  BY <1>1, <1>3, <1>4, StepGuarded, ArrivalGuarded, RestartGuarded DEF Next

\* With no request under way there is nothing to guard.
LEMMA InitGuarded == Init => AllGuarded
<1> SUFFICES ASSUME Init PROVE AllGuarded
  OBVIOUS
<1>1. \A w \in Workers, o \in Orders : ~WorksOn(w, o)
  BY DEF Init, WorksOn, Busy, Idle
<1>2. \A o \in Orders : Known(o)
  BY DEF Init, Known, Decided, NoRow
<1> QED
  BY <1>1, <1>2 DEF AllGuarded, Guarded, Alone

(***************************************************************************)
(* A checkout, retried or not, never puts an order that was decided back   *)
(* to pending, provided that requests for one order come one at a time and *)
(* that a restart restores every record.                                   *)
(***************************************************************************)
THEOREM DecisionsAlwaysStand ==
  ASSUME OneAtATime, RestoresAll PROVE Spec => DecisionStands
<1>1. Inductive => TypeOK /\ Books
  BY DEF Inductive, Books
<1>2. Inductive /\ AllGuarded /\ [Next]_vars => AllGuarded' /\ [Stands]_vars
  BY <1>1, NextGuarded
<1>3. Spec => [][Stands]_vars
  BY <1>2, InitGuarded, AlwaysInductive, PTL DEF Spec
<1> QED
  BY <1>3 DEF DecisionStands, Stands

------------------------------------------------------------------------------
(***************************************************************************)
(* The handlers implement the one-step ledger.  While nothing has gone     *)
(* wrong with any order, the units on the abstract shelf and the carts of  *)
(* the sold orders add up to the initial stock (LedgerAddsUp).  So the     *)
(* shelf is a function of the sold orders, and a step is a step of the     *)
(* ledger as soon as it changes whether one order is sold, and no other:   *)
(* every step is of one request, and a request concerns one order.         *)
(***************************************************************************)
AllClean == \A o \in Orders : Clean(o)

Sold == {o \in Orders : Owes(Book(o)) /\ \A w \in Workers : WorksOn(w, o) => ~GivesBack(w)}

SoldOf(o) == IF o \in Sold THEN 1 ELSE 0

InHands(w, l) == IF Busy(w) THEN Cart[req[w].order][l] * InHand(w, l) ELSE 0

\* What a request holds in hand is what was taken for its order beyond what
\* the order was sold.
LEMMA HandsOfOrder ==
  ASSUME TypeOK, NEW o \in Orders, OrderInv(o), NEW w \in Workers, WorksOn(w, o),
         NEW l \in LinesOf(o)
  PROVE  taken[o][l] = SoldOf(o) + InHand(w, l)
<1> DEFINE r == req[w]
<1>1. /\ Stage(r) /\ WellFormed(r) /\ r \in Request /\ r.order = o /\ r.pc # "idle"
      /\ taken[o][l] = Owed(o) + Unrecorded(w, l)
      /\ o \in Sold <=> Owes(Book(o)) /\ ~GivesBack(w)
  BY DEF OrderInv, Staged, Balanced, WorksOn, Busy, TypeOK, Sold, Alone
<1>2. r.pc \in PCs /\ r.goal \in Goals /\ r.todo \subseteq Lines
  BY <1>1, RequestParts
<1>3. CASE r.goal = "none"
  <2>1. ~GivesBack(w)
    BY <1>3 DEF GivesBack, Statuses
  <2> QED
    BY <1>1, <1>3, <2>1 DEF SoldOf, Owed, InHand, Unrecorded
<1>4. ASSUME r.goal # "none"
      PROVE  /\ r.pc \in {"take", "give", "save", "mirror", "drop", "forget"}
             /\ r.row \in Row /\ cache[o] = r.row /\ Book(o) = r.row
             /\ Owed(o) = IF Owes(r.row) THEN 1 ELSE 0
             /\ r.goal = "delete" \/ r.goal \in Statuses
  <2>1. r.pc \in {"take", "give", "save", "mirror", "drop", "forget"}
    BY <1>1, <1>2, <1>4 DEF Stage, PCs
  <2>2. r.row # NoRow /\ cache[o] = r.row
    BY <1>1, <2>1 DEF Stage
  <2>3. r.row \in Row
    BY <2>2 DEF TypeOK
  <2> QED
    BY <1>2, <1>4, <2>1, <2>2, <2>3 DEF Book, BookOf, Owed, Goals
<1>5. CASE r.goal # "none" /\ GivesBack(w)
  <2>1. Owes(r.row) /\ MovesUnits(r) /\ ~Takes(r.row, r.goal)
    <3>1. CASE r.goal = "delete"
      BY <1>5, <3>1 DEF GivesBack, MovesUnits, Takes, Statuses
    <3>2. CASE r.goal \in Statuses
      <4>1. Gives(r.row, r.goal)
        BY <1>5, <3>2 DEF GivesBack, Statuses
      <4> QED
        BY <1>4, <1>5, <3>2, <4>1, SyncedOwes DEF MovesUnits
    <3> QED
      BY <1>4, <1>5, <3>1, <3>2
  <2>2. r.pc # "take"
    BY <1>1, <2>1 DEF Stage
  <2>3. r.pc # "mirror"
    <3>1. SUFFICES ASSUME r.pc = "mirror" PROVE FALSE
      OBVIOUS
    <3>2. r.row.status = r.goal
      BY <1>1, <3>1 DEF Stage
    <3>3. r.goal \in Statuses
      BY <1>4, <1>5, <3>2 DEF Row
    <3> QED
      BY <1>5, <3>2, <3>3 DEF GivesBack, Gives, Statuses
  <2>4. r.todo \cup r.moved = LinesOf(o) /\ r.todo \cap r.moved = {}
    BY <1>1, <1>4, <1>5, <2>1, <2>2, <2>3 DEF Stage, WholeCart
  <2>5. Unrecorded(w, l) = IF l \in r.moved THEN -1 ELSE 0
    BY <1>5, <2>1 DEF Unrecorded
  <2>6. SoldOf(o) = 0 /\ Owed(o) = 1
    BY <1>1, <1>4, <1>5, <2>1 DEF SoldOf
  <2>7. InHand(w, l) = IF l \in r.todo THEN 1 ELSE 0
    BY <1>5 DEF InHand
  <2> QED
    BY <1>1, <2>4, <2>5, <2>6, <2>7
<1>6. CASE r.goal # "none" /\ ~GivesBack(w)
  <2>1. SoldOf(o) = Owed(o)
    BY <1>1, <1>6 DEF SoldOf, Owed
  <2>2. InHand(w, l) = IF l \in r.moved THEN 1 ELSE 0
    BY <1>6 DEF InHand
  <2>3. Takes(r.row, r.goal) \/ r.moved = {}
    <3>1. SUFFICES ASSUME ~Takes(r.row, r.goal) PROVE r.moved = {}
      OBVIOUS
    <3>2. ~MovesUnits(r)
      BY <1>1, <1>4, <1>6, <3>1 DEF GivesBack, MovesUnits, WorksOn
    <3> QED
      BY <1>1, <1>4, <1>6, <3>2 DEF Stage
  <2>4. Unrecorded(w, l) = InHand(w, l)
    BY <1>6, <2>2, <2>3 DEF Unrecorded
  <2> QED
    BY <1>1, <2>1, <2>4
<1> QED
  BY <1>3, <1>5, <1>6

HandsOn(o, l) == SumFunctionOnSet([w \in Workers |-> InHands(w, l)],
                                  {w \in Workers : WorksOn(w, o)})

\* What requests have in hand of a line, order by order.
LEMMA HandsIn ==
  ASSUME TypeOK, NEW l \in Lines
  PROVE  /\ SumFunction([w \in Workers |-> InHands(w, l)]) \in Nat
         /\ SumFunction([w \in Workers |-> InHands(w, l)]) =
              SumFunctionOnSet([o \in Orders |-> HandsOn(o, l)], Orders)
<1> DEFINE f == [w \in Workers |-> InHands(w, l)]
           own == [w \in Workers |-> IF Busy(w) THEN req[w].order ELSE NoOrder]
<1>1. \A w \in Workers : f[w] = InHands(w, l) /\ InHands(w, l) \in Nat
  <2> SUFFICES ASSUME NEW w \in Workers PROVE InHands(w, l) \in Nat
    OBVIOUS
  <2>1. CASE ~Busy(w)
    BY <2>1 DEF InHands
  <2>2. CASE Busy(w)
    <3>1. Cart[req[w].order][l] \in Nat /\ InHand(w, l) \in {0, 1}
      BY <2>2, CartIsNat DEF TypeOK, WellFormed, Busy, InHand
    <3> QED
      BY <2>2, <3>1 DEF InHands
  <2> QED
    BY <2>1, <2>2
<1>2. \A w \in Workers : own[w] \notin Orders => f[w] = 0
  BY DEF InHands, TypeOK, WellFormed, Busy
<1>3. \A o \in Orders : {w \in Workers : own[w] = o} = {w \in Workers : WorksOn(w, o)}
  BY OrdersAssumption DEF WorksOn
<1>4. DOMAIN f = Workers
  OBVIOUS
<1>5. IsFiniteSet(Workers) /\ IsFiniteSet(Orders)
  BY OrdersAssumption
<1> DEFINE g == [o \in Orders |-> SumFunctionOnSet(f, {w \in Workers : own[w] = o})]
           h == [o \in Orders |-> HandsOn(o, l)]
<1>6. g = h
  BY <1>3 DEF HandsOn
<1>7. SumFunctionOnSet(f, Workers) = SumFunctionOnSet(g, Orders)
  <2>1. \A w \in Workers : f[w] \in Int
    BY <1>1
  <2> HIDE DEF f, own
  <2> QED
    BY <1>2, <1>5, <2>1, SumPartition
<1>8. SumFunctionOnSet(f, Workers) \in Nat
  <2> HIDE DEF f
  <2> QED
    BY <1>1, <1>5, SumIsNat
<1> QED
  BY <1>4, <1>6, <1>7, <1>8 DEF SumFunction

\* What was taken for an order is what it was sold and what a request holds.
LEMMA OrderTaken ==
  ASSUME TypeOK, NEW o \in Orders, OrderInv(o), NEW l \in Lines
  PROVE  /\ Cart[o][l] * taken[o][l] =
               Cart[o][l] * SoldOf(o) + HandsOn(o, l)
         /\ Cart[o][l] * SoldOf(o) \in Nat /\ HandsOn(o, l) \in Int
<1> DEFINE f  == [w \in Workers |-> InHands(w, l)]
           ws == {w \in Workers : WorksOn(w, o)}
<1>1. Cart[o][l] \in Nat /\ taken[o][l] \in Int /\ SoldOf(o) \in {0, 1}
  BY CartIsNat DEF TypeOK, SoldOf
<1>2. \A w \in ws : f[w] = Cart[o][l] * InHand(w, l) /\ InHand(w, l) \in {0, 1}
  BY DEF InHands, WorksOn, InHand
<1>3. Cart[o][l] * SoldOf(o) \in Nat
  BY <1>1
<1>4. l \notin LinesOf(o) => Cart[o][l] = 0
  BY <1>1 DEF LinesOf
<1>5. CASE ws = {}
  <2>1. HandsOn(o, l) = 0
    BY <1>5, SumEmpty DEF HandsOn
  <2>2. SoldOf(o) = Owed(o)
    BY <1>5 DEF SoldOf, Sold, Owed
  <2>3. l \in LinesOf(o) => taken[o][l] = Owed(o)
    BY <1>5 DEF OrderInv, Balanced
  <2>4. Cart[o][l] * taken[o][l] = Cart[o][l] * SoldOf(o)
    BY <1>1, <1>4, <2>2, <2>3
  <2> QED
    BY <1>3, <2>1, <2>4
<1>6. CASE ws # {}
  <2>1. PICK w \in ws : TRUE
    BY <1>6
  <2>2. ws = {w}
    BY <2>1 DEF OrderInv, Alone
  <2>3. f[w] = Cart[o][l] * InHand(w, l) /\ f[w] \in Int
    BY <1>1, <1>2, <2>1
  <2>4. HandsOn(o, l) = f[w]
    <3>1. HandsOn(o, l) = SumFunctionOnSet(f, ws)
      BY DEF HandsOn
    <3> HIDE DEF f, ws
    <3> QED
      BY <2>2, <2>3, <3>1, SumSingle
  <2>5. CASE l \in LinesOf(o)
    <3>1. taken[o][l] = SoldOf(o) + InHand(w, l)
      BY <2>1, <2>5, HandsOfOrder
    <3>2. Cart[o][l] * taken[o][l] = Cart[o][l] * SoldOf(o) + Cart[o][l] * InHand(w, l)
      BY <1>1, <1>2, <2>1, <3>1
    <3> QED
      BY <1>3, <2>3, <2>4, <3>2
  <2>6. CASE l \notin LinesOf(o)
    <3>1. f[w] = 0 /\ Cart[o][l] * taken[o][l] = 0 /\ Cart[o][l] * SoldOf(o) = 0
      BY <1>1, <1>2, <1>4, <2>1, <2>3, <2>6
    <3> QED
      BY <2>4, <3>1
  <2> QED
    BY <2>5, <2>6
<1> QED
  BY <1>5, <1>6

UnitsSold(l) == SumFunctionOnSet([o \in Orders |-> Cart[o][l] * SoldOf(o)], Orders)

\* The shelf and the carts of the sold orders add up to the initial stock.
LedgerSum ==
    \A l \in Lines : ShelfOf(l) \in Nat /\ ShelfOf(l) + UnitsSold(l) = InitialStock[l]

\* So they do for one line.
LEMMA LineAddsUp ==
  ASSUME Inductive, Accounted, AllClean, NEW l \in Lines
  PROVE  /\ ShelfOf(l) \in Nat
         /\ ShelfOf(l) + UnitsSold(l) = InitialStock[l]
<1> DEFINE h  == [o \in Orders |-> Cart[o][l] * taken[o][l]]
           s  == [o \in Orders |-> Cart[o][l] * SoldOf(o)]
           g  == [o \in Orders |-> HandsOn(o, l)]
           in == SumFunction([w \in Workers |-> InHands(w, l)])
<1>1. TypeOK /\ \A o \in Orders : OrderInv(o)
  BY DEF Inductive, AllClean
<1>2. \A o \in Orders : s[o] \in Int /\ g[o] \in Int /\ h[o] = s[o] + g[o]
  BY <1>1, OrderTaken
<1>3. IsFiniteSet(Orders)
  BY OrdersAssumption
<1>4. SumFunctionOnSet(h, Orders) = SumFunctionOnSet(s, Orders) + SumFunctionOnSet(g, Orders)
  <2> HIDE DEF h, s, g
  <2> QED
    BY <1>2, <1>3, SumPlus
<1>5. SumFunctionOnSet(s, Orders) \in Int
  <2> HIDE DEF s
  <2> QED
    BY <1>2, <1>3, SumIsInt
<1>6. in \in Nat /\ in = SumFunctionOnSet(g, Orders)
  BY <1>1, HandsIn
<1>7. stock[l] + SumFunctionOnSet(h, Orders) = InitialStock[l] /\ stock[l] \in Nat
  <2>1. UnitsTaken(l) = SumFunctionOnSet(h, Orders)
    BY <1>1, UnitsTakenIs DEF UnitsTaken, TypeOK
  <2> QED
    BY <1>1, <2>1 DEF Accounted, TypeOK
<1>8. ShelfOf(l) = stock[l] + in
  BY DEF ShelfOf, InHands
<1>9. UnitsSold(l) = SumFunctionOnSet(s, Orders)
  BY DEF UnitsSold
<1> HIDE DEF h, s, g, in
<1> QED
  BY <1>4, <1>5, <1>6, <1>7, <1>8, <1>9

\* Whether an order is sold changes only with a step on that order.
LEMMA SoldUntouched ==
  ASSUME NEW p \in Orders, Untouched(p)
  PROVE  p \in Sold' <=> p \in Sold
<1>1. \A v \in Workers : WorksOn(v, p)' <=> WorksOn(v, p)
  BY DEF Untouched, WorksOn, Busy
<1>2. ASSUME NEW v \in Workers, WorksOn(v, p) PROVE GivesBack(v)' <=> GivesBack(v)
  <2>1. req'[v] = req[v]
    BY <1>2 DEF Untouched
  <2> QED
    BY <2>1 DEF GivesBack, Busy
<1>3. Book(p)' = Book(p)
  BY DEF Book, BookOf, Untouched
<1> QED
  BY <1>1, <1>2, <1>3 DEF Sold

\* A step of a request, or its beginning, decides about one order.
LEMMA OneOrderSold ==
  ASSUME Inductive, Next, AllClean, AllClean'
  PROVE  \/ Sold' = Sold
         \/ \E o \in Orders : /\ \A p \in Orders \ {o} : p \in Sold' <=> p \in Sold
                              /\ ~(o \in Sold' <=> o \in Sold)
<1>1. /\ Sold \subseteq Orders /\ Sold' \subseteq Orders
      /\ TypeOK /\ Posted /\ Books
  BY DEF Sold, Inductive, Books
<1>2. SUFFICES \E o : \A p \in Orders : p # o => (p \in Sold' <=> p \in Sold)
  BY <1>1
<1>3. ASSUME NEW w \in Workers, NEW o \in Orders, Within(w, o),
             req[w].pc # "idle" => req[w].order = o
      PROVE  \A p \in Orders : p # o => (p \in Sold' <=> p \in Sold)
  BY <1>3, OthersUntouched, SoldUntouched
<1>4. CASE \E w \in Workers : Step(w)
  <2>1. PICK w \in Workers, o \in Orders : Step(w) /\ WorksOn(w, o)
    BY <1>1, <1>4, StepIsBusy DEF TypeOK, WellFormed, WorksOn, Busy
  <2> QED
    BY <1>1, <1>3, <2>1, StepsKeep DEF WorksOn
<1>5. CASE \E w \in Workers, o \in Orders : Arrive(w, o)
  <2>1. PICK w \in Workers, o \in Orders : Arrive(w, o)
    BY <1>5
  <2>2. Within(w, o) /\ ~Busy(w)
    BY <1>1, <2>1, ArrivalsKeep
    DEF Arrive, PostCheckout, PostWalkIn, RequestStatus, RequestDelete, RequestEdit, Begin
  <2> QED
    BY <1>3, <2>2 DEF Busy
<1>6. CASE \E l \in Lines : Toggle(l)
  <2>1. \A p \in Orders : Untouched(p)
    BY <1>6 DEF Toggle, Untouched, WorksOn, Busy, stores, told
  <2> QED
    BY <2>1, SoldUntouched
<1>7. CASE Restart
  <2>1. \A w \in Workers, o \in Orders : ~WorksOn(w, o) /\ ~WorksOn(w, o)'
    <3>1. ASSUME NEW w \in Workers, NEW o \in Orders, WorksOn(w, o) PROVE FALSE
      <4>1. "died" \in causes'[o]
        BY <1>1, <1>7, <3>1 DEF Restart, TypeOK
      <4> QED
        BY <4>1 DEF AllClean, Clean
    <3> QED
      BY <1>7, <3>1 DEF Restart, WorksOn, Busy, Idle
  <2>2. \A o \in Orders : Book(o)' = Book(o)
    <3> SUFFICES ASSUME NEW o \in Orders, Book(o)' # Book(o) PROVE FALSE
      OBVIOUS
    <3>1. BookOf(table, cache', o) = Book(o)'
      BY <1>7 DEF Book, Restart
    <3>2. "reverted" \in causes'[o]
      BY <1>1, <1>7, <3>1 DEF Restart, TypeOK
    <3> QED
      BY <3>2 DEF AllClean, Clean
  <2> QED
    BY <2>1, <2>2 DEF Sold
<1> QED
  BY <1>4, <1>5, <1>6, <1>7 DEF Next

\* In a clean state the shelf and the carts of the sold orders make up the initial stock.
LEMMA LedgerAddsUp == Inductive /\ Accounted /\ AllClean => LedgerSum
  BY LineAddsUp DEF LedgerSum

Shelf == [l \in Lines |-> ShelfOf(l)]

\* One order's term of a sum changes.
LEMMA OrderSum ==
  ASSUME NEW f, NEW g, NEW o \in Orders,
         \A p \in Orders : f[p] \in Int /\ g[p] \in Int,
         \A p \in Orders : p # o => g[p] = f[p]
  PROVE  SumFunctionOnSet(g, Orders) = SumFunctionOnSet(f, Orders) + g[o] - f[o]
<1>1. IsFiniteSet(Orders)
  BY OrdersAssumption
<1> QED
  BY <1>1, SumChange

\* The units sold are a function of the orders sold.
LEMMA UnitsSoldNext ==
  ASSUME NEW l \in Lines
  PROVE  /\ UnitsSold(l) \in Int /\ UnitsSold(l)' \in Int
         /\ Sold' = Sold => UnitsSold(l)' = UnitsSold(l)
         /\ \A o \in Orders :
               (\A p \in Orders \ {o} : p \in Sold' <=> p \in Sold) =>
                  UnitsSold(l)' = UnitsSold(l)
                     + Cart[o][l] * SoldOf(o)' - Cart[o][l] * SoldOf(o)
<1> DEFINE f == [o \in Orders |-> Cart[o][l] * SoldOf(o)]
           g == [o \in Orders |-> Cart[o][l] * SoldOf(o)']
<1>1. \A o \in Orders : /\ Cart[o][l] * SoldOf(o) \in Int /\ Cart[o][l] * SoldOf(o)' \in Int
                        /\ f[o] \in Int /\ g[o] \in Int
  <2>1. \A o \in Orders : Cart[o][l] \in Nat /\ SoldOf(o) \in {0, 1} /\ SoldOf(o)' \in {0, 1}
    BY CartIsNat DEF SoldOf
  <2> QED
    BY <2>1
<1>2. IsFiniteSet(Orders)
  BY OrdersAssumption
<1>3. UnitsSold(l) = SumFunctionOnSet(f, Orders) /\ UnitsSold(l)' = SumFunctionOnSet(g, Orders)
  BY DEF UnitsSold
<1>4. SumFunctionOnSet(f, Orders) \in Int /\ SumFunctionOnSet(g, Orders) \in Int
  <2> HIDE DEF f, g
  <2> QED
    BY <1>1, <1>2, SumIsInt
<1>5. Sold' = Sold => f = g
  BY DEF SoldOf
<1>6. ASSUME NEW o \in Orders, \A p \in Orders \ {o} : p \in Sold' <=> p \in Sold
      PROVE  UnitsSold(l)' = UnitsSold(l) + Cart[o][l] * SoldOf(o)' - Cart[o][l] * SoldOf(o)
  <2>1. \A p \in Orders : p # o => SoldOf(p)' = SoldOf(p)
    BY <1>6 DEF SoldOf
  <2>2. /\ \A p \in Orders : f[p] \in Int /\ g[p] \in Int
        /\ \A p \in Orders : p # o => g[p] = f[p]
    BY <1>1, <2>1
  <2>3. f[o] = Cart[o][l] * SoldOf(o) /\ g[o] = Cart[o][l] * SoldOf(o)'
    OBVIOUS
  <2> HIDE DEF f, g
  <2>4. SumFunctionOnSet(g, Orders) = SumFunctionOnSet(f, Orders) + g[o] - f[o]
    BY <2>2, OrderSum
  <2> QED
    BY <1>3, <2>3, <2>4
<1> QED
  BY <1>3, <1>4, <1>5, <1>6

\* A step is a sale, a refund, or nothing that the ledger sees.
LEMMA LedgerSteps ==
  ASSUME Inductive, AllClean, AllClean', LedgerSum, LedgerSum', [Next]_vars
  PROVE  [Ledger!Next]_<<Shelf, Sold>>
<1>1. \A l \in Lines : ShelfOf(l) \in Nat /\ ShelfOf(l) + UnitsSold(l) = InitialStock[l]
  BY DEF LedgerSum
<1>2. \A l \in Lines : ShelfOf(l)' \in Nat /\ ShelfOf(l)' + UnitsSold(l)' = InitialStock[l]
  BY DEF LedgerSum
<1>3. CASE Sold' = Sold
  <2>1. \A l \in Lines : ShelfOf(l)' = ShelfOf(l)
    BY <1>1, <1>2, <1>3, UnitsSoldNext
  <2>2. Shelf' = Shelf
    BY <2>1 DEF Shelf
  <2> QED
    BY <1>3, <2>2
<1>4. ASSUME NEW o \in Orders, \A p \in Orders \ {o} : p \in Sold' <=> p \in Sold,
             ~(o \in Sold' <=> o \in Sold)
      PROVE  Ledger!Next
  <2>1. \A l \in Lines : Cart[o][l] \in Nat /\ Cart[o][l] * 1 = Cart[o][l] /\ Cart[o][l] * 0 = 0
    BY CartIsNat
  <2>2. Sold \subseteq Orders /\ Sold' \subseteq Orders
    BY DEF Sold
  <2>3. \A l \in Lines :
           ShelfOf(l)' = ShelfOf(l) + Cart[o][l] * SoldOf(o) - Cart[o][l] * SoldOf(o)'
    <3> TAKE l \in Lines
    <3>1. UnitsSold(l)' = UnitsSold(l) + Cart[o][l] * SoldOf(o)' - Cart[o][l] * SoldOf(o)
      BY <1>4, UnitsSoldNext
    <3>2. Cart[o][l] * SoldOf(o) \in Int /\ Cart[o][l] * SoldOf(o)' \in Int
      BY <2>1 DEF SoldOf
    <3> QED
      BY <1>1, <1>2, <3>1, <3>2, UnitsSoldNext
  <2>4. CASE o \notin Sold
    <3>1. o \in Sold' /\ SoldOf(o) = 0 /\ SoldOf(o)' = 1
      BY <1>4, <2>4 DEF SoldOf
    <3>2. \A l \in Lines : ShelfOf(l)' = ShelfOf(l) - Cart[o][l] /\ ShelfOf(l) >= Cart[o][l]
      BY <1>1, <1>2, <2>1, <2>3, <3>1
    <3>3. Sold' = Sold \cup {o}
      BY <1>4, <2>2, <3>1
    <3>4. Ledger!Sell(o)
      BY <2>4, <3>2, <3>3 DEF Ledger!Sell, Sold
    <3> QED
      BY <3>4 DEF Ledger!Next
  <2>5. CASE o \in Sold
    <3>1. o \notin Sold' /\ SoldOf(o) = 1 /\ SoldOf(o)' = 0
      BY <1>4, <2>5 DEF SoldOf
    <3>2. \A l \in Lines : ShelfOf(l)' = ShelfOf(l) + Cart[o][l]
      BY <1>1, <1>2, <2>1, <2>3, <3>1
    <3>3. Sold' = Sold \ {o}
      BY <1>4, <2>2, <3>1
    <3>4. Ledger!Refund(o)
      BY <2>5, <3>2, <3>3 DEF Ledger!Refund, Sold
    <3> QED
      BY <3>4 DEF Ledger!Next
  <2> QED
    BY <2>4, <2>5
<1>5. Sold' = Sold \/ Next
  BY DEF vars, Sold, Book, BookOf, GivesBack, WorksOn, Busy
<1> QED
  BY <1>3, <1>4, <1>5, OneOrderSold

\* At first nothing is sold, and the shelf holds the initial stock.
LEMMA LedgerStart == Init => Ledger!Init
<1> SUFFICES ASSUME Init PROVE Ledger!Init
  OBVIOUS
<1>1. Inductive /\ Accounted /\ AllClean
  BY InductiveInit, InitAccount DEF Init, AllClean, Clean
<1>2. Sold = {}
  BY RowFacts DEF Init, Sold, Book, BookOf
<1>3. \A l \in Lines : ShelfOf(l) = InitialStock[l]
  <2> TAKE l \in Lines
  <2> DEFINE f == [w \in Workers |-> IF Busy(w) THEN Cart[req[w].order][l] * InHand(w, l) ELSE 0]
  <2>1. DOMAIN f = Workers /\ \A w \in Workers : f[w] = 0
    BY DEF Init, Busy, Idle
  <2>2. ShelfOf(l) = stock[l] + SumFunction(f)
    BY DEF ShelfOf
  <2> HIDE DEF f
  <2>3. SumFunction(f) = 0
    BY <2>1, OrdersAssumption, SumZero DEF SumFunction
  <2>4. stock[l] = InitialStock[l] /\ InitialStock[l] \in Nat
    BY OrdersAssumption DEF Init
  <2> QED
    BY <2>2, <2>3, <2>4
<1>4. Shelf = InitialStock
  BY <1>3, OrdersAssumption DEF Shelf
<1> QED
  BY <1>2, <1>4 DEF Ledger!Init, Shelf, Sold

(***************************************************************************)
(* As long as nothing goes wrong with any order, the handlers implement    *)
(* the ledger of SaleLedger: a cart leaves the shelf whole or not at all,  *)
(* only when it is there, and comes back whole.  Whatever requests are     *)
(* interleaved, refused, retried or restarted meanwhile.                   *)
(***************************************************************************)
THEOREM CleanShopKeepsLedger == Spec /\ []AllClean => ImplementsLedger
<1>1. Inductive /\ AllClean /\ AllClean' /\ LedgerSum /\ LedgerSum' /\ [Next]_vars
        => [Ledger!Next]_<<[l \in Lines |-> ShelfOf(l)],
                          {o \in Orders : /\ Owes(Book(o))
                                          /\ \A w \in Workers : WorksOn(w, o) => ~GivesBack(w)}>>
  BY LedgerSteps DEF Shelf, Sold
<1>2. Spec /\ []AllClean => []LedgerSum
  BY AlwaysInductive, AlwaysAccounted, LedgerAddsUp, PTL
<1>3. Spec /\ []AllClean => Ledger!Spec
  BY <1>1, <1>2, LedgerStart, AlwaysInductive, PTL DEF Spec, Ledger!Spec
<1> QED
  BY <1>3 DEF ImplementsLedger

(***************************************************************************)
(* When nothing goes wrong.  A shop where one request at a time is on an   *)
(* order, nothing is reopened or edited, and the calls that fail are those *)
(* whose failure a handler answers for: a refused reservation, upload,     *)
(* order or receipt is given back, a failed mirror write is reported.      *)
(***************************************************************************)
HandledOnly ==
    /\ Exclusive = TRUE /\ MaxRestarts = 0 /\ CanEdit = FALSE
    /\ Refusable \cap {"release", "undo", "cache", "save", "drop"} = {}
    /\ Losable \cap {"reserve", "order", "drop"} = {}
    /\ \A m \in AdminMoves : m[1] = "pending" \/ m[2] = "declined" \/ m[1] = m[2]

\* A pending order has its units, so confirming it never takes them.
Applied(o) == cache[o].status = "pending" => cache[o].applied

\* No request takes units at a decision, edits, or reopens an order.
Onward(r) ==
    /\ r.pc \notin {"take", "editRecord", "editCache"}
    /\ r.pc \in {"give", "save"} /\ r.goal = "pending" => r.row.status = "pending"

\* A record without its row in SQLite is still being written.
InOrder(w, o) ==
    /\ Clean(o) /\ Applied(o) /\ Onward(req[w])
    /\ \/ cache[o] # NoRow \/ table[o] = NoRow
       \/ req[w].pc \in {"receipt", "undo", "insert"}

\* A step that writes no record, and the request moves on or ends.
LEMMA StoresStand ==
  ASSUME TypeOK, NEW w \in Workers, NEW o \in Orders, InOrder(w, o), WorksOn(w, o),
         UNCHANGED <<table, cache, causes>>, Onward(req[w])',
         req[w].pc \notin {"receipt", "undo", "insert"}
            \/ req'[w].pc \in {"receipt", "undo", "insert"}
  PROVE  InOrder(w, o)'
  BY DEF InOrder, Clean, Applied

\* A checkout that looks, reserves or gives back.
LEMMA ReservingInOrder ==
  ASSUME HandledOnly, TypeOK, NEW w \in Workers, NEW o \in Orders, WorksOn(w, o),
         Stage(req[w]), InOrder(w, o)
  PROVE  /\ Validate(w) => InOrder(w, o)'
         /\ RefuseSoldOut(w) => InOrder(w, o)'
         /\ AnswerDuplicate(w) => InOrder(w, o)'
         /\ PassDuplicate(w) => InOrder(w, o)'
         /\ \A l \in Lines : /\ ReserveLine(w, l) => InOrder(w, o)'
                             /\ ReserveRefused(w, l) => InOrder(w, o)'
                             /\ ~ReserveReplyLost(w, l)
                             /\ RollBackLine(w, l) => InOrder(w, o)'
         /\ UploadProof(w) => InOrder(w, o)'
         /\ UploadRefused(w) => InOrder(w, o)'
         /\ RecordRefused(w) => InOrder(w, o)'
         /\ RecordReceipt(w) => InOrder(w, o)'
<1>a. req \in [Workers -> Request] /\ req[w].order = o
  BY DEF TypeOK, WorksOn
<1>1. ASSUME NEW pc \in {"idle", "lookup", "reserve", "rollback", "proof", "record"},
             req'[w].pc = pc, UNCHANGED <<table, cache, causes>>,
             req[w].pc \notin {"receipt", "undo", "insert"}
      PROVE  InOrder(w, o)'
  <2>1. Onward(req[w])'
    BY <1>1 DEF Onward
  <2> QED
    BY <1>1, <2>1, StoresStand
<1>2. ASSUME Validate(w) PROVE InOrder(w, o)'
  BY <1>1, <1>2, <1>a, GotoMoves DEF Validate, Moved, stores
<1>3. ASSUME RefuseSoldOut(w) \/ AnswerDuplicate(w) PROVE InOrder(w, o)'
  BY <1>1, <1>3, <1>a, AnswerEnds DEF RefuseSoldOut, AnswerDuplicate, Ended, stores
<1>4. ASSUME PassDuplicate(w) PROVE InOrder(w, o)'
  <2>1. req'[w].pc = "reserve"
    BY <1>4, <1>a DEF PassDuplicate, Become, Request
  <2> QED
    BY <1>1, <1>4, <2>1 DEF PassDuplicate, stores
<1>5. ASSUME NEW l \in Lines, ReserveLine(w, l) PROVE InOrder(w, o)'
  <2>1. req'[w].pc \in {"reserve", "record", "proof"}
    BY <1>5, <1>a DEF ReserveLine, Become, Request
  <2> QED
    BY <1>1, <1>5, <2>1 DEF ReserveLine, stores
<1>6. ASSUME NEW held, Unwind(w, held), UNCHANGED <<table, cache, causes>>,
             req[w].pc \notin {"receipt", "undo", "insert"}
      PROVE  InOrder(w, o)'
  <2>1. req'[w].pc \in {"idle", "rollback"}
    BY <1>6, <1>a, UnwindMoves DEF Ended, Moved
  <2> QED
    BY <1>1, <1>6, <2>1
<1>7. ASSUME NEW l \in Lines, ReserveRefused(w, l) \/ RollBackLine(w, l)
      PROVE  InOrder(w, o)'
  BY <1>6, <1>7 DEF ReserveRefused, RollBackLine, HandledOnly, stores
<1>8. ASSUME UploadRefused(w) \/ RecordRefused(w) PROVE InOrder(w, o)'
  BY <1>6, <1>8 DEF UploadRefused, RecordRefused, stores
<1>9. ASSUME UploadProof(w) PROVE InOrder(w, o)'
  <2>1. req'[w].pc = "record"
    BY <1>9, <1>a DEF UploadProof, Become, Request
  <2> QED
    BY <1>1, <1>9, <2>1 DEF UploadProof, stores
<1>10. ASSUME RecordReceipt(w) PROVE InOrder(w, o)'
  <2>1. req'[w].pc \in {"insert", "undo"}
    BY <1>10, <1>a, GotoMoves DEF RecordReceipt, Moved
  <2>2. Onward(req[w])'
    BY <2>1 DEF Onward
  <2> QED
    BY <1>10, <2>1, <2>2, StoresStand DEF RecordReceipt, stores
<1>11. \A l \in Lines : ~ReserveReplyLost(w, l)
  BY DEF ReserveReplyLost, HandledOnly
<1> QED
  BY <1>2, <1>3, <1>4, <1>5, <1>7, <1>8, <1>9, <1>10, <1>11

\* A checkout that writes its records.
LEMMA RecordingInOrder ==
  ASSUME HandledOnly, TypeOK, NEW w \in Workers, NEW o \in Orders, WorksOn(w, o),
         Stage(req[w]), InOrder(w, o)
  PROVE  /\ RecordOrder(w) => InOrder(w, o)'
         /\ ~RecordReplyLost(w)
         /\ UndoOrder(w) => InOrder(w, o)'
         /\ InsertCache(w) => InOrder(w, o)'
         /\ FinishCheckout(w) => InOrder(w, o)'
<1>a. /\ req \in [Workers -> Request] /\ req[w].order = o /\ causes \in [Orders -> SUBSET Causes]
      /\ table[o] \in Row \cup {NoRow} /\ cache[o] \in Row \cup {NoRow}
  BY DEF TypeOK, WorksOn
<1>b. /\ \A p : NewRow(p) # NoRow /\ (NewRow(p).status = "pending" => NewRow(p).applied)
      /\ NoRow.status # "pending"
  BY DEF NewRow, PlacedRow, WalkInRow, NoRow
<1>1. ASSUME RecordOrder(w) PROVE InOrder(w, o)'
  <2>1. req'[w].pc \in {"receipt", "insert"}
    BY <1>1, <1>a DEF RecordOrder, Become, Request
  <2>2. table[o] = NoRow
    BY <1>1, <1>a DEF RecordOrder, Stage, InOrder
  <2>3. Clean(o)'
    BY <1>1, <1>a, <2>2 DEF RecordOrder, Blame, Clean, InOrder
  <2>4. Applied(o)'
    BY <1>1 DEF RecordOrder, UpsertOrder, Applied, InOrder
  <2> QED
    BY <2>1, <2>3, <2>4 DEF InOrder, Onward
<1>2. ~RecordReplyLost(w)
  BY DEF RecordReplyLost, HandledOnly
<1>3. ASSUME UndoOrder(w) PROVE InOrder(w, o)'
  <2>1. req'[w].pc \in {"idle", "rollback"}
    BY <1>3, <1>a, UnwindMoves DEF UndoOrder, Ended, Moved
  <2>2. table'[o] = NoRow /\ UNCHANGED <<cache, causes>>
    BY <1>3, <1>a DEF UndoOrder, HandledOnly, TypeOK
  <2> QED
    BY <2>1, <2>2 DEF InOrder, Onward, Clean, Applied
<1>4. ASSUME InsertCache(w) PROVE InOrder(w, o)'
  <2>1. req'[w].pc \in {"idle", "referral"}
    BY <1>4, <1>a, AnswerEnds, GotoMoves DEF InsertCache, Ended, Moved
  <2>2. cache'[o] = (IF cache[o] = NoRow \/ o \in WalkIns THEN NewRow(o) ELSE cache[o])
        /\ causes' = causes
    BY <1>4, <1>a DEF InsertCache, HandledOnly, TypeOK
  <2>3. cache'[o] # NoRow /\ (cache'[o].status = "pending" => cache'[o].applied)
    BY <1>b, <2>2 DEF InOrder, Applied
  <2> QED
    BY <2>1, <2>2, <2>3 DEF InOrder, Onward, Clean, Applied
<1>5. ASSUME FinishCheckout(w) PROVE InOrder(w, o)'
  <2>1. req'[w].pc = "idle"
    BY <1>5, <1>a, AnswerEnds DEF FinishCheckout, Ended
  <2>2. UNCHANGED <<table, causes>> /\ req[w].pc = "referral"
    BY <1>5 DEF FinishCheckout
  <2>3. CASE cache' = cache
    BY <2>1, <2>2, <2>3 DEF InOrder, Onward, Clean, Applied
  <2>4. CASE cache[o] # NoRow /\ cache' = [cache EXCEPT ![o].applied = TRUE]
    <3>1. cache'[o] = [cache[o] EXCEPT !.applied = TRUE] /\ cache[o] \in Row
      BY <1>a, <2>4 DEF TypeOK
    <3>2. cache'[o].applied = TRUE /\ cache'[o].status \in Statuses
      BY <3>1 DEF Row
    <3>3. cache'[o] # NoRow
      BY <3>2 DEF NoRow, Statuses
    <3> QED
      BY <2>1, <2>2, <3>2, <3>3 DEF InOrder, Onward, Clean, Applied
  <2> QED
    BY <1>5, <1>a, <2>3, <2>4 DEF FinishCheckout
<1> QED
  BY <1>1, <1>2, <1>3, <1>4, <1>5

\* The admin's requests.
LEMMA DecidingInOrder ==
  ASSUME HandledOnly, TypeOK, NEW w \in Workers, NEW o \in Orders, WorksOn(w, o),
         Stage(req[w]), InOrder(w, o)
  PROVE  /\ \A l \in Lines : ~TakeLine(w, l) /\ (GiveLine(w, l) => InOrder(w, o)')
         /\ SaveDecision(w) => InOrder(w, o)'
         /\ ~SaveRefused(w)
         /\ MirrorDecision(w) => InOrder(w, o)'
         /\ MirrorFailed(w) => InOrder(w, o)'
         /\ DropRecord(w) => InOrder(w, o)'
         /\ ~DropRefused(w)
         /\ ForgetOrder(w) => InOrder(w, o)'
         /\ ~EditRecord(w) /\ ~EditCache(w)
<1>a. /\ req \in [Workers -> Request] /\ req[w].order = o
      /\ table[o] \in Row \cup {NoRow} /\ cache[o] \in Row \cup {NoRow}
      /\ Onward(req[w])
  BY DEF TypeOK, WorksOn, InOrder
<1>1. ASSUME NEW l \in Lines, GiveLine(w, l) PROVE InOrder(w, o)'
  <2>1. Advance(w, l, {l}) /\ UNCHANGED <<table, cache, causes>>
    BY <1>1 DEF GiveLine, HandledOnly, stores
  <2>2. /\ req'[w].pc \in {"give", "drop", "save"} /\ req'[w].goal = req[w].goal
        /\ req'[w].row = req[w].row /\ req[w].pc = "give"
    BY <1>1, <1>a, <2>1, AdvanceMoves DEF Moved, GiveLine
  <2>3. Onward(req[w])'
    BY <1>a, <2>2 DEF Onward
  <2> QED
    BY <2>1, <2>2, <2>3, StoresStand
<1>2. ASSUME SaveDecision(w) PROVE InOrder(w, o)'
  <2>1. PICK row : row = Synced(req[w].row, req[w].goal)
    OBVIOUS
  <2>2. /\ cache' = Overwrite(cache, o, row) /\ UNCHANGED <<table, causes>>
        /\ Become(w, [req[w] EXCEPT !.pc = "mirror", !.row = row, !.moved = {}])
        /\ req[w].pc = "save" /\ req[w].goal \in Statuses
    BY <1>2, <1>a, <2>1 DEF SaveDecision, TypeOK, WellFormed
  <2>3. req'[w].pc = "mirror"
    BY <1>a, <2>2 DEF Become, Request
  <2>4. cache[o] = req[w].row /\ cache[o] \in Row
    BY <1>a, <2>2 DEF Stage
  <2>5. cache'[o] = row
    BY <2>2, <2>4, RowFacts DEF Overwrite, TypeOK
  <2>6. row.status = req[w].goal /\ row # NoRow
    BY <2>1, <2>2, RowsStay
  <2>7. ASSUME row.status = "pending" PROVE row.applied
    <3>1. req[w].row.status = "pending"
      BY <1>a, <2>2, <2>6, <2>7 DEF Onward
    <3>2. req[w].row.applied
      BY <2>4, <3>1 DEF InOrder, Applied
    <3>3. ~Clears(req[w].row, req[w].goal)
      BY <2>6, <2>7, <3>1 DEF Clears
    <3> QED
      BY <2>1, <3>2, <3>3 DEF Synced
  <2> QED
    BY <2>2, <2>3, <2>5, <2>6, <2>7 DEF InOrder, Onward, Clean, Applied
<1>3. ASSUME MirrorDecision(w) \/ MirrorFailed(w) PROVE InOrder(w, o)'
  <2>1. req'[w].pc = "idle"
    BY <1>3, <1>a, AnswerEnds DEF MirrorDecision, MirrorFailed, Ended
  <2>2. UNCHANGED <<cache, causes>> /\ req[w].pc = "mirror"
    BY <1>3 DEF MirrorDecision, MirrorFailed
  <2>3. cache[o] # NoRow
    BY <1>a, <2>2 DEF Stage
  <2> QED
    BY <2>1, <2>2, <2>3 DEF InOrder, Onward, Clean, Applied
<1>4. ASSUME DropRecord(w) PROVE InOrder(w, o)'
  <2>1. req'[w].pc = "forget"
    BY <1>4, <1>a, GotoMoves DEF DropRecord, Moved
  <2>2. table'[o] = NoRow /\ UNCHANGED <<cache, causes>>
    BY <1>4, <1>a DEF DropRecord, TypeOK
  <2> QED
    BY <2>1, <2>2 DEF InOrder, Onward, Clean, Applied
<1>5. ASSUME ForgetOrder(w) PROVE InOrder(w, o)'
  <2>1. req'[w].pc = "idle"
    BY <1>5, <1>a, AnswerEnds DEF ForgetOrder, Ended
  <2>2. table[o] = NoRow /\ UNCHANGED <<table, causes>> /\ cache'[o] = NoRow
    BY <1>5, <1>a DEF ForgetOrder, Stage, HandledOnly, TypeOK
  <2>3. NoRow.status # "pending"
    BY DEF NoRow
  <2> QED
    BY <2>1, <2>2, <2>3 DEF InOrder, Onward, Clean, Applied
<1>6. /\ \A l \in Lines : ~TakeLine(w, l)
      /\ ~EditRecord(w) /\ ~EditCache(w)
  BY <1>a DEF Onward, TakeLine, EditRecord, EditCache
<1>7. ~SaveRefused(w) /\ ~DropRefused(w)
  BY DEF SaveRefused, DropRefused, HandledOnly
<1> QED
  BY <1>1, <1>2, <1>3, <1>4, <1>5, <1>6, <1>7

\* So it is with every order and every request.
AllInOrder ==
    /\ AllClean
    /\ \A w \in Workers : Onward(req[w])
    /\ \A o \in Orders :
          /\ Applied(o)
          /\ cache[o] # NoRow \/ table[o] = NoRow \/ \E w \in Workers : Recording(w, o)

\* An order of no concern to the step stays so.
LEMMA OthersInOrder ==
  ASSUME NEW p \in Orders, Untouched(p), AllInOrder
  PROVE  /\ Clean(p)' /\ Applied(p)'
         /\ cache'[p] # NoRow \/ table'[p] = NoRow \/ \E w \in Workers : Recording(w, p)'
<1>1. Clean(p)' /\ Applied(p)'
  BY DEF AllInOrder, AllClean, Clean, Applied, Untouched
<1>2. ASSUME NEW v \in Workers, Recording(v, p) PROVE Recording(v, p)'
  BY <1>2 DEF Recording, WorksOn, Busy, Untouched
<1> QED
  BY <1>1, <1>2 DEF AllInOrder, Untouched

\* With the handled failures only, a step leaves every order in order.
LEMMA StepsInOrder ==
  ASSUME HandledOnly, Inductive, AllInOrder, NEW w \in Workers, Step(w)
  PROVE  AllInOrder'
<1>1. TypeOK /\ Books /\ \A o \in Orders : OrderInv(o)
  BY DEF Inductive, Books, AllInOrder, AllClean
<1>2. PICK o \in Orders : WorksOn(w, o)
  BY <1>1, StepIsBusy DEF TypeOK, WellFormed, WorksOn, Busy
<1>3. Within(w, o)
  BY <1>1, <1>2, StepsKeep
<1>4. Stage(req[w])
  BY <1>1, <1>2 DEF OrderInv, Staged
<1>5. InOrder(w, o)
  BY <1>1, <1>2 DEF AllInOrder, AllClean, InOrder, Recording, OrderInv, Alone
<1>6. InOrder(w, o)'
  BY <1>1, <1>2, <1>4, <1>5, ReservingInOrder, RecordingInOrder, DecidingInOrder DEF Step
<1>7. /\ Clean(o)' /\ Applied(o)'
      /\ cache'[o] # NoRow \/ table'[o] = NoRow \/ Recording(w, o)'
  BY <1>3, <1>6 DEF InOrder, Recording, Within, WorksOn, Busy
<1>8. \A p \in Orders \ {o} : Untouched(p)
  BY <1>2, <1>3, OthersUntouched DEF WorksOn
<1>9. \A v \in Workers : Onward(req[v])'
  BY <1>3, <1>6 DEF InOrder, Within, AllInOrder, Onward
<1>10. AllClean'
  BY <1>7, <1>8, OthersInOrder DEF AllClean
<1> QED
  BY <1>7, <1>8, <1>9, <1>10, OthersInOrder DEF AllInOrder

\* A request begins alone, and asks for nothing that would be reopened.
LEMMA ArrivalsInOrder ==
  ASSUME HandledOnly, Inductive, AllInOrder, NEW w \in Workers, NEW o \in Orders,
         Arrive(w, o)
  PROVE  AllInOrder'
<1>1. TypeOK
  BY DEF Inductive
<1>2. \E r : Begin(w, o, r) /\ Onward(r)
  <2>1. CASE PostCheckout(w, o)
    <3> DEFINE r == [Idle EXCEPT !.pc = "validate", !.order = o]
    <3>1. r.pc = "validate"
      BY DEF Idle
    <3>2. Begin(w, o, r)
      BY <2>1 DEF PostCheckout
    <3> HIDE DEF r
    <3> QED
      BY <3>1, <3>2 DEF Onward
  <2>2. CASE PostWalkIn(w, o)
    <3> DEFINE r == [Idle EXCEPT !.pc = "reserve", !.order = o, !.todo = LinesOf(o)]
    <3>1. r.pc = "reserve"
      BY DEF Idle
    <3>2. Begin(w, o, r)
      BY <2>2 DEF PostWalkIn
    <3> HIDE DEF r
    <3> QED
      BY <3>1, <3>2 DEF Onward
  <2>3. ASSUME NEW new \in Statuses, RequestStatus(w, o, new)
        PROVE  \E r : Begin(w, o, r) /\ Onward(r)
    <3>0. PICK row : row = cache[o]
      OBVIOUS
    <3> DEFINE pc   == IF Takes(row, new) THEN "take"
                       ELSE IF Gives(row, new) THEN "give" ELSE "save"
               todo == IF Takes(row, new) \/ Gives(row, new) THEN LinesOf(o) ELSE {}
               r    == [Idle EXCEPT !.pc = pc, !.order = o, !.row = row,
                                    !.goal = new, !.todo = todo]
    <3>1. Begin(w, o, r) /\ row \in Row /\ <<row.status, new>> \in AdminMoves
      BY <1>1, <2>3, <3>0 DEF RequestStatus, TypeOK
    <3>2. row.status = "pending" => row.applied
      BY <3>0 DEF AllInOrder, Applied
    <3>3. \/ row.status = "pending" \/ new = "declined" \/ row.status = new
      BY <3>1 DEF HandledOnly
    <3>4. ~Takes(row, new)
      BY <3>2, <3>3 DEF Takes
    <3>5. new = "pending" => row.status = "pending"
      BY <3>3
    <3>6. pc \in {"give", "save"}
      BY <3>4
    <3> HIDE DEF pc, todo
    <3>7. r.pc = pc /\ r.goal = new /\ r.row = row
      BY DEF Idle
    <3> HIDE DEF r
    <3> QED
      BY <3>1, <3>5, <3>6, <3>7 DEF Onward
  <2>4. CASE RequestDelete(w, o)
    <3>0. PICK row : row = cache[o]
      OBVIOUS
    <3> DEFINE pc   == IF Owes(row) THEN "give" ELSE "drop"
               todo == IF Owes(row) THEN LinesOf(o) ELSE {}
               r    == [Idle EXCEPT !.pc = pc, !.order = o, !.row = row,
                                    !.goal = "delete", !.todo = todo]
    <3>1. pc \in {"give", "drop"}
      OBVIOUS
    <3>2. Begin(w, o, r)
      BY <2>4, <3>0 DEF RequestDelete
    <3> HIDE DEF pc, todo
    <3>3. r.pc = pc /\ r.goal = "delete"
      BY DEF Idle
    <3> HIDE DEF r
    <3> QED
      BY <3>1, <3>2, <3>3 DEF Onward
  <2>5. ~RequestEdit(w, o)
    BY DEF RequestEdit, HandledOnly
  <2> QED
    BY <2>1, <2>2, <2>3, <2>4, <2>5 DEF Arrive
<1>3. PICK r : Begin(w, o, r) /\ Onward(r)
  BY <1>2
<1>4. /\ ~Busy(w) /\ OthersWait(w) /\ req'[w] = r
      /\ causes' = causes
  <2>1. \A v \in Workers : ~WorksOn(v, o)
    BY <1>3 DEF Begin, HandledOnly
  <2>2. causes' = [causes EXCEPT ![o] = @ \cup {}]
    BY <1>3, <2>1 DEF Begin, Blame
  <2> QED
    BY <1>1, <1>3, <2>2, BeginIs DEF TypeOK
<1>5. UNCHANGED <<table, cache>>
  BY DEF Arrive, PostCheckout, PostWalkIn, RequestStatus, RequestDelete, RequestEdit,
     stores
<1>6. \A p \in Orders, v \in Workers : Recording(v, p) => Recording(v, p)'
  BY <1>4 DEF Recording, WorksOn, Busy, OthersWait
<1>7. \A v \in Workers : Onward(req[v])'
  BY <1>3, <1>4 DEF OthersWait, AllInOrder, Onward
<1>8. AllClean' /\ \A p \in Orders : Applied(p)'
  BY <1>4, <1>5 DEF AllInOrder, AllClean, Clean, Applied
<1> QED
  BY <1>5, <1>6, <1>7, <1>8 DEF AllInOrder

\* Every step keeps the shop in order.
LEMMA NextInOrder ==
  ASSUME HandledOnly
  PROVE  Inductive /\ AllInOrder /\ [Next]_vars => AllInOrder'
<1> SUFFICES ASSUME Inductive, AllInOrder, [Next]_vars PROVE AllInOrder'
  OBVIOUS
<1>1. ASSUME UNCHANGED <<table, cache, causes, req>> PROVE AllInOrder'
  BY <1>1 DEF AllInOrder, AllClean, Clean, Applied, Onward, Recording, WorksOn, Busy
<1>2. CASE \E l \in Lines : Toggle(l)
  BY <1>1, <1>2 DEF Toggle, stores
<1>3. CASE UNCHANGED vars
  BY <1>1, <1>3 DEF vars
<1>4. ~Restart
  BY DEF Restart, HandledOnly, Inductive, TypeOK
<1> QED
  BY <1>2, <1>3, <1>4, StepsInOrder, ArrivalsInOrder DEF Next

\* The empty shop is in order.
LEMMA InitInOrder == Init => AllInOrder
  BY DEF Init, AllInOrder, AllClean, Clean, Onward, Idle, Applied, NoRow

(***************************************************************************)
(* Where only the calls fail that the code answers for, nothing goes wrong *)
(* with any order, so the handlers implement the ledger outright: each     *)
(* refusal of a reservation, an upload, an order or a receipt gives back   *)
(* what was taken, and no retry of a checkout gets past the first.         *)
(***************************************************************************)
THEOREM HandledFailuresKeepLedger ==
  ASSUME HandledOnly PROVE Spec => []AllClean /\ ImplementsLedger
<1>1. Inductive /\ AllInOrder /\ [Next]_vars => AllInOrder'
  BY NextInOrder
<1>2. AllInOrder => AllClean
  BY DEF AllInOrder
<1>3. Spec => []AllClean
  BY <1>1, <1>2, InitInOrder, AlwaysInductive, PTL DEF Spec
<1> QED
  BY <1>3, CleanShopKeepsLedger, PTL
==============================================================================
