-------------------------- MODULE ProductBinProofs --------------------------
(***************************************************************************)
(* A product is lost track of, or comes out of the Trash by itself, only   *)
(* in the known ways, and one deleted for good stays away: for any number  *)
(* of products, requests, refused calls, lost replies and redeploys.       *)
(***************************************************************************)
EXTENDS ProductBinProperties, TLAPS

\* What a step of somebody else leaves of what request s relies on: what it
\* changes of a product, it marks as changed for s.
Frame(s) ==
    /\ req'[s] = req[s] /\ off[s] \subseteq off'[s]
    /\ asked \subseteq asked' /\ excused \subseteq excused' /\ ledger \subseteq ledger'
    /\ \A q \in Products : row'[q] = "gone" => row[q] = "gone" \/ q \in ledger'
    /\ \A q \in Products \ off'[s] :
          /\ trash'[q] = trash[q] /\ (q \in tombs' <=> q \in tombs)
          /\ q \notin asked' => /\ row'[q] = row[q]
                                /\ q \in ledger' <=> q \in ledger
          /\ q \in binned' => \/ q \in binned \cup ledger' \/ req[s].p # q
                              \/ req[s].pc \notin Clearing

\* The idle request is a request.
LEMMA IdleTyped == Idle \in Request
  BY DEF Idle, Request, PCs, AllOps, Nothing, Entries

\* A request with another list of tombstones is a request.
LEMMA ListTyped ==
  ASSUME NEW q \in Request, NEW pc \in PCs, NEW list \in SUBSET Products
  PROVE  [q EXCEPT !.pc = pc, !.tombs = list] \in Request
  BY DEF Request

\* What the type of a request says of its fields.
LEMMA RequestFields ==
  ASSUME BinTypeOK, NEW r \in Requests
  PROVE  /\ req[r] \in Request /\ off[r] \subseteq Products
         /\ req[r].p \in Products \cup {NoProduct}
         /\ req[r].trash \in [Products -> Entries]
         /\ req[r].tombs \subseteq Products
  BY DEF BinTypeOK, Request

\* A request that a step does not touch stays on a step of its own operation.
LEMMA FrameRouted ==
  ASSUME BinInductive, NEW s \in Requests, Frame(s)
  PROVE  Routed(s)'
  BY DEF BinInductive, Frame, Routed

\* What it knows of the tombstones stays as fresh as it was.
LEMMA FrameFresh ==
  ASSUME BinInductive, NEW s \in Requests, Frame(s)
  PROVE  Fresh(s)'
  BY DEF BinInductive, Frame, Fresh

\* What it has established at its stage stays established.
LEMMA FrameStaged ==
  ASSUME BinInductive, NEW s \in Requests, Frame(s)
  PROVE  Staged(s)'
  <1> DEFINE p == req[s].p
  <1>1. /\ req'[s] = req[s] /\ Staged(s) /\ Routed(s)
        /\ ledger \subseteq ledger' /\ off[s] \subseteq off'[s]
    BY DEF BinInductive, Frame
  <1>2. CASE req[s].pc = "idle"
    BY <1>1, <1>2 DEF Staged, Routed, Clearing
  <1>3. ASSUME req[s].pc # "idle"
        PROVE  req[s].pc = "revive" => row'[p] # "gone" \/ p \in ledger'
    <2>1. p \in Products
      BY <1>1, <1>3 DEF Routed
    <2> QED
      BY <1>1, <2>1 DEF Frame, Staged
  <1>4. CASE req[s].pc # "idle" /\ p \in off'[s]
    BY <1>1, <1>3, <1>4 DEF Staged, Moved, Routed
  <1>5. CASE req[s].pc # "idle" /\ p \notin off'[s]
    <2>1. p \in Products
      BY <1>1, <1>5 DEF Routed
    <2>2. /\ trash'[p] = trash[p] /\ (p \in tombs' <=> p \in tombs)
          /\ p \notin asked' => /\ row'[p] = row[p]
                                /\ p \in ledger' <=> p \in ledger
          /\ p \in binned' => p \in binned \cup ledger' \/ req[s].pc \notin Clearing
      BY <2>1, <1>5 DEF Frame
    <2>3. Moved(s) => Moved(s)'
      BY <1>1 DEF Moved, Frame
    <2>4. Standing(p) => Standing(p)' \/ Moved(s)'
      BY <2>2, <1>1 DEF Standing, Moved
    <2>5. p \notin off[s]
      BY <1>1, <1>5
    <2> QED
      BY <1>1, <1>3, <1>5, <2>2, <2>3, <2>4, <2>5 DEF Staged, Moved
  <1> QED
    BY <1>2, <1>4, <1>5

\* Two requests that a step does not touch stay disentangled.
LEMMA FrameCrossing ==
  ASSUME BinInductive, NEW r \in Requests, NEW s \in Requests, r # s,
         Frame(r), Frame(s)
  PROVE  Crossing(r, s)'
  <1>1. /\ Crossing(r, s) /\ Routed(r) /\ req'[r] = req[r] /\ req'[s] = req[s]
        /\ off[r] \subseteq off'[r] /\ off[s] \subseteq off'[s]
        /\ ledger \subseteq ledger'
    BY DEF BinInductive, Frame
  <1> SUFFICES ASSUME req[r].pc \in Clearing,
                      req[r].p \notin off'[r] \cup off'[s]
               PROVE  Crossing(r, s)'
    BY <1>1 DEF Crossing
  <1>2. req[r].p \in Products
    BY <1>1 DEF Routed, Clearing
  <1>3. /\ trash'[req[r].p] = trash[req[r].p]
        /\ req[r].p \in tombs' <=> req[r].p \in tombs
    BY <1>2 DEF Frame
  <1> QED
    BY <1>1, <1>3 DEF Crossing

\* What has to be shown of a step of request r.
LEMMA Assemble ==
  ASSUME BinInductive, NEW r \in Requests,
         \A s \in Requests \ {r} : Frame(s),
         BinTypeOK', (jobs \subseteq asked)', NothingLost', BinnedStaysOut',
         Routed(r)', Fresh(r)', Staged(r)',
         \A s \in Requests \ {r} : Crossing(r, s)' /\ Crossing(s, r)'
  PROVE  BinInductive'
  <1>1. \A s \in Requests : Routed(s)' /\ Fresh(s)' /\ Staged(s)'
    BY FrameRouted, FrameFresh, FrameStaged
  <1>2. \A s, t \in Requests : s # t => Crossing(s, t)'
    BY FrameCrossing
  <1> QED
    BY <1>1, <1>2 DEF BinInductive

------------------------------------------------------------------------------
(* What the helpers do.                                                    *)

\* Replacing one request's record leaves the others as they were.
LEMMA Changed ==
  ASSUME BinTypeOK, NEW r \in Requests, NEW q \in Request,
         req' = [req EXCEPT ![r] = q]
  PROVE  /\ req' \in [Requests -> Request]
         /\ req'[r] = q /\ \A s \in Requests \ {r} : req'[s] = req[s]
  BY DEF BinTypeOK

\* A request that is over relies on nothing.
LEMMA Ended ==
  ASSUME BinTypeOK, NEW r \in Requests, End(r)
  PROVE  /\ req' \in [Requests -> Request]
         /\ req'[r] = Idle /\ \A s \in Requests \ {r} : req'[s] = req[s]
         /\ Routed(r)' /\ Fresh(r)' /\ Staged(r)'
         /\ \A s \in Requests \ {r} : Crossing(r, s)' /\ Crossing(s, r)'
  <1>1. /\ req' \in [Requests -> Request]
        /\ req'[r] = Idle /\ \A s \in Requests \ {r} : req'[s] = req[s]
    BY IdleTyped, Changed DEF End
  <1>2. Idle.pc = "idle" /\ Idle.op = "none"
    BY DEF Idle
  <1> QED
    BY <1>1, <1>2 DEF Routed, Fresh, Staged, Crossing, Deleting, Clearing

\* Going to the next step changes only the step.
LEMMA Went ==
  ASSUME BinTypeOK, NEW r \in Requests, NEW pc \in PCs, Goto(r, pc)
  PROVE  /\ req' \in [Requests -> Request]
         /\ \A s \in Requests \ {r} : req'[s] = req[s]
         /\ req'[r].pc = pc /\ req'[r].op = req[r].op /\ req'[r].p = req[r].p
         /\ req'[r].trash = req[r].trash /\ req'[r].tombs = req[r].tombs
         /\ req'[r].sure = req[r].sure /\ req'[r].left = req[r].left
  <1>1. req \in [Requests -> Request]
    BY DEF BinTypeOK
  <1> QED
    BY <1>1 DEF Goto, Request

\* A write that others have read past is off for each of them, and excused for the writer.
LEMMA Touched ==
  ASSUME BinTypeOK, NEW r \in Requests, NEW ps \in SUBSET Products,
         NEW also \in SUBSET Products, Touch(r, ps, also)
  PROVE  /\ off' \in [Requests -> SUBSET Products] /\ off'[r] = off[r]
         /\ \A s \in Requests \ {r} : off'[s] = off[s] \cup ps
         /\ excused' = excused \cup (ps \cap off[r]) \cup also
         /\ excused' \subseteq Products
  BY DEF BinTypeOK, Touch

\* A write of the Trash: what it changes it marks, and excuses if it was out
\* of date.
LEMMA TrashWritten ==
  ASSUME BinTypeOK, NEW r \in Requests, NEW new \in [Products -> Entries],
         NEW end, WriteTrash(r, new, end)
  PROVE  /\ trash' \in [Products -> Entries] /\ off' \in [Requests -> SUBSET Products]
         /\ excused \subseteq excused' /\ excused' \subseteq Products
         /\ off'[r] = off[r] /\ \A s \in Requests : off[s] \subseteq off'[s]
         /\ \A q \in Products : trash'[q] # trash[q] =>
               /\ trash'[q] = new[q]
               /\ \A s \in Requests \ {r} : q \in off'[s]
               /\ q \in off[r] => q \in excused'
         /\ end # "refused" => trash' = new
  <1>1. CASE end = "refused"
    BY <1>1 DEF WriteTrash, Untouched, BinTypeOK
  <1>2. CASE end # "refused"
    <2>1. trash' = new /\ Touch(r, {p \in Products : new[p] # trash[p]}, {})
      BY <1>2 DEF WriteTrash
    <2> DEFINE ps == {p \in Products : new[p] # trash[p]}
    <2>2. ps \in SUBSET Products /\ {} \in SUBSET Products
      OBVIOUS
    <2>3. /\ off' \in [Requests -> SUBSET Products] /\ off'[r] = off[r]
          /\ \A s \in Requests \ {r} : off'[s] = off[s] \cup ps
          /\ excused' = excused \cup (ps \cap off[r]) \cup {}
          /\ excused' \subseteq Products
      BY <2>1, <2>2, Touched
    <2> QED
      BY <2>1, <2>3
  <1> QED
    BY <1>1, <1>2

\* What a request learns from the tombstones is the store's, but for what it
\* knows to be out of date; nobody else's knowledge changes.
LEMMA Learned ==
  ASSUME BinTypeOK, NEW r \in Requests, NEW list \in Kept, Learns(r, list)
  PROVE  /\ list \subseteq Products /\ memo' \subseteq SUBSET Products
         /\ off' \in [Requests -> SUBSET Products] /\ off[r] \subseteq off'[r]
         /\ \A s \in Requests \ {r} : off'[s] = off[s]
         /\ \A q \in Products \ off'[r] : q \in list <=> q \in tombs
  <1>1. list \subseteq Products /\ tombs \subseteq Products
    BY DEF Kept, BinTypeOK
  <1>2. off' = [off EXCEPT ![r] = off[r] \cup (list \ tombs) \cup (tombs \ list)]
        /\ memo' = {list}
    BY DEF Learns
  <1>3. off[r] \cup (list \ tombs) \cup (tombs \ list) \in SUBSET Products
    BY <1>1 DEF BinTypeOK
  <1>4. /\ off' \in [Requests -> SUBSET Products]
        /\ off'[r] = off[r] \cup (list \ tombs) \cup (tombs \ list)
        /\ \A s \in Requests \ {r} : off'[s] = off[s]
    BY <1>2, <1>3 DEF BinTypeOK
  <1> QED
    BY <1>1, <1>2, <1>4

\* A step that changes nothing but the request itself and its like.
LEMMA QuietFrame ==
  ASSUME BinTypeOK, NEW r \in Requests, NEW s \in Requests \ {r},
         req'[s] = req[s],
         UNCHANGED <<row, tombs, trash, asked>>, binned' \subseteq binned,
         off[s] \subseteq off'[s], excused \subseteq excused', ledger \subseteq ledger',
         \A q \in Products \ asked : q \in ledger' <=> q \in ledger
  PROVE  Frame(s)
  BY DEF Frame

\* Nothing is lost by a step that writes none of the stores.
LEMMA SameNothingLost ==
  ASSUME NothingLost, UNCHANGED <<row, ledger, tombs, trash>>,
         asked \subseteq asked', excused \subseteq excused'
  PROVE  NothingLost'
  BY DEF NothingLost, Standing

\* A binned product stays out through a step that writes neither rows nor tombstones.
LEMMA SameBinned ==
  ASSUME BinnedStaysOut, UNCHANGED <<row, tombs>>, ledger \subseteq ledger',
         binned' \subseteq binned, excused \subseteq excused'
  PROVE  BinnedStaysOut'
  BY DEF BinnedStaysOut, Standing

------------------------------------------------------------------------------
(* The Trash.                                                              *)

\* A list that was read before and is written back, changed at the request's
\* own product alone.
LEMMA CopyWritten ==
  ASSUME BinInductive, NEW r \in Requests, req[r].op \in {"trash", "restore", "purge"},
         NEW new \in [Products -> Entries], NEW end, WriteTrash(r, new, end),
         \A q \in Products : q # req[r].p => new[q] = req[r].trash[q]
  PROVE  \A q \in Products : trash'[q] # trash[q] =>
            q = req[r].p \/ q \in excused'
  <1>1. BinTypeOK /\ Fresh(r)
    BY DEF BinInductive
  <1> TAKE q \in Products
  <1> HAVE trash'[q] # trash[q]
  <1>2. trash'[q] = new[q] /\ (q \in off[r] => q \in excused')
    BY <1>1, TrashWritten
  <1> QED
    BY <1>1, <1>2 DEF Fresh

\* The parts of the invariant that do not depend on where the request goes.
LEMMA TrashKept ==
  ASSUME BinInductive, NEW r \in Requests, req[r].op \in {"trash", "restore", "purge"},
         NEW new \in [Products -> Entries], NEW end, WriteTrash(r, new, end),
         \A q \in Products : q # req[r].p => new[q] = req[r].trash[q],
         new[req[r].p] = "none" => Standing(req[r].p) \/ Moved(r),
         req' \in [Requests -> Request],
         \A s \in Requests \ {r} : req'[s] = req[s],
         UNCHANGED <<row, ledger, tombs, local, memo, ops, binned, asked>>
  PROVE  /\ BinTypeOK' /\ (jobs \subseteq asked)' /\ NothingLost' /\ BinnedStaysOut'
         /\ \A s \in Requests \ {r} : Frame(s)
  <1>1. BinTypeOK /\ NothingLost /\ BinnedStaysOut
    BY DEF BinInductive
  <1>2. /\ trash' \in [Products -> Entries] /\ off' \in [Requests -> SUBSET Products]
        /\ excused \subseteq excused' /\ excused' \subseteq Products
        /\ \A s \in Requests : off[s] \subseteq off'[s]
        /\ \A q \in Products : trash'[q] # trash[q] =>
              /\ trash'[q] = new[q]
              /\ \A s \in Requests \ {r} : q \in off'[s]
              /\ q \in off[r] => q \in excused'
    BY <1>1, TrashWritten
  <1>3. BinTypeOK'
    BY <1>1, <1>2 DEF BinTypeOK, local
  <1>4. (jobs \subseteq asked)'
    BY DEF BinInductive, local
  <1>5. NothingLost'
    <2> SUFFICES ASSUME NEW q \in Products, ~ Standing(q)', trash'[q] = "none"
                 PROVE  q \in asked \cup excused'
      BY DEF NothingLost
    <2>1. ~ Standing(q)
      BY DEF Standing
    <2>2. CASE trash[q] = "none"
      BY <1>1, <1>2, <2>1, <2>2 DEF NothingLost
    <2>3. CASE trash[q] # "none"
      <3>1. trash'[q] = new[q] /\ (q \in off[r] => q \in excused')
        BY <1>2, <2>3
      <3>2. q = req[r].p \/ q \in excused'
        BY <2>3, CopyWritten
      <3> QED
        BY <1>2, <2>1, <3>1, <3>2 DEF Moved
    <2> QED
      BY <2>2, <2>3
  <1>6. BinnedStaysOut'
    BY <1>1, <1>2, SameBinned
  <1>7. \A s \in Requests \ {r} : Frame(s)
    BY <1>2 DEF Frame
  <1> QED
    BY <1>3, <1>4, <1>5, <1>6, <1>7

\* Writing the entry of the Trash, or writing it out, keeps the invariant.
LEMMA SaveTrashKeeps ==
  ASSUME BinInductive, NEW r \in Requests, SaveTrash(r)
  PROVE  BinInductive'
  <1> DEFINE p == req[r].p
             new == IF At(r, "bin") THEN req[r].trash ELSE Without(r)
  <1>1. BinTypeOK /\ Routed(r) /\ Fresh(r) /\ Staged(r)
    BY DEF BinInductive
  <1>2. /\ p \in Products /\ new \in [Products -> Entries]
        /\ req[r].op = (IF At(r, "bin") THEN "trash" ELSE "purge")
        /\ \A q \in Products : q # p => new[q] = req[r].trash[q]
        /\ ~ At(r, "bin") => p \in asked
        /\ At(r, "bin") => new[p] # "none" /\ new = req[r].trash
    BY <1>1, RequestFields DEF SaveTrash, At, Routed, Deleting, Staged, Without, Entries
  <1>3. PICK end \in Ends("trash") :
           /\ WriteTrash(r, new, end)
           /\ IF end # "done" THEN End(r)
              ELSE Goto(r, IF At(r, "bin") THEN "readTombs" ELSE "rpc")
    BY DEF SaveTrash
  <1>4. UNCHANGED <<row, ledger, tombs, local, memo, ops, binned, asked>>
    BY DEF SaveTrash
  <1>5. new[p] = "none" => Standing(p) \/ Moved(r)
    BY <1>2 DEF Moved
  <1> HIDE DEF new
  <1>6. CASE end # "done"
    <2>1. End(r)
      BY <1>3, <1>6
    <2> QED
      BY <1>1, <1>2, <1>3, <1>4, <1>5, <2>1, Ended, TrashKept, Assemble
  <1>7. CASE end = "done"
    <2> DEFINE pc == IF At(r, "bin") THEN "readTombs" ELSE "rpc"
    <2>1. Goto(r, pc) /\ pc \in PCs
      BY <1>3, <1>7 DEF PCs
    <2> HIDE DEF pc
    <2>2. /\ req' \in [Requests -> Request]
          /\ \A s \in Requests \ {r} : req'[s] = req[s]
          /\ req'[r].pc = pc /\ req'[r].op = req[r].op /\ req'[r].p = p
          /\ req'[r].trash = req[r].trash /\ req'[r].sure = req[r].sure
      BY <1>1, <2>1, Went
    <2>3. /\ trash' = new /\ off'[r] = off[r] /\ excused \subseteq excused'
          /\ \A s \in Requests : off[s] \subseteq off'[s]
          /\ \A q \in Products : trash'[q] # trash[q] =>
                \A s \in Requests \ {r} : q \in off'[s]
      BY <1>1, <1>2, <1>3, <1>7, TrashWritten
    <2>4. /\ BinTypeOK' /\ (jobs \subseteq asked)' /\ NothingLost' /\ BinnedStaysOut'
          /\ \A s \in Requests \ {r} : Frame(s)
      BY <1>2, <1>3, <1>4, <1>5, <2>2, TrashKept
    <2>5. Routed(r)'
      BY <1>1, <1>2, <1>4, <2>2 DEF Routed, Deleting, pc, SaveTrash, At
    <2>6. Fresh(r)'
      BY <1>1, <1>2, <2>2, <2>3 DEF Fresh, pc
    <2>7. Staged(r)'
      <3>1. CASE At(r, "bin")
        <4>1. Standing(p) \/ Moved(r)
          BY <1>1, <1>2, <3>1 DEF Staged, At
        <4>2. Standing(p)' \/ Moved(r)'
          BY <1>4, <2>2, <2>3, <4>1 DEF Standing, Moved
        <4> QED
          BY <1>2, <2>2, <2>3, <3>1, <4>2 DEF Staged, Clearing, pc
      <3>2. CASE ~ At(r, "bin")
        BY <1>2, <2>2, <3>2 DEF Staged, Clearing, pc
      <3> QED
        BY <3>1, <3>2
    <2>8. \A s \in Requests \ {r} : Crossing(r, s)' /\ Crossing(s, r)'
      <3> TAKE s \in Requests \ {r}
      <3>1. Crossing(r, s)'
        BY <2>2 DEF Crossing, Clearing, pc
      <3>2. Crossing(s, r)'
        <4> SUFFICES ASSUME At(r, "bin"), req[s].pc \in Clearing,
                            req[s].p = p, p \notin off'[r] \cup off'[s] \cup ledger
                     PROVE  p \notin tombs
          BY <1>2, <1>4, <2>2 DEF Crossing, pc
        <4>1. Crossing(s, r) /\ p \notin off[r] \cup off[s] /\ req[r].pc = "bin"
          BY <2>3 DEF BinInductive, At
        <4>2. req[r].trash[p] # trash[p] \/ p \notin tombs
          BY <1>2, <4>1 DEF Crossing
        <4>3. trash'[p] = req[r].trash[p]
          BY <1>2, <2>3
        <4> QED
          BY <1>2, <2>3, <4>2, <4>3
      <3> QED
        BY <3>1, <3>2
    <2> QED
      BY <2>4, <2>5, <2>6, <2>7, <2>8, Assemble
  <1> QED
    BY <1>6, <1>7

\* Taking a step on the Trash back keeps the invariant.
LEMMA PutBackKeeps ==
  ASSUME BinInductive, NEW r \in Requests, PutBack(r)
  PROVE  BinInductive'
  <1> DEFINE p == req[r].p
             new == IF req[r].op = "trash" THEN Without(r) ELSE req[r].trash
  <1>1. BinTypeOK /\ Routed(r) /\ Staged(r)
    BY DEF BinInductive
  <1>2. /\ p \in Products /\ new \in [Products -> Entries]
        /\ req[r].op \in {"trash", "purge"}
        /\ \A q \in Products : q # p => new[q] = req[r].trash[q]
        /\ Standing(p) \/ Moved(r)
    BY <1>1, RequestFields
    DEF PutBack, At, Routed, Deleting, Staged, Without, Entries, Moved
  <1>3. PICK end \in Ends("trash") : WriteTrash(r, new, end)
    BY DEF PutBack
  <1>4. End(r) /\ UNCHANGED <<row, ledger, tombs, local, memo, ops, binned, asked>>
    BY DEF PutBack
  <1> HIDE DEF new
  <1> QED
    BY <1>1, <1>2, <1>3, <1>4, Ended, TrashKept, Assemble

\* The restored product's leaving the Trash keeps the invariant.
LEMMA RemainKeeps ==
  ASSUME BinInductive, NEW r \in Requests, Remain(r)
  PROVE  BinInductive'
  <1>1. BinTypeOK /\ Routed(r) /\ Staged(r)
    BY DEF BinInductive
  <1>2. /\ req[r].p \in Products /\ Without(r) \in [Products -> Entries]
        /\ req[r].op = "restore"
        /\ \A q \in Products : q # req[r].p => Without(r)[q] = req[r].trash[q]
        /\ Standing(req[r].p) \/ Moved(r)
    BY <1>1, RequestFields DEF Remain, At, Routed, Staged, Without, Entries
  <1>3. PICK end \in Ends("trash") : WriteTrash(r, Without(r), end)
    BY DEF Remain
  <1>4. End(r) /\ UNCHANGED <<row, ledger, tombs, local, memo, ops, binned, asked>>
    BY DEF Remain
  <1> QED
    BY <1>1, <1>2, <1>3, <1>4, Ended, TrashKept, Assemble

------------------------------------------------------------------------------
(* Steps that leave the rows and the lists alone.                          *)

\* A step that writes only the ledger, and the record of its own request, keeps the stores sound.
LEMMA QuietKept ==
  ASSUME BinInductive, NEW r \in Requests,
         UNCHANGED <<row, tombs, trash, ops, binned, asked>>,
         ledger \subseteq ledger', ledger' \subseteq ledger \cup asked,
         off' \in [Requests -> SUBSET Products],
         \A s \in Requests \ {r} : off'[s] = off[s],
         memo' \subseteq SUBSET Products,
         excused \subseteq excused', excused' \subseteq Products,
         hidden' \subseteq Products, jobs' \subseteq asked,
         req' \in [Requests -> Request],
         \A s \in Requests \ {r} : req'[s] = req[s]
  PROVE  /\ BinTypeOK' /\ (jobs \subseteq asked)' /\ NothingLost' /\ BinnedStaysOut'
         /\ \A s \in Requests \ {r} : Frame(s)
  <1>1. BinTypeOK /\ NothingLost /\ BinnedStaysOut
    BY DEF BinInductive
  <1>2. BinTypeOK'
    BY <1>1 DEF BinTypeOK
  <1>3. NothingLost'
    BY <1>1 DEF NothingLost, Standing
  <1>4. BinnedStaysOut'
    BY <1>1, SameBinned
  <1>5. \A s \in Requests \ {r} : Frame(s)
    BY DEF Frame
  <1> QED
    BY <1>2, <1>3, <1>4, <1>5

\* A step that takes the request somewhere it relies on nothing new.
LEMMA QuietEnd ==
  ASSUME BinInductive, NEW r \in Requests, End(r),
         UNCHANGED <<row, tombs, trash, ops, binned, asked>>,
         ledger \subseteq ledger', ledger' \subseteq ledger \cup asked,
         off' \in [Requests -> SUBSET Products],
         \A s \in Requests \ {r} : off'[s] = off[s],
         memo' \subseteq SUBSET Products,
         excused \subseteq excused', excused' \subseteq Products,
         hidden' \subseteq Products, jobs' \subseteq asked
  PROVE  BinInductive'
  <1>1. BinTypeOK
    BY DEF BinInductive
  <1> QED
    BY <1>1, Ended, QuietKept, Assemble

\* Reading the tombstones keeps the invariant.
LEMMA ReadTombsKeeps ==
  ASSUME BinInductive, NEW r \in Requests, ReadTombs(r)
  PROVE  BinInductive'
  <1>1. BinTypeOK /\ Routed(r) /\ Fresh(r) /\ Staged(r) /\ req[r].pc = "readTombs"
    BY DEF BinInductive, ReadTombs, At
  <1> DEFINE Reads(list) ==
           /\ req' = [req EXCEPT ![r] = [req[r] EXCEPT !.pc = "writeTombs", !.tombs = list]]
           /\ memo' \subseteq SUBSET Products
           /\ off' \in [Requests -> SUBSET Products] /\ off[r] \subseteq off'[r]
           /\ \A s \in Requests \ {r} : off'[s] = off[s]
           /\ \A q \in Products \ off'[r] : q \in list => q \in tombs
  <1>2. PICK read \in SUBSET Products : Reads(read)
    <2>1. ASSUME NEW list \in Kept, Learns(r, list),
                 req' = [req EXCEPT ![r].pc = "writeTombs", ![r].tombs = list]
          PROVE  list \in SUBSET Products /\ Reads(list)
      <3>1. /\ list \in SUBSET Products /\ memo' \subseteq SUBSET Products
            /\ off' \in [Requests -> SUBSET Products] /\ off[r] \subseteq off'[r]
            /\ \A s \in Requests \ {r} : off'[s] = off[s]
            /\ \A q \in Products \ off'[r] : q \in list => q \in tombs
        BY <1>1, <2>1, Learned
      <3>2. req' = [req EXCEPT ![r] = [req[r] EXCEPT !.pc = "writeTombs", !.tombs = list]]
        BY <2>1
      <3> QED
        BY <3>1, <3>2
    <2>2. CASE /\ req' = [req EXCEPT ![r].pc = "writeTombs", ![r].tombs = {}]
               /\ UNCHANGED <<memo, off>>
      <3>1. {} \in SUBSET Products /\ Reads({})
        BY <1>1, <2>2 DEF BinTypeOK
      <3> QED
        BY <3>1
    <2> HIDE DEF Reads
    <2> QED
      BY <2>1, <2>2 DEF ReadTombs
  <1>3. [req[r] EXCEPT !.pc = "writeTombs", !.tombs = read] \in Request
    BY <1>1, RequestFields DEF Request, PCs
  <1>4. /\ req' \in [Requests -> Request] /\ \A s \in Requests \ {r} : req'[s] = req[s]
        /\ req'[r] = [req[r] EXCEPT !.pc = "writeTombs", !.tombs = read]
    BY <1>1, <1>2, <1>3, Changed
  <1>5. /\ req'[r].pc = "writeTombs" /\ req'[r].op = req[r].op /\ req'[r].p = req[r].p
        /\ req'[r].trash = req[r].trash /\ req'[r].tombs = read
        /\ req'[r].sure = req[r].sure
    BY <1>1, <1>4, RequestFields DEF Request
  <1>6. UNCHANGED <<row, ledger, tombs, trash, hidden, jobs, ops, binned, asked, excused>>
    BY DEF ReadTombs, store, local
  <1>7. /\ BinTypeOK' /\ (jobs \subseteq asked)' /\ NothingLost' /\ BinnedStaysOut'
        /\ \A s \in Requests \ {r} : Frame(s)
    BY <1>1, <1>2, <1>4, <1>6, QuietKept DEF BinTypeOK, BinInductive
  <1>8. Routed(r)'
    BY <1>1, <1>5, <1>6 DEF Routed, Deleting
  <1>9. Fresh(r)'
    BY <1>1, <1>2, <1>5, <1>6 DEF Fresh
  <1>10. Staged(r)'
    <2>1. Standing(req[r].p) \/ Moved(r) => Standing(req[r].p)' \/ Moved(r)'
      BY <1>2, <1>5, <1>6 DEF Standing, Moved
    <2> QED
      BY <1>1, <1>2, <1>5, <1>6, <2>1 DEF Staged, Routed, Deleting, Clearing
  <1>11. \A s \in Requests \ {r} : Crossing(r, s)' /\ Crossing(s, r)'
    <2> TAKE s \in Requests \ {r}
    <2>1. Crossing(s, r) /\ Routed(s) /\ off'[s] = off[s]
      BY <1>2 DEF BinInductive
    <2>2. Crossing(r, s)'
      BY <1>5 DEF Crossing, Clearing
    <2>3. Crossing(s, r)'
      <3> SUFFICES ASSUME req[s].pc \in Clearing, req[r].op = "trash",
                          req[r].p = req[s].p,
                          req[s].p \notin off[s] \cup off'[r] \cup ledger
                   PROVE  req[s].p \notin tombs \cup read
        BY <1>4, <1>5, <1>6, <2>1 DEF Crossing
      <3>1. req[s].p \notin tombs /\ req[s].p \in Products
        BY <1>1, <1>2, <2>1 DEF Crossing, Routed, Clearing
      <3> QED
        BY <1>2, <3>1
    <2> QED
      BY <2>2, <2>3
  <1> QED
    BY <1>7, <1>8, <1>9, <1>10, <1>11, Assemble

\* A save's look into the ledger keeps the invariant.
LEMMA CheckKeeps ==
  ASSUME BinInductive, NEW r \in Requests, Check(r)
  PROVE  BinInductive'
  <1>1. BinTypeOK /\ Routed(r) /\ Fresh(r) /\ Staged(r) /\ req[r].pc = "check"
    BY DEF BinInductive, Check, At
  <1>2. UNCHANGED <<row, ledger, tombs, trash, hidden, jobs, ops, binned, asked,
                    off, excused>>
    BY DEF Check, store, local, ghosts
  <1>3. memo' \subseteq SUBSET Products
    BY <1>1 DEF Check, BinTypeOK
  <1>4. CASE End(r)
    BY <1>1, <1>2, <1>3, <1>4, QuietEnd DEF BinTypeOK, BinInductive
  <1>5. CASE Goto(r, "upsert")
    <2>1. /\ req' \in [Requests -> Request]
          /\ \A s \in Requests \ {r} : req'[s] = req[s]
          /\ req'[r].pc = "upsert" /\ req'[r].op = req[r].op /\ req'[r].p = req[r].p
          /\ req'[r].trash = req[r].trash /\ req'[r].sure = req[r].sure
      BY <1>1, <1>5, Went DEF PCs
    <2>2. /\ BinTypeOK' /\ (jobs \subseteq asked)' /\ NothingLost' /\ BinnedStaysOut'
          /\ \A s \in Requests \ {r} : Frame(s)
      BY <1>1, <1>2, <1>3, <2>1, QuietKept DEF BinTypeOK, BinInductive
    <2>3. Routed(r)' /\ Fresh(r)'
      BY <1>1, <1>2, <2>1 DEF Routed, Fresh, Deleting
    <2>4. Staged(r)' /\ \A s \in Requests \ {r} : Crossing(r, s)' /\ Crossing(s, r)'
      BY <1>1, <2>1 DEF Staged, Routed, Crossing, Clearing
    <2> QED
      BY <2>2, <2>3, <2>4, Assemble
  <1> QED
    BY <1>4, <1>5 DEF Check

\* Writing the deletion ledger keeps the invariant.
LEMMA WriteLedgerKeeps ==
  ASSUME BinInductive, NEW r \in Requests, WriteLedger(r)
  PROVE  BinInductive'
  <1>1. /\ BinTypeOK /\ Routed(r) /\ Fresh(r) /\ Staged(r) /\ req[r].pc = "ledger"
        /\ req[r].op = "queue" /\ req[r].p \in asked
    BY DEF BinInductive, WriteLedger, At, Routed, Deleting
  <1>2. PICK b \in BOOLEAN :
           req' = [req EXCEPT ![r] = [req[r] EXCEPT !.pc = "readTombs", !.sure = b]]
    BY DEF WriteLedger
  <1>3. [req[r] EXCEPT !.pc = "readTombs", !.sure = b] \in Request
    BY <1>1, RequestFields DEF Request, PCs
  <1>4. /\ req' \in [Requests -> Request] /\ \A s \in Requests \ {r} : req'[s] = req[s]
        /\ req'[r] = [req[r] EXCEPT !.pc = "readTombs", !.sure = b]
    BY <1>1, <1>2, <1>3, Changed
  <1>5. /\ req'[r].pc = "readTombs" /\ req'[r].op = "queue" /\ req'[r].p = req[r].p
    BY <1>1, <1>4, RequestFields DEF Request
  <1>6. /\ UNCHANGED <<row, tombs, trash, hidden, jobs, memo, ops, binned, asked,
                       off, excused>>
        /\ ledger \subseteq ledger' /\ ledger' \subseteq ledger \cup asked
    BY <1>1 DEF WriteLedger, local, ghosts
  <1>7. /\ BinTypeOK' /\ (jobs \subseteq asked)' /\ NothingLost' /\ BinnedStaysOut'
        /\ \A s \in Requests \ {r} : Frame(s)
    BY <1>1, <1>4, <1>6, QuietKept DEF BinTypeOK, BinInductive
  <1>8. Routed(r)' /\ Fresh(r)' /\ Staged(r)'
    BY <1>1, <1>5, <1>6 DEF Routed, Deleting, Fresh, Staged, Clearing
  <1>9. \A s \in Requests \ {r} : Crossing(r, s)' /\ Crossing(s, r)'
    BY <1>5 DEF Crossing, Clearing
  <1> QED
    BY <1>7, <1>8, <1>9, Assemble

\* The clean-up after a deletion keeps the invariant.
LEMMA SettleDeleteKeeps ==
  ASSUME BinInductive, NEW r \in Requests, SettleDelete(r)
  PROVE  BinInductive'
  <1>1. /\ BinTypeOK /\ Routed(r) /\ Fresh(r) /\ Staged(r) /\ req[r].pc = "settle"
        /\ req[r].op \in Deleting /\ req[r].p \in asked /\ req[r].p \in Products
    BY DEF BinInductive, SettleDelete, At, Routed
  <1>2. /\ UNCHANGED <<row, ledger, tombs, trash, jobs, memo, ops, binned, asked,
                       off, excused>>
        /\ hidden' \subseteq hidden \cup {req[r].p}
    BY DEF SettleDelete, store, ghosts
  <1>3. CASE End(r)
    BY <1>1, <1>2, <1>3, QuietEnd DEF BinTypeOK, BinInductive
  <1>4. CASE req[r].op = "purge" /\ Goto(r, "putBack")
    <2>1. /\ req' \in [Requests -> Request]
          /\ \A s \in Requests \ {r} : req'[s] = req[s]
          /\ req'[r].pc = "putBack" /\ req'[r].op = "purge" /\ req'[r].p = req[r].p
          /\ req'[r].trash = req[r].trash
      BY <1>1, <1>4, Went DEF PCs
    <2>2. /\ BinTypeOK' /\ (jobs \subseteq asked)' /\ NothingLost' /\ BinnedStaysOut'
          /\ \A s \in Requests \ {r} : Frame(s)
      BY <1>1, <1>2, <2>1, QuietKept DEF BinTypeOK, BinInductive
    <2>3. Routed(r)' /\ Fresh(r)' /\ Staged(r)'
      BY <1>1, <1>2, <1>4, <2>1 DEF Routed, Fresh, Staged, Deleting, Clearing
    <2>4. \A s \in Requests \ {r} : Crossing(r, s)' /\ Crossing(s, r)'
      BY <2>1 DEF Crossing, Clearing
    <2> QED
      BY <2>2, <2>3, <2>4, Assemble
  <1> QED
    BY <1>3, <1>4 DEF SettleDelete

------------------------------------------------------------------------------
(* The list of tombstones.                                                 *)

\* A write of the list `new`, which is `held`, the copy of r, but for r's own
\* product: what it changes it marks, and what it resurrects it excuses.
LEMMA TombsWritten ==
  ASSUME BinInductive, NEW r \in Requests, req[r].pc \in {"writeTombs", "writeClear"},
         NEW new \in SUBSET Products, NEW also \in SUBSET Products,
         \A q \in Products : q # req[r].p => (q \in new <=> q \in req[r].tombs),
         tombs' = new,
         Touch(r, (tombs \ new) \cup (new \ tombs), also),
         (tombs \ new) \ {req[r].p} \subseteq also,
         req[r].p \in new \ tombs =>
            \/ trash[req[r].p] # "none"
            \/ req[r].p \in asked \cup off[r],
         req[r].p \in tombs \ new => req[r].p \in off[r] \cup ledger \/ req[r].p \notin binned,
         UNCHANGED <<row, ledger, trash, memo, ops, binned, asked>>,
         hidden' \subseteq Products, jobs' \subseteq asked,
         req' \in [Requests -> Request],
         \A s \in Requests \ {r} : req'[s] = req[s]
  PROVE  /\ BinTypeOK' /\ (jobs \subseteq asked)' /\ NothingLost' /\ BinnedStaysOut'
         /\ \A s \in Requests \ {r} : Frame(s)
  <1> DEFINE changed == (tombs \ new) \cup (new \ tombs)
  <1>1. BinTypeOK /\ NothingLost /\ BinnedStaysOut /\ Fresh(r)
    BY DEF BinInductive
  <1>2. changed \in SUBSET Products
    BY <1>1 DEF BinTypeOK
  <1>3. /\ off' \in [Requests -> SUBSET Products] /\ off'[r] = off[r]
        /\ \A s \in Requests \ {r} : off'[s] = off[s] \cup changed
        /\ excused' = excused \cup (changed \cap off[r]) \cup also
        /\ excused' \subseteq Products
    BY <1>1, <1>2, Touched
  <1>4. BinTypeOK'
    BY <1>1, <1>3 DEF BinTypeOK
  <1>5. NothingLost'
    <2> SUFFICES ASSUME NEW q \in Products, ~ Standing(q)', trash[q] = "none",
                        q \notin asked
                 PROVE  q \in excused'
      BY DEF NothingLost
    <2>1. CASE ~ Standing(q)
      BY <1>1, <1>3, <2>1 DEF NothingLost
    <2>2. CASE Standing(q)
      <3>1. q \in new \ tombs
        BY <2>2 DEF Standing
      <3>2. q \in off[r]
        BY <1>1, <3>1 DEF Fresh
      <3> QED
        BY <1>3, <3>1, <3>2
    <2> QED
      BY <2>1, <2>2
  <1>6. BinnedStaysOut'
    <2> SUFFICES ASSUME NEW q \in binned, q \notin excused', Standing(q)'
                 PROVE  FALSE
      BY DEF BinnedStaysOut
    <2>1. q \in tombs \ new /\ q \notin ledger
      BY <1>1, <1>3 DEF BinnedStaysOut, Standing
    <2> QED
      BY <1>3, <2>1
  <1>7. \A s \in Requests \ {r} : Frame(s)
    BY <1>3 DEF Frame
  <1> QED
    BY <1>4, <1>5, <1>6, <1>7 DEF BinInductive

\* Where a tombstone takes a request that is not a move to the Trash.
LEMMA AfterDeleting ==
  ASSUME BinInductive, NEW r \in Requests, req[r].pc \in {"writeTombs", "added"},
         req[r].op # "trash", NEW sure \in BOOLEAN,
         req' = [req EXCEPT ![r] = AfterTombs(r, sure)],
         UNCHANGED <<trash, asked>>, off'[r] = off[r]
  PROVE  /\ req' \in [Requests -> Request]
         /\ \A s \in Requests \ {r} : req'[s] = req[s]
         /\ Routed(r)' /\ Fresh(r)' /\ Staged(r)'
         /\ \A s \in Requests \ {r} : Crossing(r, s)' /\ Crossing(s, r)'
  <1>1. /\ BinTypeOK /\ Routed(r) /\ Fresh(r) /\ req[r] \in Request
        /\ req[r].op \in Deleting
    BY RequestFields DEF BinInductive, Routed
  <1> DEFINE q == AfterTombs(r, sure)
  <1>2. /\ q \in Request
        /\ q.op \in {"none", req[r].op} /\ q.op # "trash"
        /\ q.pc \in {"idle", "readTombs", "settle"}
        /\ q.pc = "idle" => q.op = "none"
        /\ q.pc # "idle" => q.op # "queue" \/ q.pc = "readTombs"
        /\ q.op # "none" => q.p = req[r].p /\ q.trash = req[r].trash
        /\ q.pc # "idle" => q.op = req[r].op
    <2>1. CASE req[r].op = "queue"
      <3>1. q = Idle
        BY <2>1 DEF AfterTombs
      <3> HIDE DEF q
      <3> QED
        BY <3>1, IdleTyped DEF Idle
    <2>2. CASE req[r].op # "queue" /\ req[r].left = 2
      <3>1. q = [req[r] EXCEPT !.pc = "readTombs", !.left = 1]
        BY <2>2 DEF AfterTombs
      <3> HIDE DEF q
      <3>2. q \in Request
        <4>1. 1 \in 0..2 /\ "readTombs" \in PCs
          BY DEF PCs
        <4> DEFINE k == 0..2
        <4>2. Request = [pc : PCs, op : AllOps \cup {"none", "job"},
                         p : Products \cup {NoProduct},
                         trash : [Products -> Entries], tombs : SUBSET Products,
                         sure : BOOLEAN, left : k] /\ 1 \in k
          BY <4>1 DEF Request
        <4> HIDE DEF k
        <4> QED
          BY <1>1, <3>1, <4>1, <4>2
      <3>3. /\ q.pc = "readTombs" /\ q.op = req[r].op
            /\ q.p = req[r].p /\ q.trash = req[r].trash
        BY <1>1, <3>1 DEF Request
      <3> QED
        BY <2>2, <3>2, <3>3
    <2>3. CASE req[r].op # "queue" /\ req[r].left # 2
      <3>1. q = [req[r] EXCEPT !.pc = "settle"]
        BY <2>3 DEF AfterTombs
      <3> HIDE DEF q
      <3> QED
        BY <1>1, <2>3, <3>1 DEF Request, PCs
    <2> QED
      BY <2>1, <2>2, <2>3
  <1> HIDE DEF q
  <1>3. /\ req' \in [Requests -> Request] /\ req'[r] = q
        /\ \A s \in Requests \ {r} : req'[s] = req[s]
    BY <1>1, <1>2, Changed DEF q
  <1>4. Routed(r)'
    BY <1>1, <1>2, <1>3 DEF Routed, Deleting
  <1>5. Fresh(r)'
    BY <1>1, <1>2, <1>3 DEF Fresh, Deleting
  <1>6. Staged(r)' /\ \A s \in Requests \ {r} : Crossing(r, s)' /\ Crossing(s, r)'
    BY <1>1, <1>2, <1>3 DEF Staged, Crossing, Deleting, Clearing
  <1> QED
    BY <1>3, <1>4, <1>5, <1>6

\* After the tombstone write the request knows its product binned, or is excused.
LEMMA AfterBinning ==
  ASSUME BinInductive, NEW r \in Requests, req[r].pc \in {"writeTombs", "added"},
         req[r].op = "trash", NEW sure \in BOOLEAN,
         req' = [req EXCEPT ![r] = AfterTombs(r, sure)],
         UNCHANGED <<ledger, trash, asked>>, off'[r] = off[r], excused \subseteq excused',
         sure => req[r].p \in tombs' \cup off[r],
         ~ sure => \/ req[r].pc = "writeTombs" /\ UNCHANGED <<row, tombs>>
                   \/ req[r].p \in excused',
         sure => \/ req[r].pc = "added" \/ req[r].p \in req[r].tombs
                 \/ req[r].p \in tombs
                 \/ \A s \in Requests \ {r} : req[r].p \in off'[s],
         \A s \in Requests : off[s] \subseteq off'[s]
  PROVE  /\ req' \in [Requests -> Request]
         /\ \A s \in Requests \ {r} : req'[s] = req[s]
         /\ Routed(r)' /\ Fresh(r)' /\ Staged(r)'
         /\ \A s \in Requests \ {r} : Crossing(r, s)' /\ Crossing(s, r)'
  <1>1. /\ BinTypeOK /\ Routed(r) /\ Fresh(r) /\ Staged(r) /\ req[r] \in Request
    BY RequestFields DEF BinInductive
  <1> DEFINE pc == IF sure THEN "mark" ELSE "putBack"
  <1>2. AfterTombs(r, sure) = [req[r] EXCEPT !.pc = pc] /\ pc \in PCs
    BY DEF AfterTombs, PCs
  <1> HIDE DEF pc
  <1>3. [req[r] EXCEPT !.pc = pc] \in Request
    BY <1>1, <1>2 DEF Request
  <1>4. /\ req' \in [Requests -> Request] /\ \A s \in Requests \ {r} : req'[s] = req[s]
        /\ req'[r] = [req[r] EXCEPT !.pc = pc]
    BY <1>1, <1>2, <1>3, Changed
  <1>5. /\ req'[r].pc = pc /\ req'[r].op = "trash" /\ req'[r].p = req[r].p
        /\ req'[r].trash = req[r].trash /\ req'[r].sure = req[r].sure
    BY <1>1, <1>4 DEF Request
  <1>6. Routed(r)' /\ Fresh(r)'
    BY <1>1, <1>5 DEF Routed, Fresh, Deleting, pc
  <1>7. Staged(r)'
    <2>1. ~ sure => Standing(req[r].p)' \/ Moved(r)'
      BY <1>1, <1>5 DEF Staged, Standing, Moved
    <2> QED
      BY <1>1, <1>5, <2>1 DEF Staged, Clearing, pc
  <1>8. \A s \in Requests \ {r} : Crossing(r, s)' /\ Crossing(s, r)'
    <2> TAKE s \in Requests \ {r}
    <2>1. Crossing(s, r)
      BY DEF BinInductive
    <2> QED
      BY <1>1, <1>4, <1>5, <2>1 DEF Crossing, Clearing, pc
  <1> QED
    BY <1>4, <1>6, <1>7, <1>8

\* Where the tombstone, written or found, takes a request.
LEMMA AnsweredKept ==
  ASSUME BinInductive, NEW r \in Requests, req[r].pc \in {"writeTombs", "added"},
         NEW sure \in BOOLEAN, Answered(r, sure), req[r].op = "trash" /\ ~ sure =>
            \/ req[r].pc = "writeTombs" /\ UNCHANGED <<row, tombs>>
            \/ req[r].p \in excused',
         UNCHANGED <<ledger, trash, asked>>, off'[r] = off[r], excused \subseteq excused',
         \A s \in Requests : off[s] \subseteq off'[s],
         req[r].op = "trash" /\ sure =>
            /\ req[r].p \in tombs' \cup off[r]
            /\ req[r].pc = "added" \/ req[r].p \in req[r].tombs
  PROVE  /\ hidden' \subseteq Products /\ jobs' \subseteq asked
         /\ req' \in [Requests -> Request]
         /\ \A s \in Requests \ {r} : req'[s] = req[s]
         /\ Routed(r)' /\ Fresh(r)' /\ Staged(r)'
         /\ \A s \in Requests \ {r} : Crossing(r, s)' /\ Crossing(s, r)'
  <1>1. /\ BinTypeOK /\ jobs \subseteq asked /\ req[r].p \in Products
        /\ req[r].op \in Deleting => req[r].p \in asked
        /\ req[r].op = "queue" => req[r].op \in Deleting
    BY DEF BinInductive, Routed, Deleting
  <1>2. req' = [req EXCEPT ![r] = AfterTombs(r, sure)]
    BY DEF Answered
  <1>3. hidden' \subseteq Products /\ jobs' \subseteq asked
    BY <1>1 DEF Answered, BinTypeOK
  <1>4. CASE req[r].op = "trash"
    BY <1>2, <1>3, <1>4, AfterBinning
  <1>5. CASE req[r].op # "trash"
    BY <1>2, <1>3, <1>5, AfterDeleting
  <1> QED
    BY <1>4, <1>5

\* Writing the tombstones keeps the invariant.
LEMMA WriteTombsKeeps ==
  ASSUME BinInductive, NEW r \in Requests, WriteTombs(r)
  PROVE  BinInductive'
  <1> DEFINE p   == req[r].p
             new == req[r].tombs \cup {p}
             changed == (tombs \ new) \cup (new \ tombs)
             also(end) == (tombs \ new) \cup (IF end = "lost" THEN {p} ELSE {})
  <1>1. /\ BinTypeOK /\ Routed(r) /\ Fresh(r) /\ Staged(r)
        /\ req[r].pc = "writeTombs" /\ p \in Products /\ req[r].tombs \subseteq Products
        /\ req[r].op \in Deleting \cup {"trash"} /\ req[r].sure \in BOOLEAN
        /\ req[r].op # "trash" => p \in asked
        /\ req[r].op = "trash" => ~ req[r].sure
        /\ req[r].op = "trash" => trash[p] # "none" \/ p \in off[r]
    BY RequestFields DEF BinInductive, WriteTombs, At, Routed, Request, Staged
  <1>2. UNCHANGED <<row, ledger, trash, memo, ops, binned, asked>>
    BY DEF WriteTombs
  <1>3. CASE p \in req[r].tombs /\ Answered(r, TRUE) /\ Untouched /\ UNCHANGED tombs
    <2>1. UNCHANGED <<off, excused>> /\ (p \in tombs' \/ p \in off[r])
      BY <1>1, <1>3 DEF Untouched, Fresh
    <2>2. /\ hidden' \subseteq Products /\ jobs' \subseteq asked
          /\ req' \in [Requests -> Request] /\ \A s \in Requests \ {r} : req'[s] = req[s]
          /\ Routed(r)' /\ Fresh(r)' /\ Staged(r)'
          /\ \A s \in Requests \ {r} : Crossing(r, s)' /\ Crossing(s, r)'
      BY <1>1, <1>2, <1>3, <2>1, AnsweredKept
    <2>3. /\ BinTypeOK' /\ (jobs \subseteq asked)' /\ NothingLost' /\ BinnedStaysOut'
          /\ \A s \in Requests \ {r} : Frame(s)
      BY <1>1, <1>2, <1>3, <2>1, <2>2, QuietKept DEF BinTypeOK
    <2> QED
      BY <2>2, <2>3, Assemble
  <1>4. CASE Answered(r, req[r].sure) /\ Untouched /\ UNCHANGED tombs
    <2>1. UNCHANGED <<off, excused>>
      BY <1>4 DEF Untouched
    <2>2. /\ hidden' \subseteq Products /\ jobs' \subseteq asked
          /\ req' \in [Requests -> Request] /\ \A s \in Requests \ {r} : req'[s] = req[s]
          /\ Routed(r)' /\ Fresh(r)' /\ Staged(r)'
          /\ \A s \in Requests \ {r} : Crossing(r, s)' /\ Crossing(s, r)'
      BY <1>1, <1>2, <1>4, <2>1, AnsweredKept
    <2>3. /\ BinTypeOK' /\ (jobs \subseteq asked)' /\ NothingLost' /\ BinnedStaysOut'
          /\ \A s \in Requests \ {r} : Frame(s)
      BY <1>1, <1>2, <1>4, <2>1, <2>2, QuietKept DEF BinTypeOK
    <2> QED
      BY <2>2, <2>3, Assemble
  <1>5. ASSUME NEW end \in {"done", "lost"}, p \notin req[r].tombs, tombs' = new,
               Touch(r, changed, also(end)),
               IF end = "done" THEN Goto(r, "added") /\ UNCHANGED local
               ELSE Answered(r, req[r].sure)
        PROVE  BinInductive'
    <2> DEFINE more == also(end)
    <2>1. /\ new \in SUBSET Products /\ more \in SUBSET Products
          /\ changed \in SUBSET Products
      BY <1>1 DEF BinTypeOK
    <2>2. Touch(r, changed, more) /\ (end = "lost" => p \in more)
          /\ p \in tombs' /\ (p \notin tombs => p \in changed)
          /\ (tombs \ new) \ {p} \subseteq more /\ p \notin tombs \ new
          /\ \A q \in Products : q # p => (q \in new <=> q \in req[r].tombs)
      BY <1>5
    <2> HIDE DEF more
    <2>3. /\ off'[r] = off[r] /\ \A s \in Requests \ {r} : off'[s] = off[s] \cup changed
          /\ excused' = excused \cup (changed \cap off[r]) \cup more
      <3>1. Touch(r, changed, more)
        BY <2>2
      <3> HIDE DEF changed
      <3> QED
        BY <1>1, <2>1, <3>1, Touched
    <2>4. /\ hidden' \subseteq Products /\ jobs' \subseteq asked
          /\ req' \in [Requests -> Request] /\ \A s \in Requests \ {r} : req'[s] = req[s]
          /\ Routed(r)' /\ Fresh(r)' /\ Staged(r)'
          /\ \A s \in Requests \ {r} : Crossing(r, s)' /\ Crossing(s, r)'
      <3>1. CASE end = "done"
        <4>1. /\ req' \in [Requests -> Request]
              /\ \A s \in Requests \ {r} : req'[s] = req[s]
              /\ req'[r].pc = "added" /\ req'[r].op = req[r].op /\ req'[r].p = p
              /\ req'[r].trash = req[r].trash /\ req'[r].sure = req[r].sure
          BY <1>1, <1>5, <3>1, Went DEF PCs
        <4>2. hidden' \subseteq Products /\ jobs' \subseteq asked
          BY <1>1, <1>5, <3>1 DEF local, BinInductive, BinTypeOK
        <4>3. Routed(r)' /\ Fresh(r)'
          BY <1>1, <1>2, <2>3, <4>1 DEF Routed, Fresh, Deleting
        <4>4. Staged(r)'
          BY <1>1, <1>2, <2>2, <2>3, <4>1 DEF Staged, Deleting, Clearing
        <4>5. \A s \in Requests \ {r} : Crossing(r, s)' /\ Crossing(s, r)'
          <5> TAKE s \in Requests \ {r}
          <5>1. Crossing(s, r)
            BY DEF BinInductive
          <5>2. Crossing(r, s)'
            BY <4>1 DEF Crossing, Clearing
          <5>3. Crossing(s, r)'
            <6> SUFFICES ASSUME req[s].pc \in Clearing, req[r].op = "trash",
                                p = req[s].p, p \notin off'[s] \cup off[r] \cup ledger
                         PROVE  FALSE
              BY <1>2, <2>3, <4>1 DEF Crossing
            <6>1. p \notin off[s] /\ p \notin changed
              BY <2>3
            <6>2. p \notin tombs
              BY <1>1, <5>1, <6>1 DEF Crossing
            <6> QED
              BY <2>2, <6>1, <6>2
          <5> QED
            BY <5>2, <5>3
        <4> QED
          BY <4>1, <4>2, <4>3, <4>4, <4>5
      <3>2. CASE end = "lost"
        <4>1. Answered(r, req[r].sure) /\ p \in excused'
          BY <1>5, <2>2, <2>3, <3>2
        <4>2. \A s \in Requests : off[s] \subseteq off'[s]
          BY <2>3
        <4>3. excused \subseteq excused'
          BY <2>3
        <4> QED
          BY <1>1, <1>2, <2>3, <4>1, <4>2, <4>3, AnsweredKept
      <3> QED
        BY <3>1, <3>2
    <2>5. p \in new \ tombs => trash[p] # "none" \/ p \in asked \cup off[r]
      BY <1>1
    <2> HIDE DEF new
    <2>6. /\ BinTypeOK' /\ (jobs \subseteq asked)' /\ NothingLost' /\ BinnedStaysOut'
          /\ \A s \in Requests \ {r} : Frame(s)
      BY <1>1, <1>2, <1>5, <2>1, <2>2, <2>4, <2>5, TombsWritten
    <2> QED
      BY <2>4, <2>6, Assemble
  <1> QED
    BY <1>3, <1>4, <1>5 DEF WriteTombs, Ends

\* Dropping the kept list after a confirmed tombstone keeps the invariant.
LEMMA AddedKeeps ==
  ASSUME BinInductive, NEW r \in Requests, Added(r)
  PROVE  BinInductive'
  <1>1. BinTypeOK /\ Staged(r) /\ req[r].pc = "added"
    BY DEF BinInductive, Added, At
  <1>2. /\ Answered(r, TRUE) /\ memo' = {}
        /\ UNCHANGED <<row, ledger, tombs, trash, ops, binned, asked, off, excused>>
    BY DEF Added, store, ghosts
  <1>3. req[r].op = "trash" => req[r].p \in tombs' \cup off[r]
    BY <1>1, <1>2 DEF Staged
  <1>4. /\ hidden' \subseteq Products /\ jobs' \subseteq asked
        /\ req' \in [Requests -> Request] /\ \A s \in Requests \ {r} : req'[s] = req[s]
        /\ Routed(r)' /\ Fresh(r)' /\ Staged(r)'
        /\ \A s \in Requests \ {r} : Crossing(r, s)' /\ Crossing(s, r)'
    BY <1>1, <1>2, <1>3, AnsweredKept
  <1>5. /\ BinTypeOK' /\ (jobs \subseteq asked)' /\ NothingLost' /\ BinnedStaysOut'
        /\ \A s \in Requests \ {r} : Frame(s)
    BY <1>1, <1>2, <1>4, QuietKept DEF BinTypeOK
  <1> QED
    BY <1>4, <1>5, Assemble

\* Where the clearing of the tombstone takes a request.
LEMMA ClearedKept ==
  ASSUME BinInductive, NEW r \in Requests,
         req[r].pc \in {"readClear", "writeClear", "cleared"},
         Cleared(r), UNCHANGED <<ledger, trash, binned, asked>>, off[r] \subseteq off'[r],
         NEW p \in Products, p = req[r].p,
         \A s \in Requests \ {r} :
            /\ off[s] \subseteq off'[s]
            /\ p \in off'[s] \/ (p \in tombs' <=> p \in tombs),
         req[r].op = "restore" => Standing(p)' \/ p \in off'[r] \cup asked \cup excused'
  PROVE  /\ req' \in [Requests -> Request]
         /\ \A s \in Requests \ {r} : req'[s] = req[s]
         /\ Routed(r)' /\ Fresh(r)' /\ Staged(r)'
         /\ \A s \in Requests \ {r} : Crossing(r, s)' /\ Crossing(s, r)'
  <1>1. BinTypeOK /\ Routed(r) /\ Fresh(r) /\ Staged(r)
    BY DEF BinInductive
  <1>2. CASE End(r)
    BY <1>1, <1>2, Ended
  <1>3. ASSUME NEW pc \in {"remain", "publish", "unhide"}, Goto(r, pc),
               req[r].op = (CASE pc = "remain" -> "restore" [] pc = "publish" -> "save"
                              [] pc = "unhide" -> "recover")
        PROVE  /\ req' \in [Requests -> Request]
               /\ \A s \in Requests \ {r} : req'[s] = req[s]
               /\ Routed(r)' /\ Fresh(r)' /\ Staged(r)'
               /\ \A s \in Requests \ {r} : Crossing(r, s)' /\ Crossing(s, r)'
    <2>1. /\ req' \in [Requests -> Request]
          /\ \A s \in Requests \ {r} : req'[s] = req[s]
          /\ req'[r].pc = pc /\ req'[r].op = req[r].op /\ req'[r].p = p
          /\ req'[r].trash = req[r].trash
      BY <1>1, <1>3, Went DEF PCs
    <2>2. Routed(r)' /\ Fresh(r)'
      BY <1>1, <1>3, <2>1 DEF Routed, Fresh, Deleting
    <2>3. Staged(r)'
      BY <1>1, <1>3, <2>1 DEF Staged, Moved, Clearing
    <2>4. \A s \in Requests \ {r} : Crossing(r, s)' /\ Crossing(s, r)'
      <3> TAKE s \in Requests \ {r}
      <3>1. Crossing(r, s)
        BY DEF BinInductive
      <3>2. Crossing(s, r)'
        BY <1>3, <2>1 DEF Crossing
      <3>3. Crossing(r, s)'
        BY <1>1, <2>1, <3>1 DEF Crossing, Clearing
      <3> QED
        BY <3>2, <3>3
    <2> QED
      BY <2>1, <2>2, <2>3, <2>4
  <1> QED
    BY <1>2, <1>3 DEF Cleared

\* Reading the tombstones to clear one keeps the invariant.
LEMMA ReadClearKeeps ==
  ASSUME BinInductive, NEW r \in Requests, ReadClear(r)
  PROVE  BinInductive'
  <1>0. PICK p \in Products : p = req[r].p
    BY DEF BinInductive, ReadClear, At, Routed
  <1>1. /\ BinTypeOK /\ Routed(r) /\ Fresh(r) /\ Staged(r) /\ req[r].pc = "readClear"
        /\ p = req[r].p /\ req[r].op \in {"restore", "save", "recover"}
    BY <1>0 DEF BinInductive, ReadClear, At, Routed
  <1>2. UNCHANGED <<row, ledger, tombs, trash, hidden, jobs, ops, binned, asked>>
    BY DEF ReadClear, store, local
  <1>3. req[r].op = "restore" =>
           (row[p] = "live" /\ p \notin ledger) \/ p \in off[r] \cup asked \cup excused
    BY <1>1 DEF Staged, Moved
  <1>4. ASSUME NEW list \in Kept, Learns(r, list), UNCHANGED excused, p \in list,
               req' = [req EXCEPT ![r].pc = "writeClear", ![r].tombs = list]
        PROVE  BinInductive'
    <2>1. /\ list \in SUBSET Products /\ memo' \subseteq SUBSET Products
          /\ off' \in [Requests -> SUBSET Products] /\ off[r] \subseteq off'[r]
          /\ \A s \in Requests \ {r} : off'[s] = off[s]
          /\ \A q \in Products \ off'[r] : q \in list <=> q \in tombs
      BY <1>1, <1>4, Learned
    <2>2. req' = [req EXCEPT ![r] = [req[r] EXCEPT !.pc = "writeClear", !.tombs = list]]
      BY <1>4
    <2>3. [req[r] EXCEPT !.pc = "writeClear", !.tombs = list] \in Request
      <3>1. req[r] \in Request /\ "writeClear" \in PCs
        BY <1>1 DEF BinTypeOK, PCs
      <3> QED
        BY <2>1, <3>1, ListTyped
    <2>4. /\ req' \in [Requests -> Request]
          /\ \A s \in Requests \ {r} : req'[s] = req[s]
          /\ req'[r] = [req[r] EXCEPT !.pc = "writeClear", !.tombs = list]
      BY <1>1, <2>2, <2>3, Changed
    <2>5. /\ req'[r].pc = "writeClear" /\ req'[r].op = req[r].op /\ req'[r].p = p
          /\ req'[r].trash = req[r].trash /\ req'[r].tombs = list
      BY <1>1, <2>4, RequestFields DEF Request
    <2>6. /\ BinTypeOK' /\ (jobs \subseteq asked)' /\ NothingLost' /\ BinnedStaysOut'
          /\ \A s \in Requests \ {r} : Frame(s)
      BY <1>1, <1>2, <1>4, <2>1, <2>4, QuietKept DEF BinTypeOK, BinInductive
    <2>7. Routed(r)' /\ Fresh(r)'
      BY <1>1, <1>2, <2>1, <2>5 DEF Routed, Fresh, Deleting
    <2>8. Staged(r)'
      BY <1>1, <1>2, <1>4, <2>1, <2>5 DEF Staged, Moved, Clearing
    <2>9. \A s \in Requests \ {r} : Crossing(r, s)' /\ Crossing(s, r)'
      <3> TAKE s \in Requests \ {r}
      <3>1. Crossing(r, s) /\ off'[s] = off[s]
        BY <2>1 DEF BinInductive
      <3>2. Crossing(s, r)'
        BY <1>1, <2>5 DEF Crossing
      <3>3. Crossing(r, s)'
        BY <1>1, <1>2, <2>1, <2>4, <2>5, <3>1 DEF Crossing, Clearing
      <3> QED
        BY <3>2, <3>3
    <2> QED
      BY <2>6, <2>7, <2>8, <2>9, Assemble
  <1>5. ASSUME Cleared(r), memo' \subseteq SUBSET Products,
               off' \in [Requests -> SUBSET Products], off[r] \subseteq off'[r],
               \A s \in Requests \ {r} : off'[s] = off[s],
               excused' \in {excused, excused \cup {p}},
               p \notin tombs \/ p \in off'[r] \cup excused'
        PROVE  BinInductive'
    <2>1. excused \subseteq excused' /\ excused' \subseteq Products
      BY <1>1, <1>5 DEF BinTypeOK
    <2>2. CASE req[r].op = "restore" => Standing(p)' \/ p \in off'[r] \cup asked \cup excused'
      <3>1. /\ req' \in [Requests -> Request]
            /\ \A s \in Requests \ {r} : req'[s] = req[s]
            /\ Routed(r)' /\ Fresh(r)' /\ Staged(r)'
            /\ \A s \in Requests \ {r} : Crossing(r, s)' /\ Crossing(s, r)'
        BY <1>1, <1>2, <1>5, <2>2, ClearedKept
      <3>2. /\ BinTypeOK' /\ (jobs \subseteq asked)' /\ NothingLost' /\ BinnedStaysOut'
            /\ \A s \in Requests \ {r} : Frame(s)
        BY <1>1, <1>2, <1>5, <2>1, <3>1, QuietKept DEF BinTypeOK, BinInductive
      <3> QED
        BY <3>1, <3>2, Assemble
    <2> QED
      BY <1>2, <1>3, <1>5, <2>1, <2>2 DEF Standing
  <1>6. ASSUME NEW list \in Kept, Learns(r, list), UNCHANGED excused, p \notin list,
               Cleared(r)
        PROVE  BinInductive'
    <2>1. /\ memo' \subseteq SUBSET Products
          /\ off' \in [Requests -> SUBSET Products] /\ off[r] \subseteq off'[r]
          /\ \A s \in Requests \ {r} : off'[s] = off[s]
          /\ p \in off'[r] \/ p \notin tombs
      BY <1>1, <1>6, Learned
    <2> QED
      BY <1>5, <1>6, <2>1
  <1>7. ASSUME Cleared(r), excused' = excused \cup {p}, UNCHANGED <<memo, off>>
        PROVE  BinInductive'
    <2>1. /\ memo' \subseteq SUBSET Products
          /\ off' \in [Requests -> SUBSET Products] /\ off[r] \subseteq off'[r]
      BY <1>1, <1>7 DEF BinTypeOK
    <2> QED
      BY <1>5, <1>7, <2>1
  <1> QED
    BY <1>1, <1>4, <1>6, <1>7 DEF ReadClear

\* Writing the tombstones without the cleared one keeps the invariant.
LEMMA WriteClearKeeps ==
  ASSUME BinInductive, NEW r \in Requests, WriteClear(r)
  PROVE  BinInductive'
  <1>0. PICK p \in Products : p = req[r].p
    BY DEF BinInductive, WriteClear, At, Routed
  <1> DEFINE new == req[r].tombs \ {p}
             changed == (tombs \ new) \cup (new \ tombs)
             also    == (tombs \ new) \ {p}
  <1>1. /\ BinTypeOK /\ Routed(r) /\ Fresh(r) /\ Staged(r) /\ req[r].pc = "writeClear"
        /\ p = req[r].p /\ req[r].tombs \subseteq Products
        /\ req[r].op = "restore" =>
              (row[p] = "live" /\ p \notin ledger) \/ p \in off[r] \cup asked \cup excused
    BY <1>0, RequestFields DEF BinInductive, WriteClear, At, Routed, Staged, Moved
  <1>2. /\ UNCHANGED <<row, ledger, trash, hidden, jobs, memo, ops, binned, asked>>
        /\ jobs \subseteq asked /\ hidden \subseteq Products /\ memo \subseteq SUBSET Products
    BY <1>1 DEF WriteClear, local, BinInductive, BinTypeOK
  <1>3. CASE Cleared(r) /\ Touch(r, {}, {p}) /\ UNCHANGED tombs
    <2>1. UNCHANGED off /\ excused' = excused \cup {p}
      BY <1>1, <1>3 DEF Touch, BinTypeOK
    <2>2. /\ req' \in [Requests -> Request]
          /\ \A s \in Requests \ {r} : req'[s] = req[s]
          /\ Routed(r)' /\ Fresh(r)' /\ Staged(r)'
          /\ \A s \in Requests \ {r} : Crossing(r, s)' /\ Crossing(s, r)'
      BY <1>1, <1>2, <1>3, <2>1, ClearedKept
    <2>3. /\ excused \subseteq excused' /\ excused' \subseteq Products
          /\ off' \in [Requests -> SUBSET Products]
      BY <1>1, <2>1 DEF BinTypeOK
    <2>4. /\ BinTypeOK' /\ (jobs \subseteq asked)' /\ NothingLost' /\ BinnedStaysOut'
          /\ \A s \in Requests \ {r} : Frame(s)
      BY <1>2, <1>3, <2>1, <2>2, <2>3, QuietKept
    <2> QED
      BY <2>2, <2>4, Assemble
  <1>4. CASE tombs' = new /\ Touch(r, changed, also) /\ (Cleared(r) \/ Goto(r, "cleared"))
    <2>1. /\ new \in SUBSET Products /\ changed \in SUBSET Products
          /\ also \in SUBSET Products
      BY <1>1 DEF BinTypeOK
    <2>2. /\ p \notin new /\ (tombs \ new) \ {p} \subseteq also
          /\ \A q \in Products : q # p => (q \in new <=> q \in req[r].tombs)
          /\ p \in tombs \ new => p \in off[r] \cup ledger \/ p \notin binned
          /\ p \in changed \/ (p \in tombs' <=> p \in tombs)
      BY <1>1, <1>4 DEF Staged, Clearing
    <2>3. tombs' = new /\ Touch(r, changed, also)
      BY <1>4
    <2>4. /\ off'[r] = off[r] /\ \A s \in Requests \ {r} : off'[s] = off[s] \cup changed
          /\ excused \subseteq excused'
      <3> HIDE DEF changed, also
      <3> QED
        BY <1>1, <2>1, <2>3, Touched
    <2>5. \A s \in Requests \ {r} :
             /\ off[s] \subseteq off'[s]
             /\ p \in off'[s] \/ (p \in tombs' <=> p \in tombs)
      BY <2>2, <2>4
    <2>6. req[r].op = "restore" => Standing(p)' \/ p \in off'[r] \cup asked \cup excused'
      BY <1>1, <1>2, <2>2, <2>3, <2>4 DEF Standing
    <2> HIDE DEF new, changed, also
    <2>7. /\ req' \in [Requests -> Request]
          /\ \A s \in Requests \ {r} : req'[s] = req[s]
          /\ Routed(r)' /\ Fresh(r)' /\ Staged(r)'
          /\ \A s \in Requests \ {r} : Crossing(r, s)' /\ Crossing(s, r)'
      <3>1. CASE Cleared(r)
        BY <1>1, <1>2, <2>4, <2>5, <2>6, <3>1, ClearedKept
      <3>2. CASE Goto(r, "cleared")
        <4>1. /\ req' \in [Requests -> Request]
              /\ \A s \in Requests \ {r} : req'[s] = req[s]
              /\ req'[r].pc = "cleared" /\ req'[r].op = req[r].op /\ req'[r].p = p
              /\ req'[r].trash = req[r].trash
          BY <1>1, <3>2, Went DEF PCs
        <4>2. Routed(r)' /\ Fresh(r)'
          BY <1>1, <1>2, <2>4, <4>1 DEF Routed, Fresh, Deleting
        <4>3. Staged(r)'
          BY <1>1, <1>2, <2>4, <2>6, <4>1 DEF Staged, Moved, Clearing, Routed
        <4>4. \A s \in Requests \ {r} : Crossing(r, s)' /\ Crossing(s, r)'
          <5> TAKE s \in Requests \ {r}
          <5>1. Crossing(r, s)
            BY DEF BinInductive
          <5>2. Crossing(s, r)'
            BY <1>1, <4>1 DEF Crossing, Routed
          <5>3. Crossing(r, s)'
            BY <1>1, <1>2, <2>4, <2>5, <4>1, <5>1 DEF Crossing, Clearing
          <5> QED
            BY <5>2, <5>3
        <4> QED
          BY <4>1, <4>2, <4>3, <4>4
      <3> QED
        BY <1>4, <3>1, <3>2
    <2>8. /\ BinTypeOK' /\ (jobs \subseteq asked)' /\ NothingLost' /\ BinnedStaysOut'
          /\ \A s \in Requests \ {r} : Frame(s)
      <3>1. Touch(r, (tombs \ new) \cup (new \ tombs), also)
        BY <2>3 DEF changed
      <3> QED
        BY <1>1, <1>2, <2>1, <2>2, <2>3, <2>7, <3>1, TombsWritten
    <2> QED
      BY <2>7, <2>8, Assemble
  <1> QED
    BY <1>1, <1>3, <1>4 DEF WriteClear, Ends

\* Dropping the kept list after a confirmed clear keeps the invariant.
LEMMA DropKeptKeeps ==
  ASSUME BinInductive, NEW r \in Requests, DropKept(r)
  PROVE  BinInductive'
  <1>0. PICK p \in Products : p = req[r].p
    BY DEF BinInductive, DropKept, At, Routed
  <1>1. BinTypeOK /\ Staged(r) /\ req[r].pc = "cleared" /\ p = req[r].p
    BY <1>0 DEF BinInductive, DropKept, At
  <1>2. /\ Cleared(r) /\ memo' = {}
        /\ UNCHANGED <<row, ledger, tombs, trash, hidden, jobs, ops, binned, asked,
                       off, excused>>
    BY DEF DropKept, store, local, ghosts
  <1>3. req[r].op = "restore" => Standing(p)' \/ p \in off'[r] \cup asked \cup excused'
    BY <1>1, <1>2 DEF Staged, Moved, Standing
  <1>4. /\ req' \in [Requests -> Request] /\ \A s \in Requests \ {r} : req'[s] = req[s]
        /\ Routed(r)' /\ Fresh(r)' /\ Staged(r)'
        /\ \A s \in Requests \ {r} : Crossing(r, s)' /\ Crossing(s, r)'
    BY <1>1, <1>2, <1>3, ClearedKept
  <1>5. /\ BinTypeOK' /\ (jobs \subseteq asked)' /\ NothingLost' /\ BinnedStaysOut'
        /\ \A s \in Requests \ {r} : Frame(s)
    BY <1>1, <1>2, <1>4, QuietKept DEF BinTypeOK, BinInductive
  <1> QED
    BY <1>4, <1>5, Assemble

\* The save's look at what is published, and its second clear, keep the invariant.
LEMMA PublishKeeps ==
  ASSUME BinInductive, NEW r \in Requests, Publish(r)
  PROVE  BinInductive'
  <1>1. BinTypeOK /\ Routed(r) /\ Fresh(r) /\ Staged(r) /\ req[r].pc = "publish"
    BY DEF BinInductive, Publish, At
  <1>2. UNCHANGED <<row, ledger, tombs, trash, hidden, jobs, ops, binned, asked, excused>>
    BY DEF Publish, store, local
  <1>3. /\ memo' \subseteq SUBSET Products
        /\ off' \in [Requests -> SUBSET Products] /\ off[r] \subseteq off'[r]
        /\ \A s \in Requests \ {r} : off'[s] = off[s]
    <2>1. CASE UNCHANGED <<memo, off>>
      BY <1>1, <2>1 DEF BinTypeOK
    <2>2. ASSUME NEW list \in Kept, Learns(r, list)
          PROVE  <1>3
      BY <1>1, <2>2, Learned
    <2> QED
      BY <2>1, <2>2 DEF Publish
  <1>4. CASE End(r)
    BY <1>1, <1>2, <1>3, <1>4, QuietEnd DEF BinTypeOK, BinInductive
  <1>5. CASE req' = [req EXCEPT ![r].pc = "readClear", ![r].left = 0]
    <2> DEFINE n == [req[r] EXCEPT !.pc = "readClear", !.left = 0]
    <2>1. n \in Request /\ req' = [req EXCEPT ![r] = n]
      <3>1. req[r] \in Request /\ "readClear" \in PCs /\ 0 \in 0..2
        BY <1>1 DEF BinTypeOK, PCs
      <3>2. n \in Request
        BY <3>1 DEF Request
      <3> QED
        BY <1>5, <3>2
    <2>2. /\ n.pc = "readClear" /\ n.op = req[r].op /\ n.p = req[r].p
          /\ n.trash = req[r].trash
      BY <1>1, RequestFields DEF Request
    <2> HIDE DEF n
    <2>3. /\ req' \in [Requests -> Request] /\ req'[r] = n
          /\ \A s \in Requests \ {r} : req'[s] = req[s]
      BY <1>1, <2>1, Changed
    <2>4. /\ BinTypeOK' /\ (jobs \subseteq asked)' /\ NothingLost' /\ BinnedStaysOut'
          /\ \A s \in Requests \ {r} : Frame(s)
      BY <1>1, <1>2, <1>3, <2>3, QuietKept DEF BinTypeOK, BinInductive
    <2>5. Routed(r)' /\ Fresh(r)'
      BY <1>1, <1>2, <1>3, <2>2, <2>3 DEF Routed, Fresh, Deleting
    <2>6. Staged(r)'
      BY <1>1, <1>2, <1>3, <2>2, <2>3 DEF Staged, Routed, Clearing
    <2>7. \A s \in Requests \ {r} : Crossing(r, s)' /\ Crossing(s, r)'
      <3> TAKE s \in Requests \ {r}
      <3>1. Crossing(r, s)
        BY DEF BinInductive
      <3>2. Crossing(s, r)'
        BY <1>1, <2>2, <2>3 DEF Crossing, Routed
      <3>3. Crossing(r, s)'
        BY <1>1, <1>2, <1>3, <2>2, <2>3, <3>1 DEF Crossing, Clearing
      <3> QED
        BY <3>2, <3>3
    <2> QED
      BY <2>4, <2>5, <2>6, <2>7, Assemble
  <1> QED
    BY <1>4, <1>5 DEF Publish

------------------------------------------------------------------------------
(* The rows.                                                               *)

\* Soft-deleting the row keeps the invariant.
LEMMA MarkKeeps ==
  ASSUME BinInductive, NEW r \in Requests, Mark(r)
  PROVE  BinInductive'
  <1>0. PICK p \in Products : p = req[r].p
    BY DEF BinInductive, Mark, At, Routed
  <1>1. /\ BinTypeOK /\ NothingLost /\ BinnedStaysOut /\ req[r].pc = "mark"
        /\ p = req[r].p /\ req[r].op = "trash"
        /\ p \in tombs \cup off[r] /\ (trash[p] # "none" \/ p \in off[r])
    BY <1>0 DEF BinInductive, Mark, At, Routed, Staged
  <1>2. /\ End(r) /\ UNCHANGED <<ledger, tombs, trash, hidden, jobs, ops, asked>> /\ memo' \in {{}, memo}
        /\ binned' = IF p \in off[r] THEN binned ELSE binned \cup {p}
    BY <1>1 DEF Mark, local
  <1>3. \/ UNCHANGED <<off, excused, row>>
        \/ row[p] = "live" /\ row' = [row EXCEPT ![p] = "dead"] /\ Touch(r, {p}, {})
    BY <1>1 DEF Mark, Untouched
  <1>4. /\ off' \in [Requests -> SUBSET Products]
        /\ \A s \in Requests : off[s] \subseteq off'[s]
        /\ excused \subseteq excused' /\ excused' \subseteq Products
        /\ row' \in [Products -> Rows]
        /\ \A q \in Products \ {p} : row'[q] = row[q]
        /\ \/ row' = row
           \/ /\ row'[p] = "dead" /\ \A s \in Requests \ {r} : p \in off'[s]
              /\ p \in off[r] => p \in excused'
    <2>1. CASE UNCHANGED <<off, excused, row>>
      BY <1>1, <2>1 DEF BinTypeOK
    <2>2. CASE row' = [row EXCEPT ![p] = "dead"] /\ Touch(r, {p}, {})
      <3>1. /\ off' \in [Requests -> SUBSET Products] /\ off'[r] = off[r]
            /\ \A s \in Requests \ {r} : off'[s] = off[s] \cup {p}
            /\ excused' = excused \cup ({p} \cap off[r]) \cup {}
            /\ excused' \subseteq Products
        <4>1. {p} \in SUBSET Products /\ {} \in SUBSET Products
          OBVIOUS
        <4> QED
          BY <1>1, <2>2, <4>1, Touched
      <3>2. row' \in [Products -> Rows] /\ row'[p] = "dead"
            /\ \A q \in Products \ {p} : row'[q] = row[q]
        BY <1>1, <2>2 DEF BinTypeOK, Rows
      <3>3. \A s \in Requests : off[s] \subseteq off'[s]
        BY <3>1
      <3>4. excused \subseteq excused' /\ (p \in off[r] => p \in excused')
        BY <3>1
      <3> QED
        BY <3>1, <3>2, <3>3, <3>4
    <2> QED
      BY <1>3, <2>1, <2>2
  <1>5. /\ req' \in [Requests -> Request]
        /\ \A s \in Requests \ {r} : req'[s] = req[s]
        /\ Routed(r)' /\ Fresh(r)' /\ Staged(r)'
        /\ \A s \in Requests \ {r} : Crossing(r, s)' /\ Crossing(s, r)'
    BY <1>1, <1>2, Ended
  <1>6. BinTypeOK' /\ (jobs \subseteq asked)'
    BY <1>1, <1>2, <1>4, <1>5 DEF BinTypeOK, BinInductive
  <1>7. NothingLost'
    <2> SUFFICES ASSUME NEW q \in Products, ~ Standing(q)', trash[q] = "none",
                        q \notin asked, q \notin excused'
                 PROVE  FALSE
      BY <1>2 DEF NothingLost
    <2>1. Standing(q)
      BY <1>1, <1>4 DEF NothingLost
    <2>2. q = p /\ row' # row
      BY <1>2, <1>4, <2>1 DEF Standing
    <2> QED
      BY <1>1, <1>4, <2>2
  <1>8. BinnedStaysOut'
    <2> SUFFICES ASSUME NEW q \in binned', q \notin excused', Standing(q)'
                 PROVE  FALSE
      BY DEF BinnedStaysOut
    <2>1. q \in Products
      BY <1>6 DEF BinTypeOK
    <2>2. Standing(q)
      BY <1>2, <1>4, <2>1 DEF Standing
    <2>3. q \notin binned
      BY <1>1, <1>4, <2>2 DEF BinnedStaysOut
    <2> QED
      BY <1>1, <1>2, <2>2, <2>3 DEF Standing
  <1>9. \A s \in Requests \ {r} : Frame(s)
    <2> TAKE s \in Requests \ {r}
    <2>1. Crossing(s, r)
      BY DEF BinInductive
    <2>2. \A q \in Products \ off'[s] : row'[q] = row[q]
      BY <1>4
    <2>3. \A q \in Products \ off'[s] :
             q \in binned' => \/ q \in binned \cup ledger' \/ req[s].p # q
                              \/ req[s].pc \notin Clearing
      BY <1>1, <1>2, <1>4, <2>1 DEF Crossing
    <2> QED
      BY <1>2, <1>4, <1>5, <2>2, <2>3 DEF Frame
  <1> QED
    BY <1>5, <1>6, <1>7, <1>8, <1>9, Assemble

\* A row that lives again, or is patched, keeps the invariant, whether or not
\* the request goes on to the tombstones.
LEMMA RowKept ==
  ASSUME BinInductive, NEW r \in Requests, NEW p \in Products, p = req[r].p,
         req[r].pc \in {"upsert", "revive"}, req[r].op \in {"restore", "save", "recover"},
         UNCHANGED <<ledger, tombs, trash, hidden, jobs, memo, ops, asked, excused>>,
         p \notin ledger, binned' = binned \ {p},
         \/ row' = [row EXCEPT ![p] = "live"]
         \/ row' = row /\ req[r].op = "save",
         off' = [o \in Requests |-> IF o = r THEN off[o] ELSE off[o] \cup {p}],
         End(r) \/ Goto(r, "readClear")
  PROVE  BinInductive'
  <1>1. BinTypeOK /\ NothingLost /\ BinnedStaysOut /\ Routed(r) /\ Fresh(r)
    BY DEF BinInductive
  <1>2. /\ off' \in [Requests -> SUBSET Products] /\ off'[r] = off[r]
        /\ \A s \in Requests \ {r} : off'[s] = off[s] \cup {p}
        /\ row' \in [Products -> Rows]
        /\ \A q \in Products \ {p} : row'[q] = row[q]
        /\ row'[p] = "live" \/ (row'[p] = row[p] /\ req[r].op = "save")
    BY <1>1 DEF BinTypeOK, Rows
  <1>3. /\ req' \in [Requests -> Request]
        /\ \A s \in Requests \ {r} : req'[s] = req[s]
        /\ Routed(r)' /\ Fresh(r)' /\ Staged(r)'
        /\ \A s \in Requests \ {r} : Crossing(r, s)' /\ Crossing(s, r)'
    <2>1. CASE End(r)
      BY <1>1, <2>1, Ended
    <2>2. CASE Goto(r, "readClear")
      <3>1. /\ req' \in [Requests -> Request]
            /\ \A s \in Requests \ {r} : req'[s] = req[s]
            /\ req'[r].pc = "readClear" /\ req'[r].op = req[r].op
            /\ req'[r].p = p /\ req'[r].trash = req[r].trash
        BY <1>1, <2>2, Went DEF PCs
      <3>2. Routed(r)' /\ Fresh(r)'
        BY <1>1, <1>2, <3>1 DEF Routed, Fresh, Deleting
      <3>3. Staged(r)'
        BY <1>1, <1>2, <3>1 DEF Staged, Clearing
      <3>4. \A s \in Requests \ {r} : Crossing(r, s)' /\ Crossing(s, r)'
        BY <1>1, <1>2, <3>1 DEF Crossing
      <3> QED
        BY <3>1, <3>2, <3>3, <3>4
    <2> QED
      BY <2>1, <2>2
  <1>4. BinTypeOK' /\ (jobs \subseteq asked)'
    BY <1>1, <1>2, <1>3 DEF BinTypeOK, BinInductive
  <1>5. \A q \in Products : ~ Standing(q)' => ~ Standing(q)
    BY <1>1, <1>2 DEF Standing
  <1>6. NothingLost'
    BY <1>1, <1>5 DEF NothingLost
  <1>7. BinnedStaysOut'
    BY <1>1, <1>2 DEF BinnedStaysOut, Standing, BinTypeOK
  <1>8. \A s \in Requests \ {r} : Frame(s)
    BY <1>2, <1>3 DEF Frame
  <1> QED
    BY <1>3, <1>4, <1>6, <1>7, <1>8, Assemble

\* Writing the product's row keeps the invariant.
LEMMA UpsertKeeps ==
  ASSUME BinInductive, NEW r \in Requests, Upsert(r)
  PROVE  BinInductive'
  <1>0. PICK p \in Products : p = req[r].p
    BY DEF BinInductive, Upsert, At, Routed
  <1>1. req[r].pc = "upsert" /\ p = req[r].p /\ req[r].op \in {"restore", "save"}
    BY <1>0 DEF BinInductive, Upsert, At, Routed
  <1>2. UNCHANGED <<ledger, tombs, trash, hidden, jobs, memo, ops, asked>>
    BY DEF Upsert, local
  <1>3. CASE End(r) /\ UNCHANGED <<off, excused, row, binned>>
    BY <1>2, <1>3, QuietEnd DEF BinInductive, BinTypeOK
  <1>4. CASE /\ p \notin ledger /\ UNCHANGED excused /\ binned' = binned \ {p}
             /\ \/ row' = [row EXCEPT ![p] = "live"]
                \/ row' = row /\ req[r].op = "save"
             /\ off' = [o \in Requests |-> IF o = r THEN off[o] ELSE off[o] \cup {p}]
             /\ End(r) \/ Goto(r, "readClear")
    BY <1>1, <1>2, <1>4, RowKept
  <1> QED
    BY <1>1, <1>3, <1>4 DEF Upsert, Rejected, Untouched

\* Reviving the product's row keeps the invariant.
LEMMA ReviveKeeps ==
  ASSUME BinInductive, NEW r \in Requests, Revive(r)
  PROVE  BinInductive'
  <1>0. PICK p \in Products : p = req[r].p
    BY DEF BinInductive, Revive, At, Routed
  <1>1. /\ req[r].pc = "revive" /\ p = req[r].p /\ req[r].op = "recover"
        /\ row[p] # "gone" \/ p \in ledger
    BY <1>0 DEF BinInductive, Revive, At, Routed, Staged
  <1>2. UNCHANGED <<ledger, tombs, trash, hidden, jobs, memo, ops, asked, excused>>
    BY DEF Revive, local
  <1>3. CASE End(r) /\ UNCHANGED <<off, row, binned>>
    BY <1>2, <1>3, QuietEnd DEF BinInductive, BinTypeOK
  <1>4. CASE /\ Goto(r, "readClear") /\ row[p] = "gone" /\ UNCHANGED <<off, row, binned>>
    <2>1. /\ BinTypeOK /\ Routed(r) /\ Fresh(r)
          /\ memo' \subseteq SUBSET Products /\ off' \in [Requests -> SUBSET Products]
      BY <1>2, <1>4 DEF BinInductive, BinTypeOK
    <2>2. /\ req' \in [Requests -> Request]
          /\ \A s \in Requests \ {r} : req'[s] = req[s]
          /\ req'[r].pc = "readClear" /\ req'[r].op = req[r].op
          /\ req'[r].p = p /\ req'[r].trash = req[r].trash
      BY <1>1, <1>4, <2>1, Went DEF PCs
    <2>3. /\ BinTypeOK' /\ (jobs \subseteq asked)' /\ NothingLost' /\ BinnedStaysOut'
          /\ \A s \in Requests \ {r} : Frame(s)
      BY <1>2, <1>4, <2>1, <2>2, QuietKept DEF BinTypeOK, BinInductive
    <2>4. Routed(r)' /\ Fresh(r)'
      BY <1>1, <1>2, <1>4, <2>1, <2>2 DEF Routed, Fresh, Deleting
    <2>5. Staged(r)' /\ \A s \in Requests \ {r} : Crossing(r, s)' /\ Crossing(s, r)'
      BY <1>1, <1>2, <1>4, <2>2 DEF Staged, Crossing
    <2> QED
      BY <2>3, <2>4, <2>5, Assemble
  <1>5. CASE /\ p \notin ledger /\ binned' = binned \ {p}
             /\ row' = [row EXCEPT ![p] = "live"]
             /\ off' = [o \in Requests |-> IF o = r THEN off[o] ELSE off[o] \cup {p}]
             /\ End(r) \/ Goto(r, "readClear")
    BY <1>1, <1>2, <1>5, RowKept
  <1> QED
    BY <1>1, <1>3, <1>4, <1>5 DEF Revive, Rejected

\* The end of a row-by-row recovery keeps the invariant.
LEMMA UnhideKeeps ==
  ASSUME BinInductive, NEW r \in Requests, Unhide(r)
  PROVE  BinInductive'
  <1>1. /\ End(r) /\ memo' = {} /\ hidden' \subseteq hidden
        /\ UNCHANGED <<row, ledger, tombs, trash, jobs, ops, binned, asked, off, excused>>
    BY DEF Unhide, store, ghosts
  <1> QED
    BY <1>1, QuietEnd DEF BinInductive, BinTypeOK

\* The database's delete function keeps the invariant.
LEMMA RpcKeeps ==
  ASSUME BinInductive, NEW r \in Requests, Rpc(r)
  PROVE  BinInductive'
  <1>0. PICK p \in Products : p = req[r].p
    BY DEF BinInductive, Rpc, At, Routed
  <1>1. /\ BinTypeOK /\ NothingLost /\ BinnedStaysOut /\ Routed(r) /\ Fresh(r)
        /\ req[r].pc = "rpc" /\ p = req[r].p /\ req[r].op \in Deleting \ {"queue"}
        /\ p \in asked
    BY <1>0 DEF BinInductive, Rpc, At, Routed, Deleting
  <1>2. /\ UNCHANGED <<tombs, trash, hidden, ops, binned, asked, off, excused>>
        /\ jobs' \subseteq jobs \cup {p} /\ memo' \in {{}, memo}
    BY <1>1 DEF Rpc, ghosts
  <1>3. /\ \/ UNCHANGED <<row, ledger>>
           \/ row' = [row EXCEPT ![p] = "gone"] /\ ledger' = ledger \cup {p}
        /\ \/ req' = [req EXCEPT ![r].pc = "readTombs", ![r].sure = TRUE]
           \/ req[r].op = "purge" /\ Goto(r, "putBack")
           \/ End(r)
    BY <1>1 DEF Rpc
  <1>4. /\ req' \in [Requests -> Request]
        /\ \A s \in Requests \ {r} : req'[s] = req[s]
        /\ Routed(r)' /\ Fresh(r)' /\ Staged(r)'
        /\ \A s \in Requests \ {r} : Crossing(r, s)' /\ Crossing(s, r)'
    <2>1. CASE End(r)
      BY <1>1, <2>1, Ended
    <2>2. ASSUME NEW pc \in {"readTombs", "putBack"},
                 pc = "putBack" => req[r].op = "purge",
                 req' \in [Requests -> Request],
                 \A s \in Requests \ {r} : req'[s] = req[s],
                 req'[r].pc = pc, req'[r].op = req[r].op, req'[r].p = p,
                 req'[r].trash = req[r].trash
          PROVE  /\ Routed(r)' /\ Fresh(r)' /\ Staged(r)'
                 /\ \A s \in Requests \ {r} : Crossing(r, s)' /\ Crossing(s, r)'
      <3>1. Routed(r)' /\ Fresh(r)'
        BY <1>1, <1>2, <2>2 DEF Routed, Fresh, Deleting
      <3>2. Staged(r)' /\ \A s \in Requests \ {r} : Crossing(r, s)' /\ Crossing(s, r)'
        BY <1>1, <2>2 DEF Staged, Crossing, Deleting, Clearing
      <3> QED
        BY <3>1, <3>2
    <2>3. CASE req[r].op = "purge" /\ Goto(r, "putBack")
      <3>1. /\ req' \in [Requests -> Request]
            /\ \A s \in Requests \ {r} : req'[s] = req[s]
            /\ req'[r].pc = "putBack" /\ req'[r].op = req[r].op /\ req'[r].p = p
            /\ req'[r].trash = req[r].trash
        BY <1>1, <2>3, Went DEF PCs
      <3> QED
        BY <2>2, <2>3, <3>1
    <2>4. CASE req' = [req EXCEPT ![r].pc = "readTombs", ![r].sure = TRUE]
      <3>1. req' = [req EXCEPT ![r] = [req[r] EXCEPT !.pc = "readTombs", !.sure = TRUE]]
        BY <2>4
      <3>2. [req[r] EXCEPT !.pc = "readTombs", !.sure = TRUE] \in Request
        BY <1>1, RequestFields DEF Request, PCs
      <3>3. /\ req' \in [Requests -> Request]
            /\ \A s \in Requests \ {r} : req'[s] = req[s]
            /\ req'[r] = [req[r] EXCEPT !.pc = "readTombs", !.sure = TRUE]
        BY <1>1, <3>1, <3>2, Changed
      <3>4. /\ req'[r].pc = "readTombs" /\ req'[r].op = req[r].op /\ req'[r].p = p
            /\ req'[r].trash = req[r].trash
        BY <1>1, <3>3, RequestFields DEF Request
      <3> QED
        BY <2>2, <3>3, <3>4
    <2> QED
      BY <1>3, <2>1, <2>3, <2>4
  <1>5. /\ row' \in [Products -> Rows] /\ ledger' \subseteq Products
        /\ \A q \in Products \ {p} : row'[q] = row[q] /\ (q \in ledger' <=> q \in ledger)
        /\ ledger \subseteq ledger'
        /\ row' = row \/ p \in ledger'
    BY <1>1, <1>3 DEF BinTypeOK, Rows
  <1>6. BinTypeOK' /\ (jobs \subseteq asked)'
    BY <1>1, <1>2, <1>4, <1>5 DEF BinTypeOK, BinInductive
  <1>7. NothingLost'
    BY <1>1, <1>2, <1>5 DEF NothingLost, Standing
  <1>8. BinnedStaysOut'
    BY <1>1, <1>2, <1>5 DEF BinnedStaysOut, Standing, BinTypeOK
  <1>9. \A s \in Requests \ {r} : Frame(s)
    BY <1>1, <1>2, <1>4, <1>5 DEF Frame
  <1> QED
    BY <1>4, <1>6, <1>7, <1>8, <1>9, Assemble

------------------------------------------------------------------------------
(* Requests begin, the recovery runs, the process restarts.                *)

\* A request that begins, or a job: nothing but what it holds is new.
LEMMA BegunKept ==
  ASSUME BinInductive, NEW r \in Requests, NEW n \in Request, NEW o \in SUBSET Products,
         req' = [req EXCEPT ![r] = n], off' = [off EXCEPT ![r] = o],
         UNCHANGED <<row, ledger, tombs, trash, memo, binned, excused>>,
         asked \subseteq asked', asked' \subseteq Products,
         hidden' \subseteq Products, jobs' \subseteq asked',
         ops' \in 0..MaxOps,
         Routed(r)', Fresh(r)', Staged(r)',
         n.pc \notin Clearing,
         \A s \in Requests \ {r} : Crossing(s, r)'
  PROVE  BinInductive'
  <1>1. BinTypeOK /\ NothingLost /\ BinnedStaysOut
    BY DEF BinInductive
  <1>2. /\ req' \in [Requests -> Request] /\ req'[r] = n
        /\ \A s \in Requests \ {r} : req'[s] = req[s]
    BY <1>1, Changed
  <1>3. /\ off' \in [Requests -> SUBSET Products]
        /\ \A s \in Requests \ {r} : off'[s] = off[s]
    BY <1>1 DEF BinTypeOK
  <1>4. BinTypeOK' /\ (jobs \subseteq asked)'
    BY <1>1, <1>2, <1>3 DEF BinTypeOK
  <1>5. NothingLost' /\ BinnedStaysOut'
    BY <1>1, SameNothingLost, SameBinned
  <1>6. \A s \in Requests \ {r} : Frame(s)
    BY <1>2, <1>3 DEF Frame
  <1>7. \A s \in Requests \ {r} : Crossing(r, s)'
    BY <1>2 DEF Crossing
  <1> QED
    BY <1>4, <1>5, <1>6, <1>7, Assemble

\* A product enters the bin with its copy when the catalogue shows it, bare otherwise.
LEMMA EnteredIs ==
  ASSUME BinTypeOK, NEW p \in Products, NEW known \in BOOLEAN
  PROVE  /\ Entered(p, known) \in [Products -> Entries]
         /\ Entered(p, known)[p] # "none"
         /\ trash[p] = "none" => Entered(p, known)[p] # trash[p]
         /\ \A q \in Products \ {p} : Entered(p, known)[q] = trash[q]
  BY DEF BinTypeOK, Entered, Entries

\* A request that begins keeps the invariant.
LEMMA BeginKeeps ==
  ASSUME BinInductive, NEW r \in Requests, Begin(r)
  PROVE  BinInductive'
  <1>1. BinTypeOK /\ NothingLost
    BY DEF BinInductive
  <1>2. /\ UNCHANGED <<row, ledger, tombs, trash, hidden, jobs, memo, binned, excused>>
        /\ ops' = ops + 1 /\ ops < MaxOps
    BY DEF Begin, store, local
  <1> DEFINE Shown(op, p, pc, held, o) ==
           /\ op = "trash" /\ pc = "bin" /\ held[p] # "none"
           /\ trash[p] = "none" => held[p] # trash[p]
           /\ \A q \in Products \ {p} : held[q] = trash[q]
           /\ trash[p] = "none" \/ Standing(p) \/ p \in o
           /\ p \in tombs => trash[p] = "none" \/ p \in o
             Other(op, p, pc, held) ==
           \/ op = "restore" /\ pc = "check" /\ held = trash
           \/ op = "save" /\ pc = "check"
           \/ op = "purge" /\ pc = "empty" /\ held = trash
           \/ op = "delete" /\ pc = "rpc"
           \/ op = "queue" /\ pc = "ledger"
           \/ op = "recover" /\ pc = "revive" /\ row[p] = "dead"
  <1>3. PICK op \in Ops, p \in Products, pc \in PCs, held \in [Products -> Entries],
             o \in SUBSET Products :
           /\ Starts(r, op, p, pc, held) /\ off' = [off EXCEPT ![r] = o]
           /\ Shown(op, p, pc, held, o) \/ Other(op, p, pc, held)
           /\ asked' = IF op \in {"purge", "delete", "queue"}
                       THEN asked \cup {p} ELSE asked
    <2>1. PICK op \in Ops, p \in Products :
             /\ \/ /\ op = "trash"
                   /\ \E known \in Looks(p) :
                         /\ known \/ trash[p] = "none"
                         /\ Starts(r, op, p, "bin", Entered(p, known))
                         /\ off' = [off EXCEPT ![r] =
                                       IF known /\ ~ Standing(p) THEN {p} ELSE {}]
                \/ /\ \/ op = "restore" /\ Starts(r, op, p, "check", trash)
                      \/ op = "purge" /\ Starts(r, op, p, "empty", trash)
                      \/ op = "delete" /\ Starts(r, op, p, "rpc", Nothing)
                      \/ op = "queue" /\ Starts(r, op, p, "ledger", Nothing)
                      \/ op = "save" /\ Starts(r, op, p, "check", Nothing)
                      \/ op = "recover" /\ row[p] = "dead" /\ Starts(r, op, p, "revive", Nothing)
                   /\ off' = [off EXCEPT ![r] = {}]
             /\ asked' = IF op \in {"purge", "delete", "queue"}
                         THEN asked \cup {p} ELSE asked
      BY DEF Begin
    <2>2. /\ {"bin", "check", "empty", "rpc", "ledger", "revive"} \subseteq PCs
          /\ trash \in [Products -> Entries] /\ Nothing \in [Products -> Entries]
      BY <1>1 DEF PCs, Nothing, Entries, BinTypeOK
    <2>3. ASSUME op = "trash", NEW known \in Looks(p), known \/ trash[p] = "none",
                 Starts(r, op, p, "bin", Entered(p, known)),
                 off' = [off EXCEPT ![r] = IF known /\ ~ Standing(p) THEN {p} ELSE {}]
          PROVE  \E held \in [Products -> Entries], o \in SUBSET Products :
                    /\ Starts(r, op, p, "bin", held) /\ off' = [off EXCEPT ![r] = o]
                    /\ Shown(op, p, "bin", held, o)
      <3> DEFINE h == Entered(p, known)
                 o == IF known /\ ~ Standing(p) THEN {p} ELSE {}
      <3>1. known \in BOOLEAN
        BY <2>3 DEF Looks, Served, Standing
      <3>2. /\ h \in [Products -> Entries] /\ h[p] # "none"
            /\ trash[p] = "none" => h[p] # trash[p]
            /\ \A q \in Products \ {p} : h[q] = trash[q]
        BY <1>1, <3>1, EnteredIs
      <3>3. /\ o \in SUBSET Products
            /\ trash[p] = "none" \/ Standing(p) \/ p \in o
            /\ p \in tombs => trash[p] = "none" \/ p \in o
        BY <2>3 DEF Standing
      <3>4. Starts(r, op, p, "bin", h) /\ off' = [off EXCEPT ![r] = o]
        BY <2>3
      <3> HIDE DEF h, o
      <3>5. Shown(op, p, "bin", h, o)
        BY <2>3, <3>2, <3>3
      <3> QED
        BY <3>2, <3>3, <3>4, <3>5
    <2>4. {} \in SUBSET Products
      OBVIOUS
    <2>5. ASSUME NEW pc \in PCs, NEW held \in [Products -> Entries],
                 Starts(r, op, p, pc, held), off' = [off EXCEPT ![r] = {}],
                 Other(op, p, pc, held)
          PROVE  \E h \in [Products -> Entries], o \in SUBSET Products :
                    /\ Starts(r, op, p, pc, h) /\ off' = [off EXCEPT ![r] = o]
                    /\ Other(op, p, pc, h)
      BY <2>4, <2>5
    <2> HIDE DEF Shown
    <2> QED
      BY <2>1, <2>2, <2>3, <2>5
  <1> DEFINE n == [Idle EXCEPT !.pc = pc, !.op = op, !.p = p, !.left = 1, !.trash = held]
  <1>4. op \in AllOps /\ req' = [req EXCEPT ![r] = n]
    BY <1>3, BinAssumption DEF Starts
  <1>5. /\ n \in Request /\ n.pc = pc /\ n.op = op /\ n.p = p /\ n.trash = held
        /\ n.tombs = {} /\ ~ n.sure
    <2>1. Idle \in Request /\ Idle.tombs = {} /\ Idle.sure = FALSE
      BY IdleTyped DEF Idle
    <2>2. 1 \in 0..2 /\ op \in AllOps \cup {"none", "job"}
      BY <1>4
    <2>3. n \in Request
      BY <2>1, <2>2 DEF Request
    <2>4. n.pc = pc /\ n.op = op /\ n.p = p
      BY <2>1 DEF Request
    <2>5. n.trash = held /\ n.tombs = {} /\ ~ n.sure
      BY <2>1 DEF Request
    <2> QED
      BY <2>3, <2>4, <2>5
  <1> HIDE DEF n
  <1>6. /\ req'[r] = n /\ off'[r] = o
        /\ \A s \in Requests \ {r} : req'[s] = req[s] /\ off'[s] = off[s]
    BY <1>1, <1>3, <1>4 DEF BinTypeOK
  <1>7. asked \subseteq asked' /\ asked' \subseteq Products
    BY <1>1, <1>3 DEF BinTypeOK
  <1>8. Routed(r)'
    BY <1>3, <1>5, <1>6 DEF Routed, Deleting
  <1>9. Fresh(r)'
    BY <1>2, <1>3, <1>5, <1>6 DEF Fresh
  <1>10. Staged(r)'
    <2>1. CASE Shown(op, p, pc, held, o)
      <3>1. Standing(p) \/ p \in asked \cup excused \cup o
        BY <1>1, <2>1 DEF NothingLost
      <3>2. Standing(p)' \/ p \in asked' \cup excused' \cup o
        BY <1>2, <1>7, <3>1 DEF Standing
      <3> QED
        BY <1>5, <1>6, <2>1, <3>2 DEF Staged, Moved, Clearing
    <2>2. CASE Other(op, p, pc, held)
      BY <1>2, <1>5, <1>6, <2>2 DEF Staged, Clearing
    <2> QED
      BY <1>3, <2>1, <2>2
  <1>11. \A s \in Requests \ {r} : Crossing(s, r)'
    <2> SUFFICES ASSUME NEW s \in Requests \ {r}, op = "trash", p \in tombs, p \notin o
                 PROVE  held[p] # trash[p]
      BY <1>2, <1>3, <1>5, <1>6 DEF Crossing
    <2> QED
      BY <1>3
  <1>12. ops' \in 0..MaxOps
    BY <1>1, <1>2, BinAssumption DEF BinTypeOK
  <1>13. hidden' \subseteq Products /\ jobs' \subseteq asked'
    BY <1>2, <1>7 DEF BinInductive, BinTypeOK
  <1>14. n.pc \notin Clearing
    BY <1>3, <1>5 DEF Clearing
  <1> QED
    BY <1>2, <1>3, <1>4, <1>5, <1>7, <1>8, <1>9, <1>10, <1>11, <1>12, <1>13, <1>14, BegunKept

\* The queue's taking a deletion keeps the invariant.
LEMMA RunJobKeeps ==
  ASSUME BinInductive, RunJob
  PROVE  BinInductive'
  <1> DEFINE r == Worker
  <1>1. BinTypeOK /\ r \in Requests /\ jobs \subseteq asked
    BY BinAssumption DEF BinInductive
  <1>2. /\ off' = [off EXCEPT ![r] = {}]
        /\ UNCHANGED <<row, ledger, tombs, trash, hidden, memo, ops, binned,
                       asked, excused>>
    BY DEF RunJob, store
  <1>3. PICK p \in jobs :
           /\ jobs' = jobs \ {p}
           /\ req' = [req EXCEPT ![r] =
                 [Idle EXCEPT !.pc = "rpc", !.op = "job", !.p = p, !.left = 2]]
    BY DEF RunJob
  <1> DEFINE n == [Idle EXCEPT !.pc = "rpc", !.op = "job", !.p = p, !.left = 2]
  <1>4. req' = [req EXCEPT ![r] = n]
    BY <1>3
  <1>5. n \in Request /\ n.pc = "rpc" /\ n.op = "job" /\ n.p = p /\ ~ n.sure
    <2>1. p \in Products /\ Idle \in Request /\ Idle.sure = FALSE
      BY <1>1, IdleTyped DEF BinTypeOK, Idle
    <2>2. "rpc" \in PCs /\ 2 \in 0..2
      BY DEF PCs
    <2>3. n \in Request
      BY <2>1, <2>2 DEF Request
    <2> QED
      BY <2>1, <2>3 DEF Request
  <1> HIDE DEF n
  <1>6. req'[r] = n
    BY <1>1, <1>4 DEF BinTypeOK
  <1>7. p \in Products /\ p \in asked
    BY <1>1 DEF BinTypeOK
  <1>8. Routed(r)' /\ Fresh(r)' /\ Staged(r)' /\ \A s \in Requests \ {r} : Crossing(s, r)'
    BY <1>2, <1>5, <1>6, <1>7 DEF Routed, Fresh, Staged, Crossing, Deleting, Clearing
  <1>9. /\ ops' \in 0..MaxOps /\ hidden' \subseteq Products /\ jobs' \subseteq asked'
        /\ asked' \subseteq Products
    BY <1>1, <1>2, <1>3 DEF BinTypeOK
  <1>10. n.pc \notin Clearing /\ {} \in SUBSET Products
    BY <1>5 DEF Clearing
  <1> QED
    BY <1>1, <1>2, <1>4, <1>5, <1>8, <1>9, <1>10, BegunKept

\* The recovery route, which revives soft-deleted rows, keeps the invariant.
LEMMA RecoverKeeps ==
  ASSUME BinInductive, Recover
  PROVE  BinInductive'
  <1> DEFINE back == {p \in Products \ ledger : row[p] = "dead"}
  <1>1. BinTypeOK /\ NothingLost /\ BinnedStaysOut
    BY DEF BinInductive
  <1>2. /\ ops < MaxOps /\ ops' = ops + 1 /\ hidden' \subseteq hidden
        /\ row' = [p \in Products |-> IF p \in back THEN "live" ELSE row[p]]
        /\ tombs' = tombs \ back /\ binned' = binned \ back
        /\ off' = [r \in Requests |-> off[r] \cup back]
        /\ UNCHANGED <<ledger, trash, jobs, req, asked, excused>>
        /\ memo' \in {{}, memo}
    BY DEF Recover
  <1>3. BinTypeOK' /\ (jobs \subseteq asked)'
    BY <1>1, <1>2, BinAssumption DEF BinTypeOK, BinInductive, Rows
  <1>4. \A q \in Products : ~ Standing(q)' => ~ Standing(q) /\ q \notin back
    BY <1>2 DEF Standing
  <1>5. NothingLost'
    BY <1>1, <1>2, <1>4 DEF NothingLost
  <1>6. BinnedStaysOut'
    BY <1>1, <1>2 DEF BinnedStaysOut, Standing, BinTypeOK
  <1>7. \A s \in Requests : Frame(s)
    BY <1>1, <1>2 DEF Frame, BinTypeOK
  <1>8. \A s \in Requests : Routed(s)' /\ Fresh(s)' /\ Staged(s)'
    BY <1>7, FrameRouted, FrameFresh, FrameStaged
  <1>9. \A s, t \in Requests : s # t => Crossing(s, t)'
    BY <1>7, FrameCrossing
  <1> QED
    BY <1>3, <1>5, <1>6, <1>8, <1>9 DEF BinInductive

\* A restart, which drops every request, keeps the invariant.
LEMMA RestartKeeps ==
  ASSUME BinInductive, Restart
  PROVE  BinInductive'
  <1>1. BinTypeOK /\ NothingLost /\ BinnedStaysOut
    BY DEF BinInductive
  <1>2. /\ memo' = {}
        /\ hidden' = {} /\ jobs' = {}
        /\ req' = [r \in Requests |-> Idle] /\ off' = [r \in Requests |-> {}]
        /\ UNCHANGED <<row, ledger, tombs, trash, ops, binned, asked, excused>>
    BY DEF Restart, store
  <1>3. BinTypeOK' /\ (jobs \subseteq asked)'
    BY <1>1, <1>2, IdleTyped, BinAssumption DEF BinTypeOK
  <1>4. NothingLost' /\ BinnedStaysOut'
    BY <1>1, <1>2, SameNothingLost, SameBinned
  <1>5. \A s \in Requests : req'[s].pc = "idle" /\ req'[s].op = "none"
    BY <1>2 DEF Idle
  <1>6. \A s \in Requests : Routed(s)' /\ Fresh(s)' /\ Staged(s)'
    BY <1>5 DEF Routed, Fresh, Staged, Deleting, Clearing
  <1>7. \A s, t \in Requests : s # t => Crossing(s, t)'
    BY <1>5 DEF Crossing, Clearing
  <1> QED
    BY <1>3, <1>4, <1>6, <1>7 DEF BinInductive

\* The catalogue before any deletion satisfies the invariant.
LEMMA InitInductive ==
  ASSUME Init
  PROVE  BinInductive
  <1>1. \A s \in Requests : req[s].pc = "idle" /\ req[s].op = "none"
    BY DEF Init, Idle
  <1>2. BinTypeOK
    BY IdleTyped, BinAssumption DEF Init, BinTypeOK, Rows, Entries
  <1>3. NothingLost
    BY DEF Init, NothingLost, Standing
  <1>4. BinnedStaysOut
    BY DEF Init, BinnedStaysOut, Standing
  <1>5. \A s \in Requests : Routed(s) /\ Fresh(s) /\ Staged(s)
    BY <1>1 DEF Routed, Fresh, Staged, Deleting, Clearing
  <1>6. \A s, t \in Requests : s # t => Crossing(s, t)
    BY <1>1 DEF Crossing, Clearing
  <1> QED
    BY <1>2, <1>3, <1>4, <1>5, <1>6 DEF BinInductive, Init

\* A step that changes at most what is kept of the tombstones keeps the invariant.
LEMMA UnchangedKeeps ==
  ASSUME BinInductive, memo' \subseteq SUBSET Products,
         UNCHANGED <<row, ledger, tombs, trash, hidden, jobs, req, ops,
                     binned, asked, off, excused>>
  PROVE  BinInductive'
  BY DEF BinInductive, BinTypeOK, NothingLost, BinnedStaysOut, Standing,
         Routed, Fresh, Staged, Moved, Crossing, Clearing

\* A shopper's read, and the age of what is kept, keep the invariant.
LEMMA MemoKeeps ==
  ASSUME BinInductive, Browse \/ Forget
  PROVE  BinInductive'
  <1>1. /\ memo' \subseteq SUBSET Products
        /\ UNCHANGED <<row, ledger, tombs, trash, hidden, jobs, req, ops,
                       binned, asked, off, excused>>
    BY DEF Browse, Forget, store, local, ghosts, BinInductive, BinTypeOK
  <1> QED
    BY <1>1, UnchangedKeeps

\* Every step keeps the invariant, one case for each action.
LEMMA NextKeeps ==
  ASSUME BinInductive, [Next]_vars
  PROVE  BinInductive'
  <1>1. CASE Next
    <2>1. ASSUME NEW r \in Requests, TrashStep(r)
          PROVE  BinInductive'
      BY <2>1, BeginKeeps, SaveTrashKeeps, PutBackKeeps, RemainKeeps, MarkKeeps
      DEF TrashStep
    <2>2. ASSUME NEW r \in Requests, TombsStep(r)
          PROVE  BinInductive'
      BY <2>2, ReadTombsKeeps, WriteTombsKeeps, AddedKeeps DEF TombsStep
    <2>3. ASSUME NEW r \in Requests, ClearStep(r)
          PROVE  BinInductive'
      BY <2>3, ReadClearKeeps, WriteClearKeeps, DropKeptKeeps, PublishKeeps
      DEF ClearStep
    <2>4. ASSUME NEW r \in Requests, SaveStep(r)
          PROVE  BinInductive'
      BY <2>4, CheckKeeps, UpsertKeeps, ReviveKeeps, UnhideKeeps DEF SaveStep
    <2>5. ASSUME NEW r \in Requests, DeleteStep(r)
          PROVE  BinInductive'
      BY <2>5, WriteLedgerKeeps, RpcKeeps, SettleDeleteKeeps DEF DeleteStep
    <2> QED
      BY <1>1, <2>1, <2>2, <2>3, <2>4, <2>5, RunJobKeeps, RecoverKeeps, MemoKeeps,
         RestartKeeps
      DEF Next
  <1>2. CASE UNCHANGED vars
    <2>1. /\ memo' \subseteq SUBSET Products
          /\ UNCHANGED <<row, ledger, tombs, trash, hidden, jobs, req, ops,
                         binned, asked, off, excused>>
      BY <1>2 DEF vars, BinInductive, BinTypeOK
    <2> QED
      BY <2>1, UnchangedKeeps
  <1> QED
    BY <1>1, <1>2

------------------------------------------------------------------------------
(***************************************************************************)
(* Every reachable state satisfies the inductive invariant: what a request *)
(* holds is the store's, but for what others touched since it began.       *)
(***************************************************************************)
THEOREM BinInvariant == Spec => []BinInductive
  <1>1. Init => BinInductive
    BY InitInductive
  <1>2. BinInductive /\ [Next]_vars => BinInductive'
    BY NextKeeps
  <1> QED
    BY <1>1, <1>2, PTL DEF Spec

(***************************************************************************)
(* Types: rows, lists and requests keep theirs under every refused call    *)
(* and lost reply of the store.                                            *)
(***************************************************************************)
THEOREM BinTypes == Spec => []BinTypeOK
  <1>1. BinInductive => BinTypeOK
    BY DEF BinInductive
  <1> QED
    BY <1>1, BinInvariant, PTL

(***************************************************************************)
(* A product that the shop does not sell lies in the Trash or was deleted  *)
(* for good, unless one of the named ways of losing track has hit it: for  *)
(* any number of products and of requests under way at once.               *)
(***************************************************************************)
THEOREM NeverLost == Spec => []NothingLost
  <1>1. BinInductive => NothingLost
    BY DEF BinInductive
  <1> QED
    BY <1>1, BinInvariant, PTL

(***************************************************************************)
(* A product whose move to the Trash was answered with a success stays out *)
(* of the shop until somebody brings it back, marked row or not.           *)
(***************************************************************************)
THEOREM BinnedAlwaysOut == Spec => []BinnedStaysOut
  <1>1. BinInductive => BinnedStaysOut
    BY DEF BinInductive
  <1> QED
    BY <1>1, BinInvariant, PTL

\* Only a save and the recovery make a row live, and neither does so for one
\* that is gone and in the ledger.
LEMMA GoneStep ==
  ASSUME BinTypeOK, [Next]_vars, NEW p \in Products, row[p] = "gone", p \in ledger
  PROVE  row'[p] = "gone"
  <1>1. CASE UNCHANGED row
    BY <1>1
  <1>2. ASSUME NEW r \in Requests, Mark(r)
        PROVE  row'[p] = "gone"
    <2>1. row' = row \/ (row' = [row EXCEPT ![req[r].p] = "dead"] /\ req[r].p # p)
      BY <1>2 DEF Mark
    <2> QED
      BY <2>1 DEF BinTypeOK
  <1>3. ASSUME NEW r \in Requests, Upsert(r)
        PROVE  row'[p] = "gone"
    <2>1. row' = row \/ (row' = [row EXCEPT ![req[r].p] = "live"] /\ req[r].p # p)
      BY <1>3 DEF Upsert, Rejected
    <2> QED
      BY <2>1 DEF BinTypeOK
  <1>4. ASSUME NEW r \in Requests, Rpc(r)
        PROVE  row'[p] = "gone"
    <2>1. row' = row \/ row' = [row EXCEPT ![req[r].p] = "gone"]
      BY <1>4 DEF Rpc
    <2> QED
      BY <2>1 DEF BinTypeOK
  <1>5. ASSUME NEW r \in Requests, Revive(r)
        PROVE  row'[p] = "gone"
    <2>1. row' = row \/ (row' = [row EXCEPT ![req[r].p] = "live"] /\ req[r].p # p)
      BY <1>5 DEF Revive, Rejected
    <2> QED
      BY <2>1 DEF BinTypeOK
  <1>6. CASE Recover
    BY <1>6 DEF Recover
  <1>7. ASSUME NEW r \in Requests, TrashStep(r), ~ Mark(r)
        PROVE  UNCHANGED row
    BY <1>7 DEF TrashStep, Begin, SaveTrash, PutBack, Remain, store
  <1>8. ASSUME NEW r \in Requests, TombsStep(r) \/ ClearStep(r)
        PROVE  UNCHANGED row
    BY <1>8 DEF TombsStep, ReadTombs, WriteTombs, Added, ClearStep, ReadClear,
                WriteClear, DropKept, Publish, store
  <1>9. ASSUME NEW r \in Requests, Check(r) \/ Unhide(r) \/ WriteLedger(r) \/ SettleDelete(r)
        PROVE  UNCHANGED row
    BY <1>9 DEF Check, Unhide, WriteLedger, SettleDelete, store
  <1>10. RunJob \/ Browse \/ Forget \/ Restart => UNCHANGED row
    BY DEF RunJob, Browse, Forget, Restart, store
  <1>11. CASE UNCHANGED vars
    BY <1>11 DEF vars
  <1> QED
    BY <1>1, <1>2, <1>3, <1>4, <1>5, <1>6, <1>7, <1>8, <1>9, <1>10, <1>11
    DEF Next, SaveStep, DeleteStep, TrashStep

(***************************************************************************)
(* A product deleted for good never has a row again, whatever save,        *)
(* restore or job was under way, and whatever it had checked before.       *)
(***************************************************************************)
THEOREM GoneAlways == Spec => GoneForGood
  <1>1. BinTypeOK /\ [Next]_vars =>
           [\A p \in Products :
               row[p] = "gone" /\ p \in ledger => row'[p] = "gone"]_vars
    BY GoneStep
  <1> QED
    BY <1>1, BinTypes, PTL DEF Spec, GoneForGood
==============================================================================
