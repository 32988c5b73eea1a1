------------------------ MODULE ProductBinProperties ------------------------
(***************************************************************************)
(* What must hold of a deleted product.                                    *)
(***************************************************************************)
EXTENDS ProductBin

\* Every variable has its type.
BinTypeOK ==
    /\ row \in [Products -> Rows] /\ trash \in [Products -> Entries]
    /\ req \in [Requests -> Request]
    /\ off \in [Requests -> SUBSET Products]
    /\ {ledger, tombs, hidden, jobs, binned, asked, excused} \subseteq SUBSET Products
    /\ memo \subseteq SUBSET Products
    /\ ops \in 0..MaxOps

(***************************************************************************)
(* No product is lost: one that the shop does not sell, on any process,    *)
(* lies in the Trash, where the owner finds it, or somebody asked to       *)
(* delete it for good - whatever call fails, wherever the process dies -   *)
(* unless a list was written over from a copy that was out of date, or a   *)
(* tombstone stayed that nobody saw stay.                                  *)
(***************************************************************************)
NothingLost ==
    \A p \in Products :
        ~Standing(p) => trash[p] # "none" \/ p \in asked \cup excused

(***************************************************************************)
(* A product whose move to the Trash was answered with a success stays out *)
(* of the shop, after a redeploy too, until a restore, a save or the       *)
(* recovery brings it back - whether or not its row could be marked -      *)
(* unless the list of tombstones was written over.                         *)
(***************************************************************************)
BinnedStaysOut ==
    \A p \in binned \ excused : ~Standing(p)

(***************************************************************************)
(* A product deleted for good does not come back: no save, restore,        *)
(* recovery or replay, however late and whatever it checked before, puts   *)
(* its row into the table again.                                           *)
(***************************************************************************)
GoneForGood ==
    [][\A p \in Products :
          row[p] = "gone" /\ p \in ledger => row'[p] = "gone"]_vars

------------------------------------------------------------------------------
(* Why nothing is lost: what a request may rely on while it is under way.  *)

Deleting == {"purge", "delete", "queue", "job"}

\* Others touched r's product since r began, or its loss is accounted for.
Moved(r) == req[r].p \in off[r] \cup asked \cup excused

\* Which operation makes which calls.
Routed(r) ==
    LET pc == req[r].pc  op == req[r].op IN
    /\ pc = "idle" => op = "none"
    /\ pc # "idle" => req[r].p \in Products
    /\ pc \in {"bin", "mark"} => op = "trash"
    /\ pc = "empty" => op = "purge"
    /\ pc = "remain" => op = "restore"
    /\ pc \in {"check", "upsert"} => op \in {"restore", "save"}
    /\ pc \in {"readClear", "writeClear", "cleared"} => op \in {"restore", "save", "recover"}
    /\ pc = "publish" => op = "save"
    /\ pc \in {"revive", "unhide"} => op = "recover"
    /\ pc \in {"readTombs", "writeTombs", "added"} => op \in Deleting \cup {"trash"}
    /\ pc = "putBack" => op \in {"trash", "purge"}
    /\ pc \in {"rpc", "settle"} => op \in Deleting \ {"queue"}
    /\ pc = "ledger" => op = "queue"
    /\ op \in Deleting => req[r].p \in asked
    /\ op = "trash" => ~ req[r].sure

\* The copies a request holds are those of the store, but for what others
\* touched or the kept list had wrong; a list of tombstones that could not be
\* read holds nothing.
Fresh(r) ==
    \A q \in Products \ off[r] :
        /\ req[r].op \in {"trash", "restore", "purge"} /\ q # req[r].p
               => req[r].trash[q] = trash[q]
        /\ req[r].pc \in {"writeTombs", "writeClear"} /\ q \in req[r].tombs
               => q \in tombs

\* From the row's write until a save or a recovery is done with the tombstones.
Clearing == {"readClear", "writeClear", "cleared", "publish"}

\* How far a move to the Trash, a restore or a recovery has come.
Staged(r) ==
    LET pc == req[r].pc  op == req[r].op  p == req[r].p IN
    /\ pc = "bin" => req[r].trash[p] # "none"
    /\ op = "trash" /\ pc \in {"readTombs", "writeTombs", "added", "mark"}
           => trash[p] # "none" \/ p \in off[r]
    /\ op = "trash" /\ pc \in {"bin", "readTombs", "writeTombs", "putBack"}
           => Standing(p) \/ Moved(r)
    /\ op = "trash" /\ pc \in {"added", "mark"} => p \in tombs \cup off[r]
    /\ op = "restore" /\ pc \in {"readClear", "writeClear"}
           => (row[p] = "live" /\ p \notin ledger) \/ Moved(r)
    /\ op = "restore" /\ pc \in {"cleared", "remain"} => Standing(p) \/ Moved(r)
    /\ pc = "revive" => row[p] # "gone" \/ p \in ledger
    /\ pc \in Clearing => p \in off[r] \cup ledger \/ p \notin binned

\* A move to the Trash that begins while a save of the product has yet to
\* clear its tombstone is seen by the save, or sees it.
Crossing(r, s) ==
    LET p == req[r].p IN
    /\ req[r].pc \in Clearing
    /\ req[s].op = "trash" /\ req[s].p = p /\ p \notin off[r] \cup off[s] \cup ledger
    => /\ req[s].pc \notin {"added", "mark"}
       /\ req[s].pc = "bin" => req[s].trash[p] # trash[p] \/ p \notin tombs
       /\ req[s].pc = "readTombs" => p \notin tombs
       /\ req[s].pc = "writeTombs" => p \notin tombs \cup req[s].tombs

(***************************************************************************)
(* The inductive invariant of the proofs.                                  *)
(***************************************************************************)
BinInductive ==
    /\ BinTypeOK /\ jobs \subseteq asked
    /\ NothingLost /\ BinnedStaysOut
    /\ \A r \in Requests : Routed(r) /\ Fresh(r) /\ Staged(r)
    /\ \A r, s \in Requests : r # s => Crossing(r, s)

------------------------------------------------------------------------------
(* What the documentation of the code says.                                *)

\* "Restore one product from the Trash back onto the store": once the restore
\* has been answered, the product is served.
RestoredIsServed ==
    [][\A r \in Requests : Remain(r) => Served(req[r].p)]_vars

\* "a full snapshot is kept (so it can be restored ...)": a product that is in
\* the shop leaves a copy in the Trash.
SnapshotKept ==
    [][\A r \in Requests :
          Begin(r) /\ req'[r].op = "trash" /\ Standing(req'[r].p)
              => req'[r].trash[req'[r].p] = "copy"]_vars

\* "a trashed id is excluded from the storefront ... until it is restored or
\* permanently deleted".
TrashedStaysOut == \A p \in binned : trash[p] # "none" => ~Standing(p)

\* "every write ... calls invalidate_read_cache() immediately", so that the ten
\* seconds only bound edits made elsewhere: with no request under way, the list
\* that is kept is the one of the store.
KeptIsCurrent ==
    (\A r \in Requests : At(r, "idle")) => memo \subseteq {tombs}

\* "keep the piece in the trash so the owner can retry": a failed purge gives
\* the Trash back as it was, and nobody else's entry.
PurgeKeepsOthers ==
    [][\A r \in Requests :
          PutBack(r) /\ req[r].op = "purge" =>
              \A p \in Products \ {req[r].p} : trash'[p] = trash[p]]_vars
==============================================================================
