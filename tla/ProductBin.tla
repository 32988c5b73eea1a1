----------------------------- MODULE ProductBin -----------------------------
(***************************************************************************)
(* Deleting products on the production backend: the Trash, its restore and *)
(* purge, the permanent delete, inline or queued, and the recovery route   *)
(* (api.py, catalog.py, supabase_store.py, hard_delete_products.sql).      *)
(*                                                                         *)
(* Five records say that a product is gone, and no transaction spans them: *)
(* its row (soft-deleted, or removed), the SQL ledger of permanent         *)
(* deletions, the JSON list of tombstones, the Trash's JSON list of        *)
(* snapshots, and the local list of hidden ids, which a redeploy wipes.    *)
(* The JSON lists are read, changed and written back whole, and the        *)
(* process keeps the tombstones it read for ten seconds or until one of    *)
(* its writes is confirmed.  Each call of the store is one step; it may be *)
(* refused, or take effect and lose its reply.                             *)
(*                                                                         *)
(* Ghost variables: `binned` holds the products whose move to the Trash    *)
(* was answered with a success, made from copies nobody had outdated, and  *)
(* that nobody has brought back, `asked` those somebody asked to delete    *)
(* for good; `off[r]` the products for which what r holds is out of date:  *)
(* others touched them since r began, or r read a kept copy that differs   *)
(* from the store; and `excused` those a known way of losing track has     *)
(* hit: a list written back from an out-of-date or an unreadable copy, a   *)
(* tombstone whose reply was lost, or one that was not cleared.            *)
(***************************************************************************)
EXTENDS Naturals, FiniteSets

CONSTANTS
    Products,
    Seeds,          \* the products bundled with the application
    Requests,       \* the threads that serve the admin
    Worker,         \* the queue's thread, one of Requests
    NoProduct,
    Ops,            \* what the admin does
    Refusable,      \* the calls that may be refused
    Losable,        \* the calls whose reply may be lost
    MaxOps          \* bound: admin requests

AllOps == {"trash", "restore", "purge", "delete", "queue", "save", "recover"}
Calls  == {"trash", "tombs", "readTombs", "ledger", "catalogue", "mark",
           "upsert", "revive", "rpc", "cleanup", "recover"}

ASSUME BinAssumption ==
    /\ Seeds \subseteq Products /\ NoProduct \notin Products
    /\ Worker \in Requests
    /\ Ops \subseteq AllOps /\ Refusable \subseteq Calls /\ Losable \subseteq Calls
    /\ MaxOps \in Nat

VARIABLES row, ledger, tombs, trash, hidden, jobs, memo, req, ops,
          binned, asked, off, excused

store  == <<row, ledger, tombs, trash>>
local  == <<hidden, jobs>>
ghosts == <<binned, asked, off, excused>>
vars   == <<row, ledger, tombs, trash, hidden, jobs, memo, req, ops,
            binned, asked, off, excused>>

------------------------------------------------------------------------------
Rows == {"live", "dead", "gone"}

\* A Trash entry holds a copy of the product, or no more than its id.
Entries == {"none", "bare", "copy"}

PCs == {"idle", "bin", "empty", "readTombs", "writeTombs", "added", "mark",
        "check", "upsert", "revive", "readClear", "writeClear", "cleared",
        "publish", "remain", "unhide", "rpc", "ledger", "settle", "putBack"}

\* What a request holds between two calls: the Trash and the tombstones as it
\* read them, whether a tombstone is confirmed, and the passes over the
\* tombstones still to make.
Request == [pc : PCs, op : AllOps \cup {"none", "job"},
            p : Products \cup {NoProduct},
            trash : [Products -> Entries], tombs : SUBSET Products,
            sure : BOOLEAN, left : 0..2]

Nothing == [p \in Products |-> "none"]

Idle == [pc |-> "idle", op |-> "none", p |-> NoProduct, trash |-> Nothing,
         tombs |-> {}, sure |-> FALSE, left |-> 0]

\* `merged` without the local list: what every process serves after a redeploy.
Standing(p) ==
    /\ row[p] = "live" \/ (row[p] = "gone" /\ p \in Seeds)
    /\ p \notin ledger \cup tombs

\* `merged`: what this process serves.
Served(p) == Standing(p) /\ p \notin hidden

\* After a redeploy, with any products in the Trash: a bundled product may
\* have no row.
Init ==
    /\ binned \in SUBSET Products
    /\ row \in {f \in [Products -> Rows] :
          \A p \in Products : \/ f[p] = IF p \in binned THEN "dead" ELSE "live"
                              \/ f[p] = "gone" /\ p \in Seeds}
    /\ trash = [p \in Products |-> IF p \in binned THEN "copy" ELSE "none"]
    /\ tombs = binned
    /\ ledger = {} /\ hidden = {} /\ jobs = {} /\ memo = {}
    /\ req = [r \in Requests |-> Idle]
    /\ ops = 0
    /\ asked = {} /\ excused = {}
    /\ off = [r \in Requests |-> {}]

\* The ways a call may end: done, refused, or done with its reply lost.
Ends(call) ==
    {"done"} \cup (IF call \in Refusable THEN {"refused"} ELSE {})
             \cup (IF call \in Losable THEN {"lost"} ELSE {})

At(r, pc)   == req[r].pc = pc
Goto(r, pc) == req' = [req EXCEPT ![r].pc = pc]
End(r)      == req' = [req EXCEPT ![r] = Idle]

\* Request r changed what is known of the products of ps: the copies of the
\* others are out of date for them; those it changed from an out-of-date copy
\* are excused, and so are those of `also`.
Touch(r, ps, also) ==
    /\ off' = [s \in Requests |-> IF s = r THEN off[s] ELSE off[s] \cup ps]
    /\ excused' = excused \cup (ps \cap off[r]) \cup also

Untouched == UNCHANGED <<off, excused>>

\* What a read of the catalogue shows of p: one that fails shows nothing, and
\* one kept from before may show what is no longer served.
Looks(p) == IF "catalogue" \in Refusable THEN BOOLEAN ELSE {Served(p)}

\* `cached_read` of the tombstones: `memo` holds the list the process keeps, if
\* any; only without one is the store asked, and may the read fail.
Kept       == IF memo = {} THEN {tombs} ELSE memo
Unreadable == "readTombs" \in Refusable /\ memo = {}

\* Request r reads `list`, and is out of date where the store says otherwise.
Learns(r, list) ==
    /\ memo' = {list}
    /\ off' = [off EXCEPT ![r] = @ \cup (list \ tombs) \cup (tombs \ list)]

------------------------------------------------------------------------------
(* A request begins.                                                       *)

\* Mutant: the entry is written without the others.
MutEntered(p, known) ==
    [Nothing EXCEPT ![p] = IF known THEN "copy" ELSE "bare"]

\* Mutant: the entry records the state of the row, not the product.
MutEnteredRow(p, known) == [trash EXCEPT ![p] = row[p]]

\* The Trash with p in it, and with a copy of it if the catalogue showed it.
Entered(p, known) ==
    [trash EXCEPT ![p] = IF known THEN "copy" ELSE "bare"]

Starts(r, op, p, pc, held) ==
    req' = [req EXCEPT ![r] =
        [Idle EXCEPT !.pc = pc, !.op = op, !.p = p, !.left = 1, !.trash = held]]

\* The route reads the catalogue and the Trash.  A product that the catalogue
\* does not show and that lies in the Trash is not binned again; one that is
\* not in the Trash is neither restored nor purged; the copy of one is needed
\* to restore it.  Where the recovery's function is not installed, the rows
\* that are soft-deleted are revived one by one: each is an operation here.
Begin(r) ==
    /\ r # Worker /\ At(r, "idle")
    /\ ops < MaxOps
    /\ ops' = ops + 1
    /\ \E op \in Ops, p \in Products :
          /\ \/ /\ op = "trash"
                /\ \E known \in Looks(p) :
                      /\ known \/ trash[p] = "none"
                      /\ Starts(r, op, p, "bin", Entered(p, known))
                      /\ off' = [off EXCEPT ![r] =
                                    IF known /\ ~ Standing(p) THEN {p} ELSE {}]
             \/ /\ \/ op = "restore" /\ trash[p] = "copy" /\ Starts(r, op, p, "check", trash)
                   \/ op = "purge" /\ trash[p] # "none" /\ Starts(r, op, p, "empty", trash)
                   \/ op = "delete" /\ Starts(r, op, p, "rpc", Nothing)
                   \/ op = "queue" /\ Starts(r, op, p, "ledger", Nothing)
                   \/ op = "save" /\ Served(p) /\ Starts(r, op, p, "check", Nothing)
                   \/ op = "recover" /\ row[p] = "dead" /\ Starts(r, op, p, "revive", Nothing)
                /\ off' = [off EXCEPT ![r] = {}]
          /\ asked' = IF op \in {"purge", "delete", "queue"}
                      THEN asked \cup {p} ELSE asked
    /\ UNCHANGED <<store, local, memo, binned, excused>>

------------------------------------------------------------------------------
(* The Trash.                                                              *)

\* The Trash as the request read it, without its product.
Without(r) == [req[r].trash EXCEPT ![req[r].p] = "none"]

\* The Trash is written whole.
WriteTrash(r, new, end) ==
    IF end = "refused"
    THEN Untouched /\ UNCHANGED trash
    ELSE /\ trash' = new
         /\ Touch(r, {p \in Products : new[p] # trash[p]}, {})

\* `_trash_product` adds its entry, the purge takes it out; either stops when
\* that is not confirmed.
SaveTrash(r) ==
    /\ req[r].pc \in {"bin", "empty"}
    /\ \E end \in Ends("trash") :
          /\ WriteTrash(r, IF At(r, "bin") THEN req[r].trash ELSE Without(r), end)
          /\ IF end # "done" THEN End(r)
             ELSE Goto(r, IF At(r, "bin") THEN "readTombs" ELSE "rpc")
    /\ UNCHANGED <<row, ledger, tombs, local, memo, ops, binned, asked>>

\* The entry is taken back out after a tombstone that was not confirmed, and
\* the list as it was first read is written back after a purge that failed.
PutBack(r) ==
    /\ At(r, "putBack")
    /\ \E end \in Ends("trash") :
          WriteTrash(r, IF req[r].op = "trash" THEN Without(r) ELSE req[r].trash, end)
    /\ End(r)
    /\ UNCHANGED <<row, ledger, tombs, local, memo, ops, binned, asked>>

\* The restored product leaves the Trash.
Remain(r) ==
    /\ At(r, "remain")
    /\ \E end \in Ends("trash") : WriteTrash(r, Without(r), end)
    /\ End(r)
    /\ UNCHANGED <<row, ledger, tombs, local, memo, ops, binned, asked>>

------------------------------------------------------------------------------
(* The JSON list of tombstones.                                            *)

\* `load_deleted_ids`; a list that cannot be read counts as empty.
ReadTombs(r) ==
    /\ At(r, "readTombs")
    /\ \/ \E list \in Kept :
             /\ Learns(r, list)
             /\ req' = [req EXCEPT ![r].pc = "writeTombs", ![r].tombs = list]
       \/ /\ Unreadable
          /\ req' = [req EXCEPT ![r].pc = "writeTombs", ![r].tombs = {}]
          /\ UNCHANGED <<memo, off>>
    /\ UNCHANGED <<store, local, ops, binned, asked, excused>>

\* Mutant: the Trash goes on without its tombstone.
MutAfterTombs(r, sure) ==
    IF req[r].op = "trash" THEN [req[r] EXCEPT !.pc = "mark"]
    ELSE IF req[r].op = "queue" THEN Idle
    ELSE IF req[r].left = 2 THEN [req[r] EXCEPT !.pc = "readTombs", !.left = 1]
    ELSE [req[r] EXCEPT !.pc = "settle"]

\* After the tombstone: the queued delete hides the product and queues its
\* job if one of its two writes was confirmed; the Trash hides it and goes on
\* or puts its entry back; a permanent delete mirrors it once, the job twice.
AfterTombs(r, sure) ==
    IF req[r].op = "trash"
    THEN [req[r] EXCEPT !.pc = IF sure THEN "mark" ELSE "putBack"]
    ELSE IF req[r].op = "queue" THEN Idle
    ELSE IF req[r].left = 2 THEN [req[r] EXCEPT !.pc = "readTombs", !.left = 1]
    ELSE [req[r] EXCEPT !.pc = "settle"]

Answered(r, sure) ==
    LET p == req[r].p  op == req[r].op IN
    /\ req' = [req EXCEPT ![r] = AfterTombs(r, sure)]
    /\ hidden' = IF op = "trash" \/ (op = "queue" /\ sure) THEN hidden \cup {p} ELSE hidden
    /\ jobs' = IF op = "queue" /\ sure THEN jobs \cup {p} ELSE jobs

\* `add_deleted_id` and the Trash's own tombstone: nothing is written if the
\* list, as read, has it.
WriteTombs(r) ==
    LET p    == req[r].p
        new  == req[r].tombs \cup {p}
        lost == tombs \ new
    IN
    /\ At(r, "writeTombs")
    /\ \/ /\ p \in req[r].tombs
          /\ Answered(r, TRUE)
          /\ Untouched /\ UNCHANGED tombs
       \/ /\ p \notin req[r].tombs
          /\ \E end \in Ends("tombs") :
                /\ IF end = "done" THEN Goto(r, "added") /\ UNCHANGED local
                   ELSE Answered(r, req[r].sure)
                /\ IF end = "refused"
                   THEN Untouched /\ UNCHANGED tombs
                   ELSE /\ tombs' = new
                        /\ Touch(r, (tombs \ new) \cup (new \ tombs),
                                 lost \cup (IF end = "lost" THEN {p} ELSE {}))
    /\ UNCHANGED <<row, ledger, trash, memo, ops, binned, asked>>

\* The write is confirmed: the kept list is dropped, and the request goes on.
Added(r) ==
    /\ At(r, "added")
    /\ memo' = {}
    /\ Answered(r, TRUE)
    /\ UNCHANGED <<store, ops, ghosts>>

\* `delete_products_strict`: the row is soft-deleted if it is live; a failure
\* is not noticed, and the move to the Trash is answered with a success.
Mark(r) ==
    LET p == req[r].p IN
    /\ At(r, "mark")
    /\ \E end \in Ends("mark") :
          /\ IF end = "refused" \/ row[p] # "live" \/ p \in ledger
             THEN Untouched /\ UNCHANGED row
             ELSE /\ row' = [row EXCEPT ![p] = "dead"]
                  /\ Touch(r, {p}, {})
          /\ memo' = IF end = "done" THEN {} ELSE memo
    /\ binned' = IF p \in off[r] THEN binned ELSE binned \cup {p}
    /\ End(r)
    /\ UNCHANGED <<ledger, tombs, trash, local, ops, asked>>

------------------------------------------------------------------------------
(* Saving a product: the editor's save, the restore from the Trash, and the *)
(* recovery where it goes row by row.                                      *)

\* `upsert` may find the product in the ledger; a look that fails, is kept from
\* before, or is skipped is no refusal.  It drops what the process keeps, and
\* reads the catalogue, unless it saves no more than the fields that changed.
Check(r) ==
    /\ At(r, "check")
    /\ \/ /\ req[r].p \in ledger
          /\ End(r)
          /\ UNCHANGED memo
       \/ /\ Goto(r, "upsert")
          /\ memo' \in {{}, {tombs}} \cup (IF req[r].op = "save" THEN {memo} ELSE {})
    /\ UNCHANGED <<store, local, ops, ghosts>>

\* Mutant: the trigger is not installed.
MutRejected(p) == FALSE

\* The trigger `reject_hard_deleted_product`.
Rejected(p) == p \in ledger

\* A whole row is written, and lives; the editor may patch an existing one,
\* which leaves it dead if it was.
Upsert(r) ==
    LET p == req[r].p IN
    /\ At(r, "upsert")
    /\ \E end \in Ends("upsert"), patch \in BOOLEAN :
          /\ patch => req[r].op = "save" /\ row[p] # "gone"
          /\ IF Rejected(p) \/ end # "done" THEN End(r) ELSE Goto(r, "readClear")
          /\ IF Rejected(p) \/ end = "refused"
             THEN Untouched /\ UNCHANGED <<row, binned>>
             ELSE /\ row' = IF patch THEN row ELSE [row EXCEPT ![p] = "live"]
                  /\ off' = [o \in Requests |-> IF o = r THEN off[o] ELSE off[o] \cup {p}]
                  /\ UNCHANGED excused
                  /\ binned' = binned \ {p}
    /\ UNCHANGED <<ledger, tombs, trash, local, memo, ops, asked>>

\* The recovery revives a row it read as soft-deleted; without a row there is
\* nothing to refuse, and nothing to revive.
Revive(r) ==
    LET p == req[r].p IN
    /\ At(r, "revive")
    /\ \E end \in Ends("revive") :
          LET refused == end = "refused" \/ (row[p] # "gone" /\ Rejected(p)) IN
          /\ IF refused \/ end # "done" THEN End(r) ELSE Goto(r, "readClear")
          /\ IF refused \/ row[p] = "gone"
             THEN UNCHANGED <<row, binned, off>>
             ELSE /\ row' = [row EXCEPT ![p] = "live"]
                  /\ off' = [o \in Requests |-> IF o = r THEN off[o] ELSE off[o] \cup {p}]
                  /\ binned' = binned \ {p}
    /\ UNCHANGED <<ledger, tombs, trash, local, memo, ops, asked, excused>>

\* After the clearing: the restore takes the product out of the Trash, a save
\* looks once whether the product is published, the recovery unhides it.  A row
\* that cannot be read back fails the first two.
Cleared(r) ==
    \/ req[r].op = "restore" /\ Goto(r, "remain")
    \/ req[r].op = "save" /\ req[r].left > 0 /\ Goto(r, "publish")
    \/ req[r].op = "recover" /\ Goto(r, "unhide")
    \/ req[r].op = "save" /\ req[r].left = 0 /\ End(r)
    \/ req[r].op # "recover" /\ "catalogue" \in Refusable /\ End(r)

\* `clear_deleted_id` does nothing to a list that it cannot read,
ReadClear(r) ==
    LET p == req[r].p IN
    /\ At(r, "readClear")
    /\ \/ \E list \in Kept :
             /\ Learns(r, list)
             /\ IF p \in list
                THEN req' = [req EXCEPT ![r].pc = "writeClear", ![r].tombs = list]
                ELSE Cleared(r)
             /\ UNCHANGED excused
       \/ /\ Unreadable
          /\ Cleared(r)
          /\ excused' = excused \cup {p}
          /\ UNCHANGED <<memo, off>>
    /\ UNCHANGED <<store, local, ops, binned, asked>>

\* nobody looks whether it wrote,
WriteClear(r) ==
    LET p   == req[r].p
        new == req[r].tombs \ {p}
    IN
    /\ At(r, "writeClear")
    /\ \E end \in Ends("tombs") :
          /\ IF end = "done" THEN Goto(r, "cleared") ELSE Cleared(r)
          /\ IF end = "refused"
             THEN Touch(r, {}, {p}) /\ UNCHANGED tombs
             ELSE /\ tombs' = new
                  /\ Touch(r, (tombs \ new) \cup (new \ tombs), (tombs \ new) \ {p})
    /\ UNCHANGED <<row, ledger, trash, local, memo, ops, binned, asked>>

\* and only a confirmed write drops the kept list.
DropKept(r) ==
    /\ At(r, "cleared")
    /\ memo' = {}
    /\ Cleared(r)
    /\ UNCHANGED <<store, local, ops, ghosts>>

\* `_publication_check`: a product that is on the list, and that neither the
\* ledger nor the catalogue accounts for, is cleared again.
Publish(r) ==
    LET p == req[r].p IN
    /\ At(r, "publish")
    /\ \/ \E list \in Kept, shown \in Looks(p) :
             /\ Learns(r, list)
             /\ \/ /\ p \in list /\ ~ shown
                   /\ req' = [req EXCEPT ![r].pc = "readClear", ![r].left = 0]
                \/ /\ p \notin list \/ shown \/ p \in ledger
                   /\ End(r)
       \/ Unreadable /\ End(r) /\ UNCHANGED <<memo, off>>
    /\ UNCHANGED <<store, local, ops, binned, asked, excused>>

\* The recovery drops what the process keeps; its route takes the products
\* off the local list.
Unhide(r) ==
    /\ At(r, "unhide")
    /\ memo' = {}
    /\ hidden' = hidden \ {req[r].p}
    /\ End(r)
    /\ UNCHANGED <<store, jobs, ops, ghosts>>

------------------------------------------------------------------------------
(* Deleting for good.                                                      *)

\* The queued delete first writes the ledger.
WriteLedger(r) ==
    LET p == req[r].p IN
    /\ At(r, "ledger")
    /\ \E end \in Ends("ledger") :
          /\ ledger' = IF end = "refused" THEN ledger ELSE ledger \cup {p}
          /\ req' = [req EXCEPT ![r].pc = "readTombs", ![r].sure = (end = "done")]
    /\ UNCHANGED <<row, tombs, trash, local, memo, ops, ghosts>>

\* `hard_delete_products`: ledger and row in one transaction.
Rpc(r) ==
    LET p == req[r].p IN
    /\ At(r, "rpc")
    /\ \E end \in Ends("rpc") :
          /\ IF end = "refused"
             THEN UNCHANGED <<row, ledger>>
             ELSE /\ row' = [row EXCEPT ![p] = "gone"]
                  /\ ledger' = ledger \cup {p}
          /\ IF end = "done"
             THEN req' = [req EXCEPT ![r].pc = "readTombs", ![r].sure = TRUE]
             ELSE IF req[r].op = "purge" THEN Goto(r, "putBack") ELSE End(r)
          /\ jobs' = IF end # "done" /\ req[r].op = "job" THEN jobs \cup {p} ELSE jobs
          /\ memo' = IF end = "done" THEN {} ELSE memo
    /\ UNCHANGED <<tombs, trash, hidden, ops, ghosts>>

\* Its mirror and clean-up are over: an error among them fails a purge, which
\* puts the Trash back; else the product is hidden, as a queued one was.
SettleDelete(r) ==
    LET q == req[r] IN
    /\ At(r, "settle")
    /\ \E end \in Ends("cleanup") \ {"lost"} :
          /\ IF end # "done" /\ q.op = "purge" THEN Goto(r, "putBack") ELSE End(r)
          /\ hidden' = IF end = "done" /\ q.op # "job"
                       THEN hidden \cup {q.p} ELSE hidden
    /\ UNCHANGED <<store, jobs, memo, ops, ghosts>>

\* The queue's thread takes a job.
RunJob ==
    /\ At(Worker, "idle")
    /\ \E p \in jobs :
          /\ jobs' = jobs \ {p}
          /\ req' = [req EXCEPT ![Worker] =
                [Idle EXCEPT !.pc = "rpc", !.op = "job", !.p = p, !.left = 2]]
    /\ off' = [off EXCEPT ![Worker] = {}]
    /\ UNCHANGED <<store, hidden, memo, ops, binned, asked, excused>>

------------------------------------------------------------------------------
\* The recovery route, one transaction where its function is installed: every
\* soft-deleted row that is not in the ledger is live again, and leaves both
\* lists of hidden ids; the reply drops what the process keeps.
Recover ==
    LET back == {p \in Products \ ledger : row[p] = "dead"} IN
    /\ back # {}
    /\ ops < MaxOps
    /\ ops' = ops + 1
    /\ \E end \in Ends("recover") \ {"refused"} :
          /\ hidden' = IF end = "done" THEN hidden \ back ELSE hidden
          /\ memo' = IF end = "done" THEN {} ELSE memo
    /\ row' = [p \in Products |-> IF p \in back THEN "live" ELSE row[p]]
    /\ tombs' = tombs \ back
    /\ binned' = binned \ back
    /\ off' = [r \in Requests |-> off[r] \cup back]
    /\ UNCHANGED <<ledger, trash, jobs, req, asked, excused>>

\* A shopper's read of the catalogue keeps the tombstones it needs.
Browse ==
    /\ memo = {}
    /\ memo' = {tombs}
    /\ UNCHANGED <<store, local, req, ops, ghosts>>

\* What is kept is ten seconds old, or some other write drops it.
Forget ==
    /\ memo # {}
    /\ memo' = {}
    /\ UNCHANGED <<store, local, req, ops, ghosts>>

\* A redeploy: requests, jobs, the local list and what was kept are gone.
Restart ==
    /\ hidden' = {} /\ jobs' = {} /\ memo' = {}
    /\ req' = [r \in Requests |-> Idle]
    /\ off' = [r \in Requests |-> {}]
    /\ UNCHANGED <<store, ops, binned, asked, excused>>

------------------------------------------------------------------------------
TrashStep(r)  == Begin(r) \/ SaveTrash(r) \/ PutBack(r) \/ Remain(r) \/ Mark(r)
TombsStep(r)  == ReadTombs(r) \/ WriteTombs(r) \/ Added(r)
ClearStep(r)  == ReadClear(r) \/ WriteClear(r) \/ DropKept(r) \/ Publish(r)
SaveStep(r)   == Check(r) \/ Upsert(r) \/ Revive(r) \/ Unhide(r)
DeleteStep(r) == WriteLedger(r) \/ Rpc(r) \/ SettleDelete(r)

Next ==
    \/ \E r \in Requests :
          \/ TrashStep(r) \/ TombsStep(r) \/ ClearStep(r)
          \/ SaveStep(r) \/ DeleteStep(r)
    \/ RunJob \/ Recover \/ Browse \/ Forget \/ Restart

Spec == Init /\ [][Next]_vars
==============================================================================
