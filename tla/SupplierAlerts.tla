--------------------------- MODULE SupplierAlerts ---------------------------
(***************************************************************************)
(* The owner's e-mails about a supplier's low or empty shelf               *)
(* (supplier_alerts.py and what calls it).                                 *)
(*                                                                         *)
(* One JSON ledger with an entry per product and variant is loaded,        *)
(* changed and saved whole by the supplier watchdog, which runs outside    *)
(* the server and records what it read; by two drains, one at the end of   *)
(* the watchdog's run and one on the scheduler's tick, which mail what is  *)
(* pending; and by the owner's "mark as seen".  A drain stamps its claim   *)
(* on what it is about to mail; a claim left behind expires.               *)
(*                                                                         *)
(* Left out: the ledger's limit of 1000 entries, names and times.  An item *)
(* stands for one product with one entry.                                  *)
(*                                                                         *)
(* Ghost variables: `owed[i]` is the level of a recorded drop the owner    *)
(* has not been mailed; `sent[a]` what the last mail of drain a told;      *)
(* `off[a]` the items others changed since a loaded the ledger, `excused`  *)
(* those overwritten from such a copy; `unsure` those mailed without the   *)
(* ledger learning of it; `repeated` those mailed with nothing owed; and   *)
(* `missed` those marked as mailed that no mail told of.                   *)
(***************************************************************************)
EXTENDS Naturals, FiniteSets

CONSTANTS
    Items,
    Stocks,         \* what the shop may have of an item: 0 is not selling it
    MaxRows,        \* MAX_EMAIL_ROWS
    MaxReadings,    \* bound: readings of the watchdog
    MaxRuns,        \* bound: drains of the watchdog
    MaxMarks,       \* bound: items marked as seen
    MaxMoves,       \* bound: changes of the shop's own stock
    MaxFaults       \* bound: failed calls and crashes

Watchdog == "watchdog"
Tick     == "tick"
Owner    == "owner"
Drains   == {Watchdog, Tick}
Actors   == {Watchdog, Tick, Owner}

Levels == {"ok", "low", "out"}
Severity == [ok |-> 0, low |-> 1, out |-> 2]

\* What a page told: a count, or no more than that there is stock.
Readings == [units : Stocks, flagged : BOOLEAN]

\* A claim is a drain's own, one left behind by a drain that is over, or none.
Claims == Drains \cup {"left", "none"}

Entry == [level : Levels, pending : BOOLEAN, emailed : Levels,
          claim : Claims, seen : Levels]

NoEntry == [level |-> "ok", pending |-> FALSE, emailed |-> "ok",
            claim |-> "none", seen |-> "ok"]

ASSUME AlertsAssumption ==
    /\ IsFiniteSet(Items) /\ Stocks \subseteq Nat /\ MaxRows \in Nat \ {0}
    /\ MaxReadings \in Nat /\ MaxRuns \in Nat /\ MaxMarks \in Nat
    /\ MaxMoves \in Nat /\ MaxFaults \in Nat

VARIABLES
    shop, ledger,
    pc, copy, live, accepted,   \* of each actor; `live` is what a drain claims
    readings, runs, marks, moves, faults,
    owed, sent, off, excused, unsure, repeated, missed

counts == <<readings, runs, marks, moves>>
vars == <<shop, ledger, pc, copy, live, accepted, readings, runs, marks, moves,
          faults, owed, sent, off, excused, unsure, repeated, missed>>

------------------------------------------------------------------------------
\* `level_for`: a reading against what the shop has.
LevelFor(reading, stock) ==
    CASE reading.flagged       -> "ok"
      [] reading.units = 0     -> "out"
      [] reading.units < stock -> "low"
      [] OTHER                 -> "ok"

Worse(a, b) == Severity[a] > Severity[b]

\* Mutant: an item that is well again keeps its entry.
MutObserved(e, level) ==
    IF level = "ok" THEN [e EXCEPT !.level = "ok"]
    ELSE [e EXCEPT !.level = level, !.pending = @ \/ Worse(level, e.emailed),
                   !.seen = IF Worse(level, @) THEN "ok" ELSE level]

\* `apply_observations`: an entry after a reading of this level.
Observed(e, level) ==
    IF level = "ok" THEN IF e.pending THEN e ELSE NoEntry
    ELSE [e EXCEPT !.level = level, !.pending = @ \/ Worse(level, e.emailed),
                   !.seen = IF Worse(level, @) THEN "ok" ELSE level]

\* Mutant: claims are not looked at.
MutUnclaimed(e) == e.pending

\* `pending_alerts`: what may be claimed now.
Claimable(e) == e.pending /\ e.claim = "none"

Sellable(i) == shop[i] > 0

Init ==
    /\ shop \in [Items -> Stocks \ {0}]
    /\ ledger = [i \in Items |-> NoEntry]
    /\ pc = [a \in Actors |-> "idle"]
    /\ copy = [a \in Actors |-> ledger]
    /\ live = [a \in Actors |-> {}]
    /\ accepted = [a \in Actors |-> FALSE]
    /\ readings = 0 /\ runs = 0 /\ marks = 0 /\ moves = 0 /\ faults = 0
    /\ owed = [i \in Items |-> "ok"]
    /\ sent = [a \in Actors |-> [i \in Items |-> "ok"]]
    /\ off = [a \in Actors |-> {}]
    /\ excused = {} /\ unsure = {} /\ repeated = {} /\ missed = {}

------------------------------------------------------------------------------
(* Loading and saving.                                                     *)

Fault   == faults < MaxFaults /\ faults' = faults + 1
NoFault == UNCHANGED faults

\* Actor a has loaded the ledger and will go on at `at` with `new`.
Load(a, at, new) ==
    /\ pc' = [pc EXCEPT ![a] = at]
    /\ copy' = [copy EXCEPT ![a] = new]
    /\ off' = [off EXCEPT ![a] = {}]

\* The claims of a drain that is over are left behind, wherever they are.
LeftBehind(f, a) ==
    [i \in Items |-> IF f[i].claim = a THEN [f[i] EXCEPT !.claim = "left"]
                                       ELSE f[i]]

\* Actor a is done, leaving the ledger as `new`.
End(a, new) ==
    /\ ledger' = LeftBehind(new, a)
    /\ copy' = [b \in Actors |-> IF b = a THEN [i \in Items |-> NoEntry]
                                          ELSE LeftBehind(copy[b], a)]
    /\ pc' = [pc EXCEPT ![a] = "idle"]
    /\ live' = [live EXCEPT ![a] = {}]
    /\ accepted' = [accepted EXCEPT ![a] = FALSE]
    /\ sent' = [sent EXCEPT ![a] = [i \in Items |-> "ok"]]

\* The books of a write of `new`: what it changes, it changes from a copy that
\* is out of date for the items of off[a].
Wrote(a, new) ==
    LET changed == {i \in Items : new[i] # ledger[i]} IN
    /\ off' = [b \in Actors |-> IF b = a THEN {} ELSE off[b] \cup changed]
    /\ excused' = excused \cup (changed \cap off[a])

------------------------------------------------------------------------------
(* The watchdog and the owner.                                             *)

\* `_record_stock_alerts`, `record_observations`: the listing is read afresh,
\* and a reading of an item that is sold is folded into a loaded ledger.
Observe ==
    /\ pc[Watchdog] = "idle" /\ readings < MaxReadings
    /\ readings' = readings + 1
    /\ \E i \in {j \in Items : Sellable(j)}, r \in Readings :
          Load(Watchdog, "record",
               [ledger EXCEPT ![i] = Observed(@, LevelFor(r, shop[i]))])
    /\ UNCHANGED <<shop, ledger, live, accepted, runs, marks, moves, faults,
                   owed, sent, excused, unsure, repeated, missed>>

\* What is owed once the entries are those of `new`.
OwedBy(new) ==
    [i \in Items |-> IF new[i].pending THEN new[i].level ELSE "ok"]

Record ==
    /\ pc[Watchdog] = "record"
    /\ \/ /\ Wrote(Watchdog, copy[Watchdog])
          /\ End(Watchdog, copy[Watchdog])
          /\ owed' = [i \in Items |->
                IF copy[Watchdog][i] # ledger[i] THEN OwedBy(copy[Watchdog])[i]
                                                 ELSE owed[i]]
          /\ NoFault
       \/ Fault /\ End(Watchdog, ledger) /\ UNCHANGED <<owed, off, excused>>
    /\ UNCHANGED <<shop, counts, unsure, repeated, missed>>

\* `mark_seen`.
MarkSeen ==
    /\ pc[Owner] = "idle" /\ marks < MaxMarks
    /\ marks' = marks + 1
    /\ \E i \in Items :
          /\ ledger[i].level # "ok"
          /\ Load(Owner, "mark", [ledger EXCEPT ![i].seen = ledger[i].level])
    /\ UNCHANGED <<shop, ledger, live, accepted, readings, runs, moves, faults,
                   owed, sent, excused, unsure, repeated, missed>>

SaveSeen ==
    /\ pc[Owner] = "mark"
    /\ \/ Wrote(Owner, copy[Owner]) /\ End(Owner, copy[Owner]) /\ NoFault
       \/ Fault /\ End(Owner, ledger) /\ UNCHANGED <<off, excused>>
    /\ UNCHANGED <<shop, counts, owed, unsure, repeated, missed>>

------------------------------------------------------------------------------
(* `drain_pending_alerts`.                                                 *)

Handled(a) == {i \in Items : Claimable(copy[a][i])} \ live[a]

Closed(e) == [e EXCEPT !.pending = FALSE, !.claim = "none", !.emailed = e.level]

\* The ledger is loaded and the catalogue asked which items are sold.
Drain(a) ==
    LET due == {i \in Items : Claimable(ledger[i])}
        sold == {i \in due : Sellable(i)} IN
    /\ pc[a] = "idle" /\ due # {}
    /\ IF a = Watchdog THEN runs < MaxRuns /\ runs' = runs + 1 ELSE UNCHANGED runs
    /\ Load(a, IF sold = due THEN "claim" ELSE "handle", ledger)
    /\ live' = [live EXCEPT ![a] = sold]
    /\ UNCHANGED <<shop, ledger, accepted, readings, marks, moves, faults, owed,
                   sent, excused, unsure, repeated, missed>>

\* Items that are not sold any more are closed without an e-mail.
Handle(a) ==
    LET new == [i \in Items |-> IF i \in Handled(a) THEN Closed(copy[a][i])
                                                    ELSE copy[a][i]] IN
    /\ pc[a] = "handle"
    /\ \/ /\ Wrote(a, new)
          /\ owed' = [i \in Items |-> IF i \in Handled(a) THEN "ok" ELSE owed[i]]
          /\ \/ live[a] = {} /\ End(a, new) /\ NoFault
             \/ live[a] # {} /\ NoFault /\ ledger' = new
                /\ copy' = [copy EXCEPT ![a] = new]
                /\ pc' = [pc EXCEPT ![a] = "claim"]
                /\ UNCHANGED <<live, accepted, sent>>
             \/ Fault /\ End(a, new)
       \/ Fault /\ End(a, ledger) /\ UNCHANGED <<owed, off, excused>>
    /\ UNCHANGED <<shop, counts, unsure, repeated, missed>>

Claimed(a) ==
    [i \in Items |-> IF i \in live[a] THEN [copy[a][i] EXCEPT !.claim = a]
                                      ELSE copy[a][i]]

Claim(a) ==
    /\ pc[a] = "claim"
    /\ \/ /\ Wrote(a, Claimed(a))
          /\ \/ /\ NoFault /\ ledger' = Claimed(a)
                /\ copy' = [copy EXCEPT ![a] = Claimed(a)]
                /\ pc' = [pc EXCEPT ![a] = "send"]
                /\ UNCHANGED <<live, accepted, sent>>
             \/ Fault /\ End(a, Claimed(a))
       \/ Fault /\ End(a, ledger) /\ UNCHANGED <<off, excused>>
    /\ UNCHANGED <<shop, counts, owed, unsure, repeated, missed>>

\* The rows of one e-mail: the worst first, no more than MaxRows.
Batches(a) ==
    {rows \in SUBSET live[a] :
        /\ Cardinality(rows) =
              IF Cardinality(live[a]) < MaxRows THEN Cardinality(live[a])
                                                ELSE MaxRows
        /\ \A i \in rows, j \in live[a] \ rows :
              ~ Worse(copy[a][j].level, copy[a][i].level)}

\* The provider takes the mail and says so, takes it and the reply is lost, or
\* does not take it.
Send(a) ==
    /\ pc[a] = "send"
    /\ pc' = [pc EXCEPT ![a] = "reload"]
    /\ \/ \E rows \in Batches(a) :
             /\ sent' = [sent EXCEPT ![a] =
                   [i \in Items |-> IF i \in rows THEN copy[a][i].level ELSE "ok"]]
             /\ owed' = [i \in Items |->
                   IF i \in rows /\ ~ Worse(owed[i], copy[a][i].level)
                   THEN "ok" ELSE owed[i]]
             /\ repeated' = repeated \cup {i \in rows : owed[i] = "ok"}
             /\ \/ NoFault /\ accepted' = [accepted EXCEPT ![a] = TRUE]
                   /\ UNCHANGED unsure
                \/ Fault /\ unsure' = unsure \cup rows /\ UNCHANGED accepted
       \/ Fault /\ UNCHANGED <<accepted, owed, sent, unsure, repeated>>
    /\ UNCHANGED <<shop, ledger, copy, live, counts, off, excused, missed>>

\* The ledger is loaded again; unreadable, the drain goes on with its copy.
Reload(a) ==
    /\ pc[a] = "reload"
    /\ \/ Load(a, "finish", ledger) /\ NoFault
       \/ Fault /\ pc' = [pc EXCEPT ![a] = "finish"] /\ UNCHANGED <<copy, off>>
    /\ UNCHANGED <<shop, ledger, live, accepted, counts, owed, sent, excused,
                   unsure, repeated, missed>>

\* The claimed entries that still bear the drain's claim.
Mine(a) == {i \in live[a] : copy[a][i].claim = a}

\* Mutant: whatever the provider said, the entries are marked.
MutFinished(a) ==
    [i \in Items |-> IF i \in Mine(a) THEN Closed(copy[a][i]) ELSE copy[a][i]]

Finished(a) ==
    [i \in Items |->
        IF i \notin Mine(a) THEN copy[a][i]
        ELSE IF accepted[a] THEN Closed(copy[a][i])
        ELSE [copy[a][i] EXCEPT !.claim = "none"]]

\* Every claimed entry is marked as mailed, at the level it has now, or given
\* back.
Finish(a) ==
    /\ pc[a] = "finish"
    /\ \/ /\ Wrote(a, Finished(a)) /\ End(a, Finished(a)) /\ NoFault
          /\ missed' = missed \cup
                {i \in Mine(a) : accepted[a] /\ Worse(copy[a][i].level, sent[a][i])}
          /\ owed' = [i \in Items |->
                IF i \in Mine(a) /\ accepted[a]
                     /\ ~ Worse(copy[a][i].level, sent[a][i])
                THEN "ok" ELSE owed[i]]
          /\ UNCHANGED unsure
       \/ /\ Fault /\ End(a, ledger)
          /\ unsure' = unsure \cup live[a]
          /\ UNCHANGED <<owed, off, excused, missed>>
    /\ UNCHANGED <<shop, counts, repeated>>

------------------------------------------------------------------------------
\* A process dies, or its run is cut off.
Crash(a) ==
    /\ pc[a] # "idle" /\ Fault
    /\ End(a, ledger)
    /\ unsure' = unsure \cup {i \in Items : sent[a][i] # "ok"}
    /\ UNCHANGED <<shop, counts, owed, off, excused, repeated, missed>>

\* Mutant: a claim does not expire.
MutExpire(i) == ledger[i].claim = "left" /\ UNCHANGED vars

\* CLAIM_TTL_SECONDS after a drain that is over, its claim counts no more.
Expire(i) ==
    LET expired(e) == IF e.claim = "left" THEN [e EXCEPT !.claim = "none"]
                                          ELSE e IN
    /\ ledger[i].claim = "left"
    /\ ledger' = [ledger EXCEPT ![i] = expired(@)]
    /\ copy' = [a \in Actors |-> [copy[a] EXCEPT ![i] = expired(@)]]
    /\ UNCHANGED <<shop, pc, live, accepted, counts, faults, owed, sent, off,
                   excused, unsure, repeated, missed>>

\* The shop sells out of an item, hides it, or sells it again.
Move(i) ==
    /\ moves < MaxMoves
    /\ moves' = moves + 1
    /\ \E n \in Stocks \ {shop[i]} : shop' = [shop EXCEPT ![i] = n]
    /\ UNCHANGED <<ledger, pc, copy, live, accepted, readings, runs, marks,
                   faults, owed, sent, off, excused, unsure, repeated, missed>>

DrainOn(a) == Handle(a) \/ Claim(a) \/ Send(a) \/ Reload(a) \/ Finish(a)

Next ==
    \/ Observe \/ Record \/ MarkSeen \/ SaveSeen
    \/ \E a \in Drains : Drain(a) \/ DrainOn(a)
    \/ \E a \in Actors : Crash(a)
    \/ \E i \in Items : Expire(i) \/ Move(i)

Spec == Init /\ [][Next]_vars

\* The scheduler ticks and time passes.  A drain that began goes on (the
\* watchdog's run has a time limit), but the watchdog need not run again.
FairSpec ==
    /\ Spec
    /\ WF_vars(Drain(Tick))
    /\ \A a \in Drains : WF_vars(DrainOn(a))
    /\ \A i \in Items : WF_vars(Expire(i))
==============================================================================
