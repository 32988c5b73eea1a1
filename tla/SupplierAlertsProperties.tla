---------------------- MODULE SupplierAlertsProperties ----------------------
(* What the owner may expect of the supplier alerts. *)
EXTENDS SupplierAlerts

PCs == {"idle", "record", "mark", "handle", "claim", "send", "reload", "finish"}

\* Every variable stays in its range; an entry of an item that is well is empty
\* of everything.
AlertsTypeOK ==
    /\ shop \in [Items -> Stocks]
    /\ ledger \in [Items -> Entry]
    /\ pc \in [Actors -> PCs]
    /\ copy \in [Actors -> [Items -> Entry]]
    /\ live \in [Actors -> SUBSET Items]
    /\ accepted \in [Actors -> BOOLEAN]
    /\ owed \in [Items -> Levels]
    /\ \A i \in Items : ledger[i].level = "ok" => ledger[i] = NoEntry

\* A recorded drop stays pending, at its level, until the owner is mailed or
\* the item is not sold any more: failed mails, failed saves, crashes and left
\* claims do not lose it.  The exceptions are an entry overwritten from an old
\* copy, and one marked as mailed that the mail did not tell of.
AlertKept ==
    \A i \in Items \ (excused \cup missed) :
        owed[i] # "ok" => ledger[i].pending /\ ledger[i].level = owed[i]

\* The owner is not mailed about a drop twice, unless a write from an old copy
\* hit its entry or an earlier mail was not known to have been sent.
MailedOnceEach == repeated \subseteq excused \cup unsure

\* What is pending does not stay so: the tick mails it, or closes it, also
\* after a drain died with its claim on it.
PendingEnds == \A i \in Items : ledger[i].pending ~> ~ ledger[i].pending

------------------------------------------------------------------------------
(* Why no drop is lost or told twice.                                      *)

\* An entry, and one of an item that is well is empty of everything.
Valid(e) == e \in Entry /\ (e.level = "ok" => e = NoEntry)

Mailing == {"handle", "claim", "send", "reload", "finish"}

Alike(e, d) == e.level = d.level /\ e.pending = d.pending /\ e.claim = d.claim

\* What a has in its hands is what the ledger has, but for what others changed
\* and for the entry that a reading is about, whose claim a reading leaves.
UpToDate(a) ==
    \A i \in Items \ off[a] :
        /\ pc[a] \in Mailing \cup {"mark"} => Alike(copy[a][i], ledger[i])
        /\ pc[a] = "record" /\ ledger[i].pending =>
               copy[a][i].pending /\ copy[a][i].claim = ledger[i].claim

\* What a drain is about to claim is pending and nobody's, as far as it knows.
Picked(a) ==
    \A i \in live[a] :
        /\ pc[a] \in {"handle", "claim", "send"} => copy[a][i].pending
        /\ pc[a] \in {"handle", "claim"} => copy[a][i].claim = "none"

\* From its claim to its end a drain holds what it mails.
Holds(a) ==
    pc[a] \in {"send", "reload", "finish"} =>
        \A i \in live[a] \ excused : ledger[i].pending /\ ledger[i].claim = a

\* A mail of a that was taken, and that the ledger has yet to learn of.
Told(a, i) ==
    /\ pc[a] \in {"reload", "finish"} /\ accepted[a]
    /\ i \in live[a] /\ sent[a][i] # "ok"

\* What is pending is owed, or has just been mailed.
PendingIsOwed ==
    \A i \in Items \ (excused \cup unsure) :
        ledger[i].pending /\ owed[i] = "ok" => \E a \in Drains : Told(a, i)

(***************************************************************************)
(* The inductive invariant of the proofs.                                  *)
(***************************************************************************)
AlertsInductive ==
    /\ AlertsTypeOK
    /\ \A a \in Actors : \A i \in Items : Valid(copy[a][i])
    /\ sent \in [Actors -> [Items -> Levels]] /\ off \in [Actors -> SUBSET Items]
    /\ AlertKept /\ MailedOnceEach /\ PendingIsOwed
    /\ \A a \in Actors : UpToDate(a) /\ Picked(a) /\ Holds(a)

------------------------------------------------------------------------------
\* Refuted: what is marked as mailed was in the mail, at that level.
MailedIsTold == missed = {}

\* Refuted: without faults, the claims keep two drains from mailing one drop
\* twice.
DrainsDoNotRace == repeated = {}

\* Refuted: without faults and drains, the owner's marks leave the pending
\* alerts alone.
SeenLeavesMail ==
    [][pc[Owner] = "mark" =>
         \/ pc'[Owner] = "mark"
         \/ \A i \in Items : ledger'[i].pending = ledger[i].pending]_vars
==============================================================================
