------------------------ MODULE SupplierAlertsProofs ------------------------
(***************************************************************************)
(* A recorded drop is not lost, and not told twice, but in the known ways: *)
(* for any number of items, readings, drains, marks, failures and crashes. *)
(***************************************************************************)
EXTENDS SupplierAlertsProperties, TLAPS

\* What an actor's end does to an entry.
LEMMA LeftBehindIs ==
  ASSUME NEW a \in Actors, NEW f, NEW i \in Items, Valid(f[i])
  PROVE  /\ Valid(LeftBehind(f, a)[i])
         /\ LeftBehind(f, a)[i].level = f[i].level
         /\ LeftBehind(f, a)[i].pending = f[i].pending
         /\ LeftBehind(f, a)[i].claim = IF f[i].claim = a THEN "left" ELSE f[i].claim
  <1> DEFINE e == f[i]
  <1>1. LeftBehind(f, a)[i] = IF e.claim = a THEN [e EXCEPT !.claim = "left"] ELSE e
    BY DEF LeftBehind
  <1>2. CASE e.claim = a
    <2> DEFINE d == [e EXCEPT !.claim = "left"]
    <2>1. e \in Entry /\ e.level # "ok"
      BY <1>2 DEF Valid, NoEntry, Actors, Watchdog, Tick, Owner
    <2>2. d \in Entry /\ d.level = e.level /\ d.pending = e.pending /\ d.claim = "left"
      BY <2>1 DEF Entry, Claims
    <2> QED
      BY <1>1, <1>2, <2>1, <2>2 DEF Valid
  <1>3. CASE e.claim # a
    BY <1>1, <1>3
  <1> QED
    BY <1>2, <1>3

\* A closed entry is valid and has no mail pending.
LEMMA ClosedIs ==
  ASSUME NEW e, Valid(e), e.level # "ok"
  PROVE  Valid(Closed(e)) /\ ~ Closed(e).pending
  <1>1. e \in Entry
    BY DEF Valid
  <1>2. /\ Closed(e) \in Entry /\ Closed(e).level = e.level
        /\ ~ Closed(e).pending
    BY <1>1 DEF Closed, Entry, Claims
  <1> QED
    BY <1>2 DEF Valid

\* An entry takes, or loses, a claim.
WithClaim(e, c) == [e EXCEPT !.claim = c]

\* A claim changes nothing of an entry but its claim.
LEMMA ClaimIs ==
  ASSUME NEW e, Valid(e), e.level # "ok", NEW c \in Claims
  PROVE  /\ Valid(WithClaim(e, c)) /\ WithClaim(e, c).level = e.level
         /\ WithClaim(e, c).pending = e.pending /\ WithClaim(e, c).claim = c
  <1> DEFINE d == WithClaim(e, c)
  <1>1. e \in Entry
    BY DEF Valid
  <1>2. d \in Entry /\ d.level = e.level /\ d.pending = e.pending /\ d.claim = c
    BY <1>1 DEF Entry, WithClaim
  <1> QED
    BY <1>2 DEF Valid

\* Marking an entry as seen keeps what the alert is about.
LEMMA SeenIs ==
  ASSUME NEW e, Valid(e), e.level # "ok"
  PROVE  /\ Valid([e EXCEPT !.seen = e.level])
         /\ Alike([e EXCEPT !.seen = e.level], e)
  <1> DEFINE d == [e EXCEPT !.seen = e.level]
  <1>1. e \in Entry
    BY DEF Valid
  <1>2. d \in Entry /\ d.level = e.level /\ d.pending = e.pending /\ d.claim = e.claim
    BY <1>1 DEF Entry
  <1> QED
    BY <1>2 DEF Valid, Alike

\* A reading of an entry that is pending leaves it pending, and its claim.
LEMMA ObservedIs ==
  ASSUME NEW e, Valid(e), NEW l \in Levels
  PROVE  /\ Valid(Observed(e, l))
         /\ e.pending => Observed(e, l).pending /\ Observed(e, l).claim = e.claim
  <1>1. e \in Entry /\ NoEntry \in Entry
    BY DEF Valid, Entry, NoEntry, Levels, Claims
  <1>2. CASE l = "ok"
    BY <1>1, <1>2 DEF Observed, Valid
  <1>3. CASE l # "ok"
    <2> DEFINE d == Observed(e, l)
               p == e.pending \/ Worse(l, e.emailed)
               s == IF Worse(l, e.seen) THEN "ok" ELSE l
    <2>1. d = [e EXCEPT !.level = l, !.pending = p, !.seen = s]
      BY <1>3 DEF Observed
    <2>2. p \in BOOLEAN /\ s \in Levels
      BY <1>1 DEF Entry, Worse, Levels
    <2> HIDE DEF d, p, s
    <2>3. d \in Entry /\ d.level = l /\ d.pending = p /\ d.claim = e.claim
      BY <1>1, <2>1, <2>2 DEF Entry
    <2>4. e.pending => p
      BY DEF p
    <2> QED
      BY <1>3, <2>3, <2>4 DEF Valid, d
  <1> QED
    BY <1>2, <1>3

\* A reading always puts an item at one of the levels.
LEMMA LevelForIs ==
  ASSUME NEW r, NEW n PROVE LevelFor(r, n) \in Levels
  BY DEF LevelFor, Levels

------------------------------------------------------------------------------
(* A write of the whole ledger.                                            *)

\* What the books know of a's write of `new`.
Booked(a, new) ==
    /\ off' \in [Actors -> SUBSET Items]
    /\ \A b \in Actors \ {a} : \A i \in Items \ off'[b] :
          i \notin off[b] /\ new[i] = ledger[i]
    /\ excused \subseteq excused'
    /\ \A i \in Items \ excused' : new[i] # ledger[i] => i \notin off[a]

\* What `new` must respect, the accounts of owed and missed drops included.
Respects(a, new) ==
    /\ \A i \in Items : Valid(new[i])
    /\ \A b \in Drains \ {a} : \A i \in Items \ excused' :
          ledger[i].pending /\ ledger[i].claim = b
              => new[i].pending /\ new[i].claim = b
    /\ \A i \in Items \ (excused' \cup missed') :
          owed'[i] # "ok" => new[i].pending /\ new[i].level = owed'[i]
    /\ \A i \in Items \ (excused' \cup unsure') :
          new[i].pending /\ owed'[i] = "ok" =>
              \E b \in Drains \ {a} : Told(b, i)

\* A save of the ledger keeps account of the writes that it overtakes.
LEMMA WroteIsBooked ==
  ASSUME AlertsInductive, NEW a \in Actors, NEW new, Wrote(a, new)
  PROVE  Booked(a, new) /\ off'[a] = {}
  <1>1. off \in [Actors -> SUBSET Items]
    BY DEF AlertsInductive
  <1>2. /\ off' = [b \in Actors |-> IF b = a THEN {}
                     ELSE off[b] \cup {i \in Items : new[i] # ledger[i]}]
        /\ excused' = excused \cup ({i \in Items : new[i] # ledger[i]} \cap off[a])
    BY DEF Wrote
  <1> QED
    BY <1>1, <1>2 DEF Booked

\* A step that saves nothing has nothing to account for.
LEMMA NothingIsBooked ==
  ASSUME AlertsInductive, NEW a \in Actors, UNCHANGED <<off, excused>>
  PROVE  Booked(a, ledger)
  BY DEF AlertsInductive, Booked

\* What an actor knows of an entry that it changes, and nobody has since it
\* loaded the ledger.
LEMMA Known ==
  ASSUME AlertsInductive, NEW a \in Actors, NEW new, Booked(a, new),
         NEW i \in Items \ excused', new[i] # ledger[i]
  PROVE  /\ pc[a] \in Mailing \cup {"mark"} => Alike(copy[a][i], ledger[i])
         /\ pc[a] = "record" /\ ledger[i].pending =>
               copy[a][i].pending /\ copy[a][i].claim = ledger[i].claim
  BY DEF AlertsInductive, Booked, UpToDate

\* The entries of g are those of f, but for the claims of a, which are now c.
Relabels(f, g, a, c) ==
    \A i \in Items : /\ g[i].level = f[i].level /\ g[i].pending = f[i].pending
                     /\ g[i].claim = IF f[i].claim = a THEN c ELSE f[i].claim

\* The claims of the others, and what they were just told, outlive the write.
LEMMA OthersKept ==
  ASSUME AlertsInductive, NEW a \in Actors, NEW b \in Actors \ {a}, NEW new, NEW c,
         Booked(a, new), Respects(a, new),
         Relabels(copy[b], copy'[b], a, c), Relabels(new, ledger', a, c),
         pc'[b] = pc[b], live'[b] = live[b]
  PROVE  UpToDate(b)' /\ Picked(b)' /\ Holds(b)'
  <1>1. UpToDate(b) /\ Picked(b) /\ Holds(b)
    BY DEF AlertsInductive
  <1>2. UpToDate(b)'
    <2> SUFFICES ASSUME NEW i \in Items \ off'[b]
                 PROVE  /\ pc'[b] \in Mailing \cup {"mark"} => Alike(copy[b][i], ledger[i])'
                        /\ pc'[b] = "record" /\ ledger'[i].pending =>
                              /\ copy'[b][i].pending
                              /\ copy'[b][i].claim = ledger'[i].claim
      BY DEF UpToDate
    <2>1. i \notin off[b] /\ new[i] = ledger[i]
      BY DEF Booked
    <2> QED
      BY <1>1, <2>1 DEF UpToDate, Alike, Relabels
  <1>3. Picked(b)'
    <2>1. "none" # a /\ live[b] \subseteq Items
      BY DEF Actors, Watchdog, Tick, Owner, AlertsInductive, AlertsTypeOK
    <2> QED
      BY <1>1, <2>1 DEF Picked, Relabels
  <1>4. Holds(b)'
    <2> SUFFICES ASSUME pc[b] \in {"send", "reload", "finish"},
                        NEW i \in live[b] \ excused'
                 PROVE  ledger'[i].pending /\ ledger'[i].claim = b
      BY DEF Holds
    <2>1. i \in Items
      BY DEF AlertsInductive, AlertsTypeOK
    <2>2. ledger[i].pending /\ ledger[i].claim = b
      BY <1>1 DEF Holds, Booked
    <2>3. b \in Drains
      <3>1. ledger[i].claim \in Claims
        BY <2>1 DEF AlertsInductive, AlertsTypeOK, Entry
      <3> QED
        BY <2>2, <3>1 DEF Claims, Actors, Drains, Watchdog, Tick, Owner
    <2>4. new[i].pending /\ new[i].claim = b
      BY <2>1, <2>2, <2>3 DEF Respects
    <2> QED
      BY <2>1, <2>4 DEF Relabels
  <1> QED
    BY <1>2, <1>3, <1>4

\* An actor is done, having written or failed to write.
LEMMA EndKeeps ==
  ASSUME AlertsInductive, NEW a \in Actors, NEW new, End(a, new),
         Booked(a, new), Respects(a, new),
         shop' \in [Items -> Stocks], owed' \in [Items -> Levels],
         unsure \subseteq unsure', UNCHANGED repeated
  PROVE  AlertsInductive'
  <1>1. /\ AlertsTypeOK /\ MailedOnceEach
        /\ \A b \in Actors : \A i \in Items : Valid(copy[b][i])
        /\ sent \in [Actors -> [Items -> Levels]]
    BY DEF AlertsInductive
  <1>2. /\ \A i \in Items : Valid(new[i])
    BY DEF Respects
  <1>3. /\ ledger' = LeftBehind(new, a)
        /\ \A b \in Actors \ {a} : copy'[b] = LeftBehind(copy[b], a)
        /\ copy'[a] = [i \in Items |-> NoEntry]
        /\ pc'[a] = "idle" /\ \A b \in Actors \ {a} : pc'[b] = pc[b]
        /\ live'[a] = {} /\ \A b \in Actors \ {a} : live'[b] = live[b]
        /\ \A b \in Actors \ {a} : accepted'[b] = accepted[b] /\ sent'[b] = sent[b]
    BY <1>1 DEF End, AlertsTypeOK
  <1>4. \A b \in Actors : \A i \in Items : Valid(copy[b][i])'
    <2>1. Valid(NoEntry)
      BY DEF Valid, NoEntry, Entry, Levels, Claims
    <2> QED
      BY <1>1, <1>3, <2>1, LeftBehindIs
  <1>5. \A i \in Items : /\ Valid(ledger[i])'
                         /\ ledger'[i].level = new[i].level
                         /\ ledger'[i].pending = new[i].pending
                         /\ ledger'[i].claim = IF new[i].claim = a THEN "left"
                                               ELSE new[i].claim
    BY <1>2, <1>3, LeftBehindIs
  <1>6. AlertsTypeOK'
    <2>1. ledger' \in [Items -> Entry]
      <3>1. ledger' = [i \in Items |-> ledger'[i]]
        BY <1>3 DEF LeftBehind
      <3> QED
        BY <1>5, <3>1 DEF Valid
    <2>2. copy' \in [Actors -> [Items -> Entry]]
      <3>1. copy' = [b \in Actors |-> copy'[b]]
        BY DEF End
      <3>2. \A b \in Actors : copy'[b] = [i \in Items |-> copy'[b][i]]
        BY <1>3 DEF LeftBehind
      <3> QED
        BY <1>4, <3>1, <3>2 DEF Valid
    <2>3. /\ pc' \in [Actors -> PCs] /\ live' \in [Actors -> SUBSET Items]
          /\ accepted' \in [Actors -> BOOLEAN]
      BY <1>1 DEF End, AlertsTypeOK, PCs
    <2> QED
      BY <1>5, <2>1, <2>2, <2>3 DEF AlertsTypeOK, Valid
  <1>7. sent' \in [Actors -> [Items -> Levels]] /\ off' \in [Actors -> SUBSET Items]
    BY <1>1 DEF End, Booked, Levels
  <1>8. AlertKept' /\ MailedOnceEach'
    BY <1>1, <1>5 DEF AlertKept, MailedOnceEach, Respects, Booked
  <1>9. PendingIsOwed'
    <2>1. \A b \in Drains \ {a} : \A i \in Items : Told(b, i) => Told(b, i)'
      BY <1>3 DEF Told, Drains, Actors
    <2> QED
      BY <1>5, <2>1 DEF PendingIsOwed, Respects
  <1>10. UpToDate(a)' /\ Picked(a)' /\ Holds(a)'
    BY <1>3 DEF UpToDate, Picked, Holds, Mailing
  <1>11. \A b \in Actors \ {a} : UpToDate(b)' /\ Picked(b)' /\ Holds(b)'
    <2> TAKE b \in Actors \ {a}
    <2>1. Relabels(copy[b], copy'[b], a, "left")
      BY <1>1, <1>3, LeftBehindIs DEF Relabels
    <2>2. Relabels(new, ledger', a, "left")
      BY <1>5 DEF Relabels
    <2> QED
      BY <1>3, <2>1, <2>2, OthersKept
  <1> QED
    BY <1>4, <1>6, <1>7, <1>8, <1>9, <1>10, <1>11 DEF AlertsInductive

\* A drain has written and goes on.
LEMMA GoOnKeeps ==
  ASSUME AlertsInductive, NEW a \in Actors, NEW new, NEW at \in {"claim", "send"},
         pc[a] \in {"handle", "claim"},
         ledger' = new, new \in [Items -> Entry],
         copy' = [copy EXCEPT ![a] = new], pc' = [pc EXCEPT ![a] = at],
         UNCHANGED <<shop, live, accepted, sent, missed, unsure, repeated>>,
         Booked(a, new), Respects(a, new), owed' \in [Items -> Levels],
         Picked(a)', Holds(a)'
  PROVE  AlertsInductive'
  <1>1. /\ AlertsTypeOK /\ MailedOnceEach
        /\ \A b \in Actors : \A i \in Items : Valid(copy[b][i])
        /\ sent \in [Actors -> [Items -> Levels]]
    BY DEF AlertsInductive
  <1>2. /\ copy'[a] = new /\ \A b \in Actors \ {a} : copy'[b] = copy[b]
        /\ pc'[a] = at /\ \A b \in Actors \ {a} : pc'[b] = pc[b]
    BY <1>1 DEF AlertsTypeOK
  <1>3. \A b \in Actors : \A i \in Items : Valid(copy[b][i])'
    BY <1>1, <1>2 DEF Respects
  <1>4. AlertsTypeOK'
    BY <1>1 DEF AlertsTypeOK, PCs, Respects, Valid
  <1>5. AlertKept' /\ MailedOnceEach'
    BY <1>1 DEF AlertKept, MailedOnceEach, Respects, Booked
  <1>6. PendingIsOwed'
    <2>1. \A b \in Drains \ {a} : \A i \in Items : Told(b, i) => Told(b, i)'
      BY <1>2 DEF Told, Drains, Actors
    <2> QED
      BY <2>1 DEF PendingIsOwed, Respects
  <1>7. UpToDate(a)'
    BY <1>2 DEF UpToDate, Alike
  <1>8. \A b \in Actors \ {a} : UpToDate(b)' /\ Picked(b)' /\ Holds(b)'
    <2> TAKE b \in Actors \ {a}
    <2>1. Relabels(copy[b], copy'[b], a, a)
      BY <1>2 DEF Relabels
    <2>2. Relabels(new, ledger', a, a)
      BY DEF Relabels
    <2> QED
      BY <1>2, <2>1, <2>2, OthersKept
  <1> QED
    BY <1>1, <1>3, <1>4, <1>5, <1>6, <1>7, <1>8 DEF AlertsInductive, Booked

------------------------------------------------------------------------------
(* The writes.                                                             *)

\* What has to be looked at: the entries that change, and nobody changed since
\* the actor loaded them.
LEMMA RespectsIf ==
  ASSUME AlertsInductive, NEW a \in Actors, NEW new, Booked(a, new),
         \A i \in Items : Valid(new[i]),
         unsure \subseteq unsure', missed \subseteq missed',
         \A i \in Items \ excused' : new[i] = ledger[i] =>
            /\ owed'[i] = owed[i] \/ (owed'[i] = "ok" /\ ~ new[i].pending)
            /\ ~ (Told(a, i) /\ new[i].pending /\ i \notin unsure'),
         \A i \in Items \ excused' : new[i] # ledger[i] =>
            /\ \A b \in Drains \ {a} :
                  ledger[i].pending /\ ledger[i].claim = b
                     => new[i].pending /\ new[i].claim = b
            /\ owed'[i] # "ok" /\ i \notin missed'
                     => new[i].pending /\ new[i].level = owed'[i]
            /\ new[i].pending /\ owed'[i] = "ok" /\ i \notin unsure'
                     => \E b \in Drains \ {a} : Told(b, i)
  PROVE  Respects(a, new)
  <1>1. AlertKept /\ PendingIsOwed /\ excused \subseteq excused'
    BY DEF AlertsInductive, Booked
  <1>2. \A b \in Drains \ {a} : \A i \in Items \ excused' :
           ledger[i].pending /\ ledger[i].claim = b
               => new[i].pending /\ new[i].claim = b
    OBVIOUS
  <1>3. \A i \in Items \ (excused' \cup missed') :
           owed'[i] # "ok" => new[i].pending /\ new[i].level = owed'[i]
    BY <1>1 DEF AlertKept
  <1>4. \A i \in Items \ (excused' \cup unsure') :
           new[i].pending /\ owed'[i] = "ok" => \E b \in Drains \ {a} : Told(b, i)
    <2> TAKE i \in Items \ (excused' \cup unsure')
    <2> HAVE new[i].pending /\ owed'[i] = "ok"
    <2>1. CASE new[i] # ledger[i]
      BY <2>1
    <2>2. CASE new[i] = ledger[i]
      <3>1. PICK b \in Drains : Told(b, i)
        BY <1>1, <2>2 DEF PendingIsOwed
      <3>2. b # a
        BY <2>2, <3>1
      <3> QED
        BY <3>1, <3>2
    <2> QED
      BY <2>1, <2>2
  <1> QED
    BY <1>2, <1>3, <1>4 DEF Respects

\* An actor is done and has written nothing.
LEMMA FailKeeps ==
  ASSUME AlertsInductive, NEW a \in Actors, End(a, ledger),
         UNCHANGED <<shop, owed, off, excused, missed, repeated>>,
         unsure \subseteq unsure',
         \A i \in Items : Told(a, i) => i \in unsure'
  PROVE  AlertsInductive'
  <1>1. Booked(a, ledger) /\ AlertsTypeOK
    BY NothingIsBooked DEF AlertsInductive
  <1>2. Respects(a, ledger)
    BY <1>1, RespectsIf DEF AlertsTypeOK, Valid
  <1> QED
    BY <1>1, <1>2, EndKeeps DEF AlertsTypeOK

\* Who has not sent has told nothing.
LEMMA Untold ==
  ASSUME NEW a, pc[a] \notin {"reload", "finish"}
  PROVE  \A i \in Items : ~ Told(a, i)
  BY DEF Told

\* A pending entry is about an item that is not well.
LEMMA PendingIsValid ==
  ASSUME NEW e, Valid(e), e.pending
  PROVE  e.level # "ok"
  BY DEF Valid, NoEntry

\* Saving the ledger with a reading keeps the invariant.
LEMMA RecordKeeps ==
  ASSUME AlertsInductive, Record
  PROVE  AlertsInductive'
  <1> DEFINE a == Watchdog
             new == copy[a]
  <1>1. /\ AlertsTypeOK /\ a \in Actors /\ pc[a] = "record"
        /\ \A i \in Items : Valid(new[i]) /\ ~ Told(a, i)
    BY Untold DEF AlertsInductive, Record, Actors
  <1>2. UNCHANGED <<shop, unsure, repeated, missed>>
    BY DEF Record
  <1>3. CASE End(a, ledger) /\ UNCHANGED <<owed, off, excused>>
    BY <1>1, <1>2, <1>3, FailKeeps
  <1>4. CASE /\ Wrote(a, new) /\ End(a, new)
             /\ owed' = [i \in Items |-> IF new[i] # ledger[i] THEN OwedBy(new)[i]
                                         ELSE owed[i]]
    <2>1. Booked(a, new)
      BY <1>1, <1>4, WroteIsBooked
    <2>2. \A i \in Items : OwedBy(new)[i] = IF new[i].pending THEN new[i].level ELSE "ok"
      BY DEF OwedBy
    <2> HIDE DEF new, a
    <2>3. ASSUME NEW i \in Items \ excused', new[i] # ledger[i]
          PROVE  /\ \A b \in Drains \ {a} :
                       ledger[i].pending /\ ledger[i].claim = b
                          => new[i].pending /\ new[i].claim = b
                 /\ owed'[i] # "ok" => new[i].pending /\ new[i].level = owed'[i]
                 /\ ~ (new[i].pending /\ owed'[i] = "ok")
      <3>1. ledger[i].pending => new[i].pending /\ new[i].claim = ledger[i].claim
        BY <1>1, <2>1, <2>3, Known DEF new
      <3>2. owed'[i] = IF new[i].pending THEN new[i].level ELSE "ok"
        BY <1>4, <2>2, <2>3
      <3>3. new[i].pending => new[i].level # "ok"
        BY <1>1, PendingIsValid
      <3> QED
        BY <3>1, <3>2, <3>3
    <2>4. Respects(a, new)
      BY <1>1, <1>2, <1>4, <2>1, <2>3, RespectsIf
    <2>5. owed' \in [Items -> Levels]
      BY <1>1, <1>4, <2>2 DEF AlertsTypeOK, Valid, Entry, Levels
    <2> QED
      BY <1>1, <1>2, <1>4, <2>1, <2>4, <2>5, EndKeeps DEF AlertsTypeOK
  <1> QED
    BY <1>3, <1>4 DEF Record

\* A write that leaves alike what it was given alike.
LEMMA AlikeRespects ==
  ASSUME AlertsInductive, NEW a \in Actors, NEW i \in Items \ excused', NEW e,
         Alike(e, ledger[i]), excused \subseteq excused', ~ Told(a, i),
         missed \subseteq missed', unsure \subseteq unsure', owed'[i] = owed[i]
  PROVE  /\ \A b \in Drains \ {a} :
               ledger[i].pending /\ ledger[i].claim = b => e.pending /\ e.claim = b
         /\ owed'[i] # "ok" /\ i \notin missed' => e.pending /\ e.level = owed'[i]
         /\ e.pending /\ owed'[i] = "ok" /\ i \notin unsure'
               => \E b \in Drains \ {a} : Told(b, i)
  <1>1. AlertKept /\ PendingIsOwed
    BY DEF AlertsInductive
  <1>2. owed'[i] # "ok" /\ i \notin missed' => e.pending /\ e.level = owed'[i]
    BY <1>1 DEF AlertKept, Alike
  <1>3. e.pending /\ owed'[i] = "ok" /\ i \notin unsure' => \E b \in Drains : Told(b, i)
    BY <1>1 DEF PendingIsOwed, Alike
  <1> QED
    BY <1>2, <1>3 DEF Alike

\* Saving the seen mark keeps the invariant.
LEMMA SaveSeenKeeps ==
  ASSUME AlertsInductive, SaveSeen
  PROVE  AlertsInductive'
  <1> DEFINE a == Owner
             new == copy[a]
  <1>1. /\ AlertsTypeOK /\ a \in Actors /\ pc[a] = "mark"
        /\ \A i \in Items : Valid(new[i]) /\ ~ Told(a, i)
    BY Untold DEF AlertsInductive, SaveSeen, Actors
  <1>2. UNCHANGED <<shop, owed, unsure, repeated, missed>>
    BY DEF SaveSeen
  <1>3. CASE End(a, ledger) /\ UNCHANGED <<off, excused>>
    BY <1>1, <1>2, <1>3, FailKeeps
  <1>4. CASE Wrote(a, new) /\ End(a, new)
    <2>1. Booked(a, new) /\ excused \subseteq excused'
      BY <1>1, <1>4, WroteIsBooked DEF Booked
    <2> HIDE DEF new, a
    <2>2. \A i \in Items \ excused' : new[i] # ledger[i] => Alike(new[i], ledger[i])
      BY <1>1, <2>1, Known DEF new
    <2>3. Respects(a, new)
      BY <1>1, <1>2, <2>1, <2>2, AlikeRespects, RespectsIf
    <2> QED
      BY <1>1, <1>2, <1>4, <2>1, <2>3, EndKeeps DEF AlertsTypeOK
  <1> QED
    BY <1>3, <1>4 DEF SaveSeen

\* Closing the entries of items no longer sold keeps the invariant.
LEMMA HandleKeeps ==
  ASSUME AlertsInductive, NEW a \in Drains, Handle(a)
  PROVE  AlertsInductive'
  <1> DEFINE new == [i \in Items |-> IF i \in Handled(a) THEN Closed(copy[a][i])
                                     ELSE copy[a][i]]
  <1>1. /\ AlertsTypeOK /\ Picked(a) /\ a \in Actors /\ pc[a] = "handle"
        /\ \A i \in Items : Valid(copy[a][i]) /\ ~ Told(a, i)
    BY Untold DEF AlertsInductive, Handle, Actors, Drains
  <1>2. UNCHANGED <<shop, unsure, repeated, missed>>
    BY DEF Handle
  <1>3. \A i \in Items :
           /\ i \in Handled(a) => /\ new[i] = Closed(copy[a][i])
                                  /\ copy[a][i].pending /\ copy[a][i].claim = "none"
                                  /\ i \notin live[a]
           /\ i \notin Handled(a) => new[i] = copy[a][i]
    BY DEF Handled, Claimable
  <1> HIDE DEF new
  <1>4. \A i \in Items : Valid(new[i]) /\ (i \in Handled(a) => ~ new[i].pending)
    BY <1>1, <1>3, ClosedIs, PendingIsValid
  <1>5. CASE End(a, ledger) /\ UNCHANGED <<owed, off, excused>>
    BY <1>1, <1>2, <1>5, FailKeeps
  <1>6. CASE /\ Wrote(a, new)
             /\ owed' = [i \in Items |-> IF i \in Handled(a) THEN "ok" ELSE owed[i]]
             /\ \/ End(a, new)
                \/ /\ ledger' = new /\ copy' = [copy EXCEPT ![a] = new]
                   /\ pc' = [pc EXCEPT ![a] = "claim"]
                   /\ UNCHANGED <<live, accepted, sent>>
    <2>1. Booked(a, new) /\ excused \subseteq excused'
      BY <1>1, <1>6, WroteIsBooked DEF Booked
    <2>2. owed' \in [Items -> Levels]
      BY <1>1, <1>6 DEF AlertsTypeOK, Levels
    <2>3. ASSUME NEW i \in Items \ excused', new[i] # ledger[i]
          PROVE  /\ \A b \in Drains \ {a} :
                       ledger[i].pending /\ ledger[i].claim = b
                          => new[i].pending /\ new[i].claim = b
                 /\ owed'[i] # "ok" /\ i \notin missed'
                       => new[i].pending /\ new[i].level = owed'[i]
                 /\ new[i].pending /\ owed'[i] = "ok" /\ i \notin unsure'
                       => \E b \in Drains \ {a} : Told(b, i)
      <3>1. Alike(copy[a][i], ledger[i])
        BY <1>1, <2>1, <2>3, Known DEF Mailing
      <3>2. CASE i \in Handled(a)
        <4>1. owed'[i] = "ok" /\ ~ new[i].pending
          BY <1>4, <1>6, <3>2
        <4>2. \A b \in Drains : ledger[i].claim # b
          BY <1>3, <3>1, <3>2 DEF Alike, Drains, Watchdog, Tick
        <4> QED
          BY <4>1, <4>2
      <3>3. CASE i \notin Handled(a)
        <4>1. owed'[i] = owed[i] /\ new[i] = copy[a][i]
          BY <1>3, <1>6, <3>3
        <4> QED
          BY <1>1, <1>2, <2>1, <3>1, <4>1, AlikeRespects
      <3> QED
        BY <3>2, <3>3
    <2>4. \A i \in Items : owed'[i] = owed[i] \/ (owed'[i] = "ok" /\ ~ new[i].pending)
      BY <1>4, <1>6
    <2>5. Respects(a, new)
      BY <1>1, <1>2, <1>4, <2>1, <2>3, <2>4, RespectsIf
    <2>6. CASE End(a, new)
      BY <1>1, <1>2, <2>1, <2>2, <2>5, <2>6, EndKeeps DEF AlertsTypeOK
    <2>7. CASE /\ ledger' = new /\ copy' = [copy EXCEPT ![a] = new]
               /\ pc' = [pc EXCEPT ![a] = "claim"]
               /\ UNCHANGED <<live, accepted, sent>>
      <3>1. new \in [Items -> Entry]
        <4>1. new = [i \in Items |-> new[i]]
          BY DEF new
        <4> QED
          BY <1>4, <4>1 DEF Valid
      <3>2. copy'[a] = new /\ pc'[a] = "claim" /\ live'[a] = live[a] /\ live[a] \subseteq Items
        BY <1>1, <2>7 DEF AlertsTypeOK
      <3>3. Picked(a)' /\ Holds(a)'
        BY <1>1, <1>3, <3>2 DEF Picked, Holds
      <3> QED
        BY <1>1, <1>2, <2>1, <2>2, <2>5, <2>7, <3>1, <3>3, GoOnKeeps
    <2> QED
      BY <1>6, <2>6, <2>7
  <1> QED
    BY <1>5, <1>6 DEF Handle, new

\* Claiming an entry keeps the invariant.
LEMMA ClaimKeeps ==
  ASSUME AlertsInductive, NEW a \in Drains, Claim(a)
  PROVE  AlertsInductive'
  <1> DEFINE new == Claimed(a)
  <1>1. /\ AlertsTypeOK /\ Picked(a) /\ a \in Actors /\ pc[a] = "claim"
        /\ \A i \in Items : Valid(copy[a][i]) /\ ~ Told(a, i)
    BY Untold DEF AlertsInductive, Claim, Actors, Drains
  <1>2. UNCHANGED <<shop, owed, unsure, repeated, missed>>
    BY DEF Claim
  <1>3. \A i \in Items :
           /\ i \in live[a] => /\ new[i] = WithClaim(copy[a][i], a)
                               /\ copy[a][i].pending /\ copy[a][i].claim = "none"
           /\ i \notin live[a] => new[i] = copy[a][i]
    BY <1>1 DEF Claimed, Picked, WithClaim
  <1> HIDE DEF new
  <1>4. \A i \in Items :
           /\ Valid(new[i]) /\ new[i].level = copy[a][i].level
           /\ new[i].pending = copy[a][i].pending
           /\ i \in live[a] => new[i].claim = a
    <2> TAKE i \in Items
    <2>1. CASE i \in live[a]
      <3>1. a \in Claims /\ copy[a][i].level # "ok"
        BY <1>1, <1>3, <2>1, PendingIsValid DEF Claims
      <3> QED
        BY <1>1, <1>3, <2>1, <3>1, ClaimIs
    <2>2. CASE i \notin live[a]
      BY <1>1, <1>3, <2>2
    <2> QED
      BY <2>1, <2>2
  <1>5. CASE End(a, ledger) /\ UNCHANGED <<off, excused>>
    BY <1>1, <1>2, <1>5, FailKeeps
  <1>6. CASE /\ Wrote(a, new)
             /\ \/ End(a, new)
                \/ /\ ledger' = new /\ copy' = [copy EXCEPT ![a] = new]
                   /\ pc' = [pc EXCEPT ![a] = "send"]
                   /\ UNCHANGED <<live, accepted, sent>>
    <2>1. Booked(a, new) /\ excused \subseteq excused'
      BY <1>1, <1>6, WroteIsBooked DEF Booked
    <2>2. ASSUME NEW i \in Items \ excused', new[i] # ledger[i]
          PROVE  /\ \A b \in Drains \ {a} :
                       ledger[i].pending /\ ledger[i].claim = b
                          => new[i].pending /\ new[i].claim = b
                 /\ owed'[i] # "ok" /\ i \notin missed'
                       => new[i].pending /\ new[i].level = owed'[i]
                 /\ new[i].pending /\ owed'[i] = "ok" /\ i \notin unsure'
                       => \E b \in Drains \ {a} : Told(b, i)
      <3>1. Alike(copy[a][i], ledger[i])
        BY <1>1, <2>1, <2>2, Known DEF Mailing
      <3>2. /\ \A b \in Drains \ {a} :
                  ledger[i].pending /\ ledger[i].claim = b
                     => copy[a][i].pending /\ copy[a][i].claim = b
            /\ owed'[i] # "ok" /\ i \notin missed'
                  => copy[a][i].pending /\ copy[a][i].level = owed'[i]
            /\ copy[a][i].pending /\ owed'[i] = "ok" /\ i \notin unsure'
                  => \E b \in Drains \ {a} : Told(b, i)
        BY <1>1, <1>2, <2>1, <3>1, AlikeRespects
      <3>3. \A b \in Drains : b # "none"
        BY DEF Drains, Watchdog, Tick
      <3> QED
        BY <1>3, <1>4, <3>2, <3>3
    <2>3. Respects(a, new)
      BY <1>1, <1>2, <1>4, <2>1, <2>2, RespectsIf
    <2>4. CASE End(a, new)
      BY <1>1, <1>2, <2>1, <2>3, <2>4, EndKeeps DEF AlertsTypeOK
    <2>5. CASE /\ ledger' = new /\ copy' = [copy EXCEPT ![a] = new]
               /\ pc' = [pc EXCEPT ![a] = "send"]
               /\ UNCHANGED <<live, accepted, sent>>
      <3>1. new \in [Items -> Entry]
        <4>1. new = [i \in Items |-> new[i]]
          BY DEF new, Claimed
        <4> QED
          BY <1>4, <4>1 DEF Valid
      <3>2. copy'[a] = new /\ pc'[a] = "send" /\ live'[a] = live[a] /\ live[a] \subseteq Items
        BY <1>1, <2>5 DEF AlertsTypeOK
      <3>3. Picked(a)' /\ Holds(a)'
        BY <1>1, <1>3, <1>4, <2>5, <3>2 DEF Picked, Holds
      <3> QED
        BY <1>1, <1>2, <2>1, <2>3, <2>5, <3>1, <3>3, GoOnKeeps DEF AlertsTypeOK
    <2> QED
      BY <1>6, <2>4, <2>5
  <1> QED
    BY <1>5, <1>6 DEF Claim, new

\* Closing an entry after its mail keeps the invariant.
LEMMA FinishKeeps ==
  ASSUME AlertsInductive, NEW a \in Drains, Finish(a)
  PROVE  AlertsInductive'
  <1> DEFINE new == Finished(a)
  <1>1. /\ AlertsTypeOK /\ Holds(a) /\ a \in Actors /\ pc[a] = "finish"
        /\ live[a] \subseteq Items /\ sent \in [Actors -> [Items -> Levels]]
        /\ \A i \in Items : Valid(copy[a][i])
    BY DEF AlertsInductive, AlertsTypeOK, Finish, Actors, Drains
  <1>2. UNCHANGED <<shop, repeated>>
    BY DEF Finish
  <1>3. CASE /\ End(a, ledger) /\ unsure' = unsure \cup live[a]
             /\ UNCHANGED <<owed, off, excused, missed>>
    <2>1. \A i \in Items : Told(a, i) => i \in unsure'
      BY <1>3 DEF Told
    <2> QED
      BY <1>1, <1>2, <1>3, <2>1, FailKeeps
  <1>4. CASE /\ Wrote(a, new) /\ End(a, new) /\ UNCHANGED unsure
             /\ missed' = missed \cup
                  {i \in Mine(a) : accepted[a] /\ Worse(copy[a][i].level, sent[a][i])}
             /\ owed' = [i \in Items |->
                  IF i \in Mine(a) /\ accepted[a]
                       /\ ~ Worse(copy[a][i].level, sent[a][i])
                  THEN "ok" ELSE owed[i]]
    <2>1. Booked(a, new) /\ excused \subseteq excused'
      BY <1>1, <1>4, WroteIsBooked DEF Booked
    <2>2. \A i \in Items : i \in Mine(a) <=> i \in live[a] /\ copy[a][i].claim = a
      BY DEF Mine
    <2>3. \A i \in Items :
             new[i] = IF i \notin Mine(a) THEN copy[a][i]
                      ELSE IF accepted[a] THEN Closed(copy[a][i])
                      ELSE WithClaim(copy[a][i], "none")
      BY DEF Finished, WithClaim
    <2> HIDE DEF new
    <2>4. \A i \in Items : Valid(new[i]) /\
             IF i \notin Mine(a) THEN new[i] = copy[a][i]
             ELSE IF accepted[a] THEN ~ new[i].pending
             ELSE /\ new[i].level = copy[a][i].level
                  /\ new[i].pending = copy[a][i].pending
      <3> TAKE i \in Items
      <3>1. CASE i \notin Mine(a)
        BY <1>1, <2>3, <3>1
      <3>2. CASE i \in Mine(a)
        <4>1. copy[a][i].level # "ok" /\ "none" \in Claims
          BY <1>1, <2>2, <3>2 DEF Valid, NoEntry, Claims, Drains, Watchdog, Tick
        <4>2. CASE accepted[a]
          BY <1>1, <2>3, <3>2, <4>1, <4>2, ClosedIs
        <4>3. CASE ~ accepted[a]
          BY <1>1, <2>3, <3>2, <4>1, <4>3, ClaimIs
        <4> QED
          BY <4>2, <4>3
      <3> QED
        BY <3>1, <3>2
    <2>5. \A i \in Items : \/ owed'[i] = owed[i]
                           \/ owed'[i] = "ok" /\ ~ new[i].pending
      BY <1>4, <2>4
    <2>6. ASSUME NEW i \in Items \ excused', Told(a, i), copy[a][i].claim = ledger[i].claim
          PROVE  ~ new[i].pending
      <3>1. ledger[i].claim = a /\ accepted[a] /\ i \in live[a]
        BY <1>1, <2>1, <2>6 DEF Holds, Told
      <3> QED
        BY <2>2, <2>4, <2>6, <3>1
    <2>7. ASSUME NEW i \in Items \ excused', new[i] = ledger[i], Told(a, i)
          PROVE  ~ new[i].pending
      <3>1. CASE i \in Mine(a)
        BY <2>4, <2>7, <3>1 DEF Told
      <3>2. CASE i \notin Mine(a)
        BY <2>4, <2>6, <2>7, <3>2
      <3> QED
        BY <3>1, <3>2
    <2>8. ASSUME NEW i \in Items \ excused', new[i] # ledger[i]
          PROVE  /\ \A b \in Drains \ {a} :
                       ledger[i].pending /\ ledger[i].claim = b
                          => new[i].pending /\ new[i].claim = b
                 /\ owed'[i] # "ok" /\ i \notin missed'
                       => new[i].pending /\ new[i].level = owed'[i]
                 /\ new[i].pending /\ owed'[i] = "ok" /\ i \notin unsure'
                       => \E b \in Drains \ {a} : Told(b, i)
      <3>1. Alike(copy[a][i], ledger[i])
        BY <1>1, <2>1, <2>8, Known DEF Mailing
      <3>2. CASE i \in Mine(a) /\ accepted[a]
        <4>1. ~ new[i].pending /\ ledger[i].claim = a
          BY <2>2, <2>4, <3>1, <3>2 DEF Alike
        <4>2. owed'[i] # "ok" => i \in missed'
          BY <1>4, <3>2
        <4> QED
          BY <4>1, <4>2
      <3>3. CASE ~ (i \in Mine(a) /\ accepted[a])
        <4>1. ~ Told(a, i)
          <5> SUFFICES ASSUME Told(a, i)
                       PROVE  FALSE
            OBVIOUS
          <5>1. ledger[i].claim = a /\ accepted[a] /\ i \in live[a]
            BY <1>1, <2>1 DEF Holds, Told
          <5> QED
            BY <2>2, <3>1, <3>3, <5>1 DEF Alike
        <4>2. owed'[i] = owed[i] /\ missed \subseteq missed'
          BY <1>4, <3>3
        <4>3. /\ \A b \in Drains \ {a} :
                    ledger[i].pending /\ ledger[i].claim = b
                       => copy[a][i].pending /\ copy[a][i].claim = b
              /\ owed'[i] # "ok" /\ i \notin missed'
                    => copy[a][i].pending /\ copy[a][i].level = owed'[i]
              /\ copy[a][i].pending /\ owed'[i] = "ok" /\ i \notin unsure'
                    => \E b \in Drains \ {a} : Told(b, i)
          BY <1>1, <1>4, <2>1, <3>1, <4>1, <4>2, AlikeRespects
        <4>4. CASE i \notin Mine(a)
          BY <2>4, <4>3, <4>4
        <4>5. CASE i \in Mine(a) /\ ~ accepted[a]
          <5>1. copy[a][i].claim = a /\ new[i].level = copy[a][i].level
                /\ new[i].pending = copy[a][i].pending
            BY <2>2, <2>4, <4>5
          <5> QED
            BY <4>3, <5>1
        <4> QED
          BY <3>3, <4>4, <4>5
      <3> QED
        BY <3>2, <3>3
    <2>9. missed \subseteq missed' /\ unsure \subseteq unsure'
      BY <1>4
    <2>10. Respects(a, new)
      BY <1>1, <2>1, <2>4, <2>5, <2>7, <2>8, <2>9, RespectsIf
    <2>11. owed' \in [Items -> Levels]
      BY <1>1, <1>4 DEF AlertsTypeOK, Levels
    <2> QED
      BY <1>1, <1>2, <1>4, <2>1, <2>10, <2>11, EndKeeps DEF AlertsTypeOK
  <1> QED
    BY <1>3, <1>4 DEF Finish

\* A crash of an actor keeps the invariant.
LEMMA CrashKeeps ==
  ASSUME AlertsInductive, NEW a \in Actors, Crash(a)
  PROVE  AlertsInductive'
  <1>1. \A i \in Items : Told(a, i) => i \in unsure'
    BY DEF Crash, Told
  <1> QED
    BY <1>1, FailKeeps DEF Crash

------------------------------------------------------------------------------
(* Steps that do not write.                                                *)

\* A step of one actor that leaves the ledger alone.
LEMMA LocalKeeps ==
  ASSUME AlertsInductive, NEW a \in Actors,
         UNCHANGED <<shop, ledger, excused, missed>>,
         pc' \in [Actors -> PCs], copy' \in [Actors -> [Items -> Entry]],
         live' \in [Actors -> SUBSET Items], accepted' \in [Actors -> BOOLEAN],
         sent' \in [Actors -> [Items -> Levels]], off' \in [Actors -> SUBSET Items],
         owed' \in [Items -> Levels],
         \A b \in Actors \ {a} :
            /\ pc'[b] = pc[b] /\ copy'[b] = copy[b] /\ live'[b] = live[b]
            /\ accepted'[b] = accepted[b] /\ sent'[b] = sent[b] /\ off'[b] = off[b],
         \A i \in Items : Valid(copy'[a][i]),
         \A i \in Items : owed'[i] = owed[i] \/ owed'[i] = "ok",
         MailedOnceEach', PendingIsOwed',
         UpToDate(a)', Picked(a)', Holds(a)'
  PROVE  AlertsInductive'
  <1>1. AlertsTypeOK /\ AlertKept
    BY DEF AlertsInductive
  <1>2. AlertsTypeOK'
    BY <1>1 DEF AlertsTypeOK
  <1>3. AlertKept'
    BY <1>1 DEF AlertKept
  <1>4. \A b \in Actors : \A i \in Items : Valid(copy[b][i])'
    BY DEF AlertsInductive
  <1>5. \A b \in Actors \ {a} : UpToDate(b)' /\ Picked(b)' /\ Holds(b)'
    <2> TAKE b \in Actors \ {a}
    <2>1. UpToDate(b) /\ Picked(b) /\ Holds(b)
      BY DEF AlertsInductive
    <2>2. UpToDate(b)'
      BY <2>1 DEF UpToDate, Alike
    <2>3. Picked(b)' /\ Holds(b)'
      BY <2>1 DEF Picked, Holds
    <2> QED
      BY <2>2, <2>3
  <1> QED
    BY <1>2, <1>3, <1>4, <1>5 DEF AlertsInductive

\* A ledger is loaded, by one who has told nothing that it will not tell again.
LEMMA LoadKeeps ==
  ASSUME AlertsInductive, NEW a \in Actors, NEW at \in PCs, NEW new \in [Items -> Entry],
         Load(a, at, new),
         UNCHANGED <<shop, ledger, accepted, owed, sent, excused, unsure, repeated, missed>>,
         live' \in [Actors -> SUBSET Items],
         \A b \in Actors \ {a} : live'[b] = live[b],
         \A i \in Items : Valid(new[i]),
         \A i \in Items : Told(a, i) => at = "finish" /\ live'[a] = live[a],
         \A i \in Items :
            /\ at \in Mailing \cup {"mark"} => Alike(new[i], ledger[i])
            /\ at = "record" /\ ledger[i].pending =>
                  new[i].pending /\ new[i].claim = ledger[i].claim,
         \A i \in live'[a] : /\ at \in {"handle", "claim", "send"} => new[i].pending
                             /\ at \in {"handle", "claim"} => new[i].claim = "none",
         at \in {"send", "reload", "finish"} =>
            pc[a] \in {"send", "reload", "finish"} /\ live'[a] = live[a]
  PROVE  AlertsInductive'
  <1>1. /\ AlertsTypeOK /\ MailedOnceEach /\ PendingIsOwed /\ Holds(a)
        /\ sent \in [Actors -> [Items -> Levels]] /\ off \in [Actors -> SUBSET Items]
    BY DEF AlertsInductive
  <1>2. /\ pc' \in [Actors -> PCs] /\ copy' \in [Actors -> [Items -> Entry]]
        /\ off' \in [Actors -> SUBSET Items]
        /\ pc'[a] = at /\ copy'[a] = new /\ off'[a] = {}
        /\ \A b \in Actors \ {a} :
              pc'[b] = pc[b] /\ copy'[b] = copy[b] /\ off'[b] = off[b]
    BY <1>1 DEF Load, AlertsTypeOK
  <1>3. UpToDate(a)'
    BY <1>2 DEF UpToDate, Alike
  <1>4. Picked(a)' /\ Holds(a)'
    BY <1>1, <1>2 DEF Picked, Holds
  <1>5. \A b \in Drains : \A i \in Items : Told(b, i) => Told(b, i)'
    <2> TAKE b \in Drains
    <2> TAKE i \in Items
    <2> HAVE Told(b, i)
    <2>1. CASE b = a
      BY <1>2, <2>1 DEF Told
    <2>2. CASE b # a
      BY <1>2, <2>2 DEF Told, Drains, Actors
    <2> QED
      BY <2>1, <2>2
  <1>6. PendingIsOwed'
    BY <1>1, <1>5 DEF PendingIsOwed
  <1>7. MailedOnceEach' /\ owed' \in [Items -> Levels] /\ accepted' \in [Actors -> BOOLEAN]
        /\ sent' \in [Actors -> [Items -> Levels]]
    BY <1>1 DEF MailedOnceEach, AlertsTypeOK
  <1> QED
    BY <1>2, <1>3, <1>4, <1>6, <1>7, LocalKeeps

\* Folding a reading into a loaded ledger keeps the invariant.
LEMMA ObserveKeeps ==
  ASSUME AlertsInductive, Observe
  PROVE  AlertsInductive'
  <1> DEFINE a == Watchdog
  <1>1. /\ AlertsTypeOK /\ a \in Actors /\ pc[a] = "idle"
        /\ \A i \in Items : Valid(ledger[i]) /\ ~ Told(a, i)
    BY Untold DEF AlertsInductive, AlertsTypeOK, Valid, Observe, Actors
  <1>2. PICK i \in Items, r \in Readings :
           Load(a, "record", [ledger EXCEPT ![i] = Observed(@, LevelFor(r, shop[i]))])
    BY DEF Observe
  <1> DEFINE l == LevelFor(r, shop[i])
             new == [ledger EXCEPT ![i] = Observed(@, l)]
  <1>3. \A j \in Items : /\ Valid(new[j])
                         /\ ledger[j].pending =>
                               new[j].pending /\ new[j].claim = ledger[j].claim
    <2>1. l \in Levels
      BY LevelForIs
    <2> HIDE DEF l
    <2>2. /\ Valid(Observed(ledger[i], l))
          /\ ledger[i].pending => /\ Observed(ledger[i], l).pending
                                  /\ Observed(ledger[i], l).claim = ledger[i].claim
      BY <1>1, <2>1, ObservedIs
    <2>3. \A j \in Items : new[j] = IF j = i THEN Observed(ledger[i], l) ELSE ledger[j]
      BY <1>1 DEF AlertsTypeOK
    <2> QED
      BY <1>1, <2>2, <2>3
  <1>4. new \in [Items -> Entry]
    <2>1. new = [j \in Items |-> new[j]]
      BY <1>1 DEF AlertsTypeOK
    <2> QED
      BY <1>3, <2>1 DEF Valid
  <1>5. Load(a, "record", new)
    BY <1>2
  <1> HIDE DEF new
  <1>6. UNCHANGED <<shop, ledger, live, accepted, owed, sent, excused, unsure, repeated,
                    missed>>
    BY DEF Observe
  <1>7. "record" \in PCs /\ "record" \notin Mailing \cup {"mark"}
    BY DEF PCs, Mailing
  <1> QED
    BY <1>1, <1>3, <1>4, <1>5, <1>6, <1>7, LoadKeeps DEF AlertsTypeOK

\* The owner's opening of an alert keeps the invariant.
LEMMA MarkSeenKeeps ==
  ASSUME AlertsInductive, MarkSeen
  PROVE  AlertsInductive'
  <1> DEFINE a == Owner
  <1>1. /\ AlertsTypeOK /\ a \in Actors /\ pc[a] = "idle"
        /\ \A i \in Items : Valid(ledger[i]) /\ ~ Told(a, i)
    BY Untold DEF AlertsInductive, AlertsTypeOK, Valid, MarkSeen, Actors
  <1>2. PICK i \in Items :
           /\ ledger[i].level # "ok"
           /\ Load(a, "mark", [ledger EXCEPT ![i].seen = ledger[i].level])
    BY DEF MarkSeen
  <1> DEFINE e == [ledger[i] EXCEPT !.seen = ledger[i].level]
             new == [ledger EXCEPT ![i] = e]
  <1>3. Valid(e) /\ Alike(e, ledger[i])
    BY <1>1, <1>2, SeenIs
  <1>4. Load(a, "mark", new)
    BY <1>2
  <1> HIDE DEF e
  <1>5. \A j \in Items : Valid(new[j]) /\ Alike(new[j], ledger[j])
    <2>1. \A j \in Items : new[j] = IF j = i THEN e ELSE ledger[j]
      BY <1>1 DEF AlertsTypeOK
    <2> QED
      BY <1>1, <1>3, <2>1 DEF Alike
  <1>6. new \in [Items -> Entry]
    BY <1>1, <1>3 DEF AlertsTypeOK, Valid
  <1> HIDE DEF new
  <1>7. UNCHANGED <<shop, ledger, live, accepted, owed, sent, excused, unsure, repeated,
                    missed>>
    BY DEF MarkSeen
  <1>8. "mark" \in PCs
    BY DEF PCs
  <1> QED
    BY <1>1, <1>4, <1>5, <1>6, <1>7, <1>8, LoadKeeps DEF AlertsTypeOK

\* The start of a drain keeps the invariant.
LEMMA DrainKeeps ==
  ASSUME AlertsInductive, NEW a \in Drains, Drain(a)
  PROVE  AlertsInductive'
  <1> DEFINE due  == {i \in Items : Claimable(ledger[i])}
             sold == {i \in due : Sellable(i)}
             at   == IF sold = due THEN "claim" ELSE "handle"
  <1>1. /\ AlertsTypeOK /\ a \in Actors /\ pc[a] = "idle"
        /\ \A i \in Items : Valid(ledger[i]) /\ ~ Told(a, i)
    BY Untold DEF AlertsInductive, AlertsTypeOK, Valid, Drain, Actors, Drains
  <1>2. Load(a, at, ledger) /\ live' = [live EXCEPT ![a] = sold]
    BY DEF Drain
  <1>3. at \in PCs /\ at \in {"claim", "handle"}
    BY DEF PCs
  <1>4. sold \subseteq Items
        /\ \A i \in sold : ledger[i].pending /\ ledger[i].claim = "none"
    BY DEF Claimable
  <1> HIDE DEF at, sold
  <1>5. /\ live' \in [Actors -> SUBSET Items] /\ live'[a] = sold
        /\ \A b \in Actors \ {a} : live'[b] = live[b]
    BY <1>1, <1>2, <1>4 DEF AlertsTypeOK
  <1>6. UNCHANGED <<shop, ledger, accepted, owed, sent, excused, unsure, repeated, missed>>
    BY DEF Drain
  <1>7. \A i \in Items : Alike(ledger[i], ledger[i])
    BY DEF Alike
  <1>8. ledger \in [Items -> Entry]
    BY <1>1 DEF AlertsTypeOK
  <1> QED
    BY <1>1, <1>2, <1>3, <1>4, <1>5, <1>6, <1>7, <1>8, LoadKeeps

\* A drain's second reading keeps the invariant.
LEMMA ReloadKeeps ==
  ASSUME AlertsInductive, NEW a \in Drains, Reload(a)
  PROVE  AlertsInductive'
  <1>1. /\ AlertsTypeOK /\ MailedOnceEach /\ PendingIsOwed /\ a \in Actors
        /\ pc[a] = "reload" /\ UpToDate(a) /\ Holds(a)
        /\ sent \in [Actors -> [Items -> Levels]] /\ off \in [Actors -> SUBSET Items]
        /\ \A i \in Items : Valid(ledger[i]) /\ Valid(copy[a][i])
    BY DEF AlertsInductive, AlertsTypeOK, Valid, Reload, Actors, Drains
  <1>2. UNCHANGED <<shop, ledger, live, accepted, owed, sent, excused, unsure,
                    repeated, missed>>
    BY DEF Reload
  <1>3. "finish" \in PCs
    BY DEF PCs
  <1>4. CASE Load(a, "finish", ledger)
    <2>1. /\ ledger \in [Items -> Entry] /\ live \in [Actors -> SUBSET Items]
          /\ \A i \in Items : Alike(ledger[i], ledger[i])
      BY <1>1 DEF AlertsTypeOK, Alike
    <2> QED
      BY <1>1, <1>2, <1>3, <1>4, <2>1, LoadKeeps
  <1>5. CASE pc' = [pc EXCEPT ![a] = "finish"] /\ UNCHANGED <<copy, off>>
    <2>1. /\ pc' \in [Actors -> PCs] /\ pc'[a] = "finish"
          /\ \A b \in Actors \ {a} : pc'[b] = pc[b]
      BY <1>1, <1>3, <1>5 DEF AlertsTypeOK
    <2>2. UpToDate(a)' /\ Picked(a)' /\ Holds(a)'
      BY <1>1, <1>2, <1>5, <2>1 DEF UpToDate, Picked, Holds, Alike, Mailing
    <2>3. \A b \in Drains : \A i \in Items : Told(b, i) => Told(b, i)'
      BY <1>2, <2>1 DEF Told, Drains, Actors
    <2>4. PendingIsOwed' /\ MailedOnceEach'
      BY <1>1, <1>2, <2>3 DEF PendingIsOwed, MailedOnceEach
    <2> QED
      BY <1>1, <1>2, <1>5, <2>1, <2>2, <2>4, LocalKeeps DEF AlertsTypeOK
  <1> QED
    BY <1>4, <1>5 DEF Reload

\* Sending a mail keeps the invariant.
LEMMA SendKeeps ==
  ASSUME AlertsInductive, NEW a \in Drains, Send(a)
  PROVE  AlertsInductive'
  <1>1. /\ AlertsTypeOK /\ MailedOnceEach /\ PendingIsOwed /\ a \in Actors
        /\ pc[a] = "send" /\ UpToDate(a) /\ Holds(a) /\ Picked(a)
        /\ sent \in [Actors -> [Items -> Levels]] /\ off \in [Actors -> SUBSET Items]
        /\ \A i \in Items : Valid(copy[a][i])
        /\ \A i \in Items : ~ Told(a, i)
    BY Untold DEF AlertsInductive, Send, Actors, Drains
  <1>2. /\ UNCHANGED <<shop, ledger, copy, live, off, excused, missed>>
        /\ pc' = [pc EXCEPT ![a] = "reload"]
    BY DEF Send
  <1>3. /\ pc' \in [Actors -> PCs] /\ pc'[a] = "reload"
        /\ \A b \in Actors \ {a} : pc'[b] = pc[b]
    BY <1>1, <1>2 DEF AlertsTypeOK, PCs
  <1>4. UpToDate(a)' /\ Picked(a)' /\ Holds(a)'
    BY <1>1, <1>2, <1>3 DEF UpToDate, Picked, Holds, Alike, Mailing
  <1>5. ASSUME NEW rows \in Batches(a),
               sent' = [sent EXCEPT ![a] =
                  [i \in Items |-> IF i \in rows THEN copy[a][i].level ELSE "ok"]],
               owed' = [i \in Items |->
                  IF i \in rows /\ ~ Worse(owed[i], copy[a][i].level)
                  THEN "ok" ELSE owed[i]],
               repeated' = repeated \cup {i \in rows : owed[i] = "ok"},
               \/ accepted' = [accepted EXCEPT ![a] = TRUE] /\ UNCHANGED unsure
               \/ unsure' = unsure \cup rows /\ UNCHANGED accepted
        PROVE  AlertsInductive'
    <2>1. rows \subseteq live[a] /\ rows \subseteq Items /\ live[a] \subseteq Items
      BY <1>1 DEF Batches, AlertsTypeOK
    <2>2. \A i \in rows : copy[a][i].pending /\ copy[a][i].level \in Levels \ {"ok"}
      BY <1>1, <2>1, PendingIsValid DEF Picked, Valid, Entry
    <2>3. /\ sent' \in [Actors -> [Items -> Levels]]
          /\ \A i \in Items : sent'[a][i] = IF i \in rows THEN copy[a][i].level ELSE "ok"
          /\ \A b \in Actors \ {a} : sent'[b] = sent[b]
      <3> DEFINE told == [i \in Items |-> IF i \in rows THEN copy[a][i].level ELSE "ok"]
      <3>1. told \in [Items -> Levels]
        BY <2>1, <2>2 DEF Levels
      <3>2. \A i \in Items : told[i] = IF i \in rows THEN copy[a][i].level ELSE "ok"
        OBVIOUS
      <3>3. sent' = [sent EXCEPT ![a] = told]
        BY <1>5
      <3> HIDE DEF told
      <3> QED
        BY <1>1, <3>1, <3>2, <3>3
    <2>4. /\ accepted' \in [Actors -> BOOLEAN] /\ unsure \subseteq unsure'
          /\ \A b \in Actors \ {a} : accepted'[b] = accepted[b]
          /\ accepted'[a] \/ rows \subseteq unsure'
      BY <1>1, <1>5 DEF AlertsTypeOK
    <2>5. /\ owed' \in [Items -> Levels]
          /\ \A i \in Items : owed'[i] = owed[i] \/ (owed'[i] = "ok" /\ i \in rows)
      BY <1>1, <1>5 DEF AlertsTypeOK, Levels
    <2>6. MailedOnceEach'
      <3> SUFFICES ASSUME NEW i \in rows, owed[i] = "ok", i \notin excused \cup unsure
                   PROVE  FALSE
        BY <1>1, <1>2, <1>5, <2>4 DEF MailedOnceEach
      <3>1. ledger[i].pending /\ ledger[i].claim = a
        BY <1>1, <2>1 DEF Holds
      <3>2. PICK b \in Drains : Told(b, i)
        BY <1>1, <2>1, <3>1 DEF PendingIsOwed
      <3>3. ledger[i].claim = b
        <4>1. Holds(b)
          BY DEF AlertsInductive, Drains, Actors
        <4> QED
          BY <3>2, <4>1 DEF Holds, Told
      <3> QED
        BY <1>1, <2>1, <3>1, <3>2, <3>3
    <2>7. PendingIsOwed'
      <3> SUFFICES ASSUME NEW i \in Items \ (excused \cup unsure'),
                          ledger[i].pending, owed'[i] = "ok"
                   PROVE  \E b \in Drains : Told(b, i)'
        BY <1>2 DEF PendingIsOwed
      <3>1. CASE i \in rows
        <4>1. Told(a, i)'
          BY <1>2, <1>3, <2>1, <2>2, <2>3, <2>4, <3>1 DEF Told
        <4> QED
          BY <4>1
      <3>2. CASE i \notin rows
        <4>1. PICK b \in Drains : Told(b, i)
          BY <1>1, <2>4, <2>5, <3>2 DEF PendingIsOwed
        <4>2. b # a /\ b \in Actors
          BY <1>1, <4>1 DEF Drains, Actors
        <4>3. Told(b, i)'
          BY <1>2, <1>3, <2>3, <2>4, <4>1, <4>2 DEF Told
        <4> QED
          BY <4>3
      <3> QED
        BY <3>1, <3>2
    <2> QED
      BY <1>1, <1>2, <1>3, <1>4, <2>3, <2>4, <2>5, <2>6, <2>7, LocalKeeps DEF AlertsTypeOK
  <1>6. CASE UNCHANGED <<accepted, owed, sent, unsure, repeated>>
    <2>1. \A b \in Drains : \A i \in Items : Told(b, i) => Told(b, i)'
      BY <1>1, <1>2, <1>3, <1>6 DEF Told, Drains, Actors
    <2>2. PendingIsOwed' /\ MailedOnceEach'
      BY <1>1, <1>2, <1>6, <2>1 DEF PendingIsOwed, MailedOnceEach
    <2> QED
      BY <1>1, <1>2, <1>3, <1>4, <1>6, <2>2, LocalKeeps DEF AlertsTypeOK
  <1> QED
    BY <1>5, <1>6 DEF Send

\* An expired claim keeps the invariant.
LEMMA ExpireKeeps ==
  ASSUME AlertsInductive, NEW i \in Items, Expire(i)
  PROVE  AlertsInductive'
  <1> DEFINE expired(e) == IF e.claim = "left" THEN WithClaim(e, "none") ELSE e
  <1>1. /\ AlertsTypeOK /\ AlertKept /\ MailedOnceEach /\ PendingIsOwed
        /\ sent \in [Actors -> [Items -> Levels]] /\ off \in [Actors -> SUBSET Items]
        /\ \A j \in Items : Valid(ledger[j])
        /\ \A a \in Actors : \A j \in Items : Valid(copy[a][j])
    BY DEF AlertsInductive, AlertsTypeOK, Valid
  <1>2. /\ ledger' = [ledger EXCEPT ![i] = expired(ledger[i])]
        /\ copy' = [a \in Actors |-> [copy[a] EXCEPT ![i] = expired(copy[a][i])]]
        /\ UNCHANGED <<shop, pc, live, accepted, owed, sent, off, excused, unsure,
                       repeated, missed>>
    BY DEF Expire, WithClaim
  <1>3. ASSUME NEW e, Valid(e)
        PROVE  /\ Valid(expired(e)) /\ expired(e).level = e.level
               /\ expired(e).pending = e.pending
               /\ expired(e).claim = IF e.claim = "left" THEN "none" ELSE e.claim
    <2>1. CASE e.claim = "left"
      <3>1. e.level # "ok" /\ "none" \in Claims
        BY <1>3, <2>1 DEF Valid, NoEntry, Claims
      <3> QED
        BY <1>3, <2>1, <3>1, ClaimIs
    <2>2. CASE e.claim # "left"
      BY <1>3, <2>2
    <2> QED
      BY <2>1, <2>2
  <1> DEFINE now(e) == IF e.claim = "left" THEN "none" ELSE e.claim
  <1>4. \A j \in Items :
           /\ Valid(ledger'[j]) /\ ledger'[j].level = ledger[j].level
           /\ ledger'[j].pending = ledger[j].pending
           /\ \/ ledger'[j].claim = ledger[j].claim /\ j # i
              \/ ledger'[j].claim = now(ledger[j]) /\ j = i
    <2>1. \A j \in Items : ledger'[j] = IF j = i THEN expired(ledger[i]) ELSE ledger[j]
      BY <1>1, <1>2 DEF AlertsTypeOK
    <2> HIDE DEF expired
    <2> QED
      BY <1>1, <1>3, <2>1
  <1>5. \A a \in Actors : \A j \in Items :
           /\ Valid(copy'[a][j]) /\ copy'[a][j].level = copy[a][j].level
           /\ copy'[a][j].pending = copy[a][j].pending
           /\ \/ copy'[a][j].claim = copy[a][j].claim /\ j # i
              \/ copy'[a][j].claim = now(copy[a][j]) /\ j = i
    <2>1. \A a \in Actors : \A j \in Items :
             copy'[a][j] = IF j = i THEN expired(copy[a][i]) ELSE copy[a][j]
      BY <1>1, <1>2 DEF AlertsTypeOK
    <2> HIDE DEF expired
    <2> QED
      BY <1>1, <1>3, <2>1
  <1>6. AlertsTypeOK'
    <2>1. ledger' \in [Items -> Entry] /\ copy' \in [Actors -> [Items -> Entry]]
      <3>1. ledger' = [j \in Items |-> ledger'[j]]
        BY <1>1, <1>2 DEF AlertsTypeOK
      <3>2. copy' = [a \in Actors |-> [j \in Items |-> copy'[a][j]]]
        BY <1>1, <1>2 DEF AlertsTypeOK
      <3> QED
        BY <1>4, <1>5, <3>1, <3>2 DEF Valid
    <2> QED
      BY <1>1, <1>2, <1>4, <2>1 DEF AlertsTypeOK, Valid
  <1>7. AlertKept' /\ MailedOnceEach'
    BY <1>1, <1>2, <1>4 DEF AlertKept, MailedOnceEach
  <1>8. PendingIsOwed'
    BY <1>1, <1>2, <1>4 DEF PendingIsOwed, Told
  <1>9. \A a \in Actors : UpToDate(a)' /\ Picked(a)' /\ Holds(a)'
    <2> TAKE a \in Actors
    <2>1. UpToDate(a) /\ Picked(a) /\ Holds(a) /\ a # "left" /\ live[a] \subseteq Items
      BY <1>1 DEF AlertsInductive, AlertsTypeOK, Actors, Watchdog, Tick, Owner
    <2>2. UpToDate(a)'
      BY <1>2, <1>4, <1>5, <2>1 DEF UpToDate, Alike
    <2>3. Picked(a)'
      BY <1>2, <1>5, <2>1 DEF Picked
    <2>4. Holds(a)'
      BY <1>2, <1>4, <2>1 DEF Holds
    <2> QED
      BY <2>2, <2>3, <2>4
  <1> QED
    BY <1>1, <1>2, <1>5, <1>6, <1>7, <1>8, <1>9 DEF AlertsInductive

\* What the shop has is read by no invariant but the types.
LEMMA SameKeeps ==
  ASSUME AlertsInductive, shop' \in [Items -> Stocks],
         UNCHANGED <<ledger, pc, copy, live, accepted, owed, sent, off, excused,
                     unsure, repeated, missed>>
  PROVE  AlertsInductive'
  <1>1. AlertsTypeOK' /\ AlertKept' /\ MailedOnceEach' /\ PendingIsOwed'
    BY DEF AlertsInductive, AlertsTypeOK, AlertKept, MailedOnceEach, PendingIsOwed, Told
  <1>2. \A a \in Actors : UpToDate(a)' /\ Picked(a)' /\ Holds(a)'
    BY DEF AlertsInductive, UpToDate, Picked, Holds, Alike
  <1> QED
    BY <1>1, <1>2 DEF AlertsInductive, Valid

\* A change of the shop's own stock keeps the invariant.
LEMMA MoveKeeps ==
  ASSUME AlertsInductive, NEW i \in Items, Move(i)
  PROVE  AlertsInductive'
  <1>1. shop' \in [Items -> Stocks]
    BY DEF Move, AlertsInductive, AlertsTypeOK
  <1> QED
    BY <1>1, SameKeeps DEF Move

\* The empty ledger satisfies the invariant.
LEMMA InitInductive ==
  ASSUME Init
  PROVE  AlertsInductive
  <1>1. Valid(NoEntry)
    BY DEF Valid, NoEntry, Entry, Levels, Claims
  <1>2. \A i \in Items : ledger[i] = NoEntry /\ owed[i] = "ok"
    BY DEF Init
  <1>3. AlertsTypeOK
    BY <1>1 DEF Init, AlertsTypeOK, Valid, PCs, Levels
  <1>4. \A a \in Actors : /\ pc[a] = "idle" /\ \A i \in Items : copy[a][i] = NoEntry
                          /\ live[a] = {}
    BY DEF Init
  <1>5. AlertKept /\ MailedOnceEach /\ PendingIsOwed
    BY <1>2 DEF Init, AlertKept, MailedOnceEach, PendingIsOwed, NoEntry
  <1>6. \A a \in Actors : UpToDate(a) /\ Picked(a) /\ Holds(a)
    BY <1>4 DEF UpToDate, Picked, Holds, Mailing
  <1>7. sent \in [Actors -> [Items -> Levels]] /\ off \in [Actors -> SUBSET Items]
    BY DEF Init, Levels
  <1> QED
    BY <1>1, <1>3, <1>4, <1>5, <1>6, <1>7 DEF AlertsInductive

\* Every step keeps the invariant, one case for each action.
LEMMA NextKeeps ==
  ASSUME AlertsInductive, [Next]_vars
  PROVE  AlertsInductive'
  <1>1. ASSUME NEW a \in Drains, Drain(a) \/ DrainOn(a)
        PROVE  AlertsInductive'
    BY <1>1, DrainKeeps, HandleKeeps, ClaimKeeps, SendKeeps, ReloadKeeps, FinishKeeps
    DEF DrainOn
  <1>2. CASE UNCHANGED vars
    <2>1. shop' \in [Items -> Stocks]
      BY <1>2 DEF vars, AlertsInductive, AlertsTypeOK
    <2> QED
      BY <1>2, <2>1, SameKeeps DEF vars
  <1> QED
    BY <1>1, <1>2, ObserveKeeps, RecordKeeps, MarkSeenKeeps, SaveSeenKeeps, CrashKeeps,
       ExpireKeeps, MoveKeeps DEF Next

------------------------------------------------------------------------------
(***************************************************************************)
(* Every reachable state satisfies the inductive invariant: from its claim *)
(* to its end a drain holds what it mails, and what is pending is owed or  *)
(* was just told.                                                          *)
(***************************************************************************)
THEOREM AlertsInvariant == Spec => []AlertsInductive
  <1>1. Init => AlertsInductive
    BY InitInductive
  <1>2. AlertsInductive /\ [Next]_vars => AlertsInductive'
    BY NextKeeps
  <1> QED
    BY <1>1, <1>2, PTL DEF Spec

(***************************************************************************)
(* Types: the ledger and every loaded copy hold well-formed entries, and   *)
(* none of an item that is well.                                           *)
(***************************************************************************)
THEOREM AlertsTypes == Spec => []AlertsTypeOK
  <1>1. AlertsInductive => AlertsTypeOK
    BY DEF AlertsInductive
  <1> QED
    BY <1>1, AlertsInvariant, PTL

(***************************************************************************)
(* A recorded drop stays pending at its level until it is told: no failed  *)
(* mail, failed save, crash or left claim loses it, on a ledger of any     *)
(* size, but where an old copy overwrote it or a mail did not tell of it.  *)
(***************************************************************************)
THEOREM AlertAlwaysKept == Spec => []AlertKept
  <1>1. AlertsInductive => AlertKept
    BY DEF AlertsInductive
  <1> QED
    BY <1>1, AlertsInvariant, PTL

(***************************************************************************)
(* The claims keep the drains of the watchdog and the scheduler from       *)
(* telling one drop twice, unless an old copy overwrote the entry or an    *)
(* earlier mail was not known to have been sent.                           *)
(***************************************************************************)
THEOREM MailedOnceAlways == Spec => []MailedOnceEach
  <1>1. AlertsInductive => MailedOnceEach
    BY DEF AlertsInductive
  <1> QED
    BY <1>1, AlertsInvariant, PTL
==============================================================================
