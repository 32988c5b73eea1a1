--------------------------- MODULE BroadcastProofs ---------------------------
(***************************************************************************)
(* Types, MailedOnce and EveryoneAccountedFor for any number of campaigns, *)
(* addresses and threads, any budget and any number of kept walks.         *)
(***************************************************************************)
EXTENDS BroadcastProperties, FiniteSetTheorems, TLAPS

------------------------------------------------------------------------------
(* Types.                                                                  *)

\* The dictionary of walks: campaigns without repetition.
Dictionary(s) ==
    /\ s \in Seq(Campaigns)
    /\ \A i, k \in DOMAIN s : s[i] = s[k] => i = k

Threads ==
    /\ pass \in [Drainers -> Pass]
    /\ \A d \in Drainers : Fit(pass[d])

Tables ==
    /\ row \in [Campaigns -> Statuses]
    /\ log \in [Campaigns -> [People -> Entries]]
    /\ waiting \in [Campaigns -> Nat]
    /\ cancel \in [Campaigns -> {"no", "checked", "written"}]
    /\ mailed \in [Campaigns -> [People -> Nat]]
    /\ unsure \subseteq Campaigns \X People /\ missed \subseteq Campaigns \X People
    /\ raises \in Nat /\ restarts \in Nat

Generators ==
    /\ Dictionary(streams)
    /\ walks \in [Campaigns -> 0..MaxWalks]
    /\ left \in [Campaigns -> [Walks -> SUBSET People]]
    /\ skip \in [Campaigns -> [Walks -> SUBSET People]]
    /\ \A c \in Campaigns : Listed(c) => walks[c] > 0

Typed == Threads /\ Tables /\ Generators

\* The constants the proofs use.
LEMMA Limits == /\ MaxWalks \in Nat /\ MaxStreams \in Nat \ {0} /\ PassBudget \in Nat \ {0}
                /\ NoCampaign \notin Campaigns /\ IsFiniteSet(Drainers)
  BY BroadcastAssumption

\* Threads can be counted.
LEMMA Counted ==
  ASSUME NEW S, S \subseteq Drainers
  PROVE  /\ IsFiniteSet(S) /\ Cardinality(S) \in Nat /\ Cardinality(Drainers) \in Nat
         /\ Cardinality(S) <= Cardinality(Drainers)
  BY Limits, FS_Subset, FS_CardinalityType

\* The parts make up the type invariant.
LEMMA TypedIs == Typed /\ StreamsFit => TypeOK
<1>1. Cardinality(Opening) \in Nat /\ Cardinality(Drainers) \in Nat
  BY Counted DEF Opening
<1>2. ASSUME Typed, StreamsFit PROVE Len(streams) <= MaxStreams + Cardinality(Drainers) - 1
  <2>1. Len(streams) \in Nat
    BY <1>2 DEF Typed, Generators, Dictionary
  <2> QED
    BY <1>1, <1>2, <2>1, Limits DEF StreamsFit
<1> QED
  BY <1>2 DEF Typed, Threads, Tables, Generators, Dictionary, TypeOK

\* A thread outside the handler fits.
LEMMA IdleFits == Idle \in Pass /\ Fit(Idle)
  BY DEF Idle, Pass, PCs, Statuses, Fit, OnWalk

\* The dictionary without a campaign is one, and lists the others as before.
LEMMA WithoutDictionary ==
  ASSUME Dictionary(streams), NEW c \in Campaigns
  PROVE  /\ Dictionary(Without(c)) /\ Len(Without(c)) <= Len(streams)
         /\ \A i \in DOMAIN Without(c) : \E k \in DOMAIN streams : Without(c)[i] = streams[k]
<1>1. CASE ~Listed(c)
  BY <1>1 DEF Without, Dictionary
<1>2. CASE Listed(c)
  <2> DEFINE i == CHOOSE k \in DOMAIN streams : streams[k] = c
             s == [k \in 1..(Len(streams) - 1) |->
                      IF k < i THEN streams[k] ELSE streams[k + 1]]
  <2>1. i \in DOMAIN streams
    BY <1>2 DEF Listed
  <2>2. streams \in Seq(Campaigns)
        /\ DOMAIN streams = 1..Len(streams) /\ Len(streams) \in Nat
    BY DEF Dictionary
  <2>3. Without(c) = s
    BY <1>2 DEF Without
  <2> HIDE DEF i
  <2>4. \A k \in 1..(Len(streams) - 1) : s[k] \in Campaigns
    BY <2>1, <2>2
  <2>5. s \in Seq(Campaigns) /\ Len(s) = Len(streams) - 1
    BY <2>1, <2>2, <2>4
  <2>6. \A j, k \in 1..(Len(streams) - 1) : s[j] = s[k] => j = k
    BY <2>1, <2>2 DEF Dictionary
  <2>7. \A j \in 1..(Len(streams) - 1) : \E k \in DOMAIN streams : s[j] = streams[k]
    BY <2>1, <2>2
  <2>8. DOMAIN s = 1..(Len(streams) - 1)
    OBVIOUS
  <2> HIDE DEF s
  <2>9. Len(s) <= Len(streams)
    BY <2>2, <2>5
  <2> QED
    BY <2>3, <2>5, <2>6, <2>7, <2>8, <2>9 DEF Dictionary
<1> QED
  BY <1>1, <1>2

\* Room is made by dropping a campaign when there are as many as may be kept.
LEMMA RoomDictionary ==
  ASSUME Dictionary(streams)
  PROVE  /\ Dictionary(Room) /\ Len(Room) \in Nat
         /\ \/ Len(streams) >= MaxStreams /\ Len(Room) = Len(streams) - 1
            \/ Len(streams) < MaxStreams /\ Len(Room) = Len(streams)
         /\ \A i \in DOMAIN Room : \E k \in DOMAIN streams : Room[i] = streams[k]
<1> DEFINE s == Room
<1>1. streams \in Seq(Campaigns) /\ DOMAIN streams = 1..Len(streams) /\ Len(streams) \in Nat
  BY DEF Dictionary
<1>2. CASE Len(streams) >= MaxStreams
  <2>1. streams # << >>
    BY <1>1, <1>2, Limits
  <2>2. s = Tail(streams)
    BY <1>2 DEF Room
  <2>3. /\ s \in Seq(Campaigns) /\ Len(s) = Len(streams) - 1 /\ Len(s) \in Nat
        /\ DOMAIN s = 1..Len(s) /\ \A i \in 1..Len(s) : s[i] = streams[i + 1]
    BY <1>1, <2>1, <2>2
  <2> HIDE DEF s
  <2>4. \A i, k \in 1..Len(streams) : streams[i] = streams[k] => i = k
    BY <1>1 DEF Dictionary
  <2>5. \A i \in 1..Len(s) : i + 1 \in 1..Len(streams)
    BY <1>1, <2>3
  <2>6. \A i, k \in 1..Len(s) : s[i] = s[k] => i = k
    BY <2>3, <2>4, <2>5
  <2>7. \A i \in 1..Len(s) : \E k \in DOMAIN streams : s[i] = streams[k]
    BY <1>1, <2>3, <2>5
  <2> QED
    BY <1>2, <2>3, <2>6, <2>7 DEF Dictionary, s
<1>3. CASE ~(Len(streams) >= MaxStreams)
  <2>1. s = streams
    BY <1>3 DEF Room
  <2> HIDE DEF s
  <2>2. /\ Dictionary(s) /\ Len(s) \in Nat /\ Len(s) = Len(streams) /\ Len(streams) < MaxStreams
        /\ \A i \in DOMAIN s : \E k \in DOMAIN streams : s[i] = streams[k]
    BY <1>1, <1>3, <2>1, Limits
  <2> QED
    BY <2>2 DEF s
<1> QED
  BY <1>2, <1>3

\* A campaign that is not listed can be added.
LEMMA AppendDictionary ==
  ASSUME Dictionary(streams), NEW c \in Campaigns, ~Listed(c)
  PROVE  /\ Dictionary(Append(streams, c)) /\ Len(Append(streams, c)) = Len(streams) + 1
         /\ \A i \in DOMAIN Append(streams, c) :
               \/ Append(streams, c)[i] = c
               \/ \E k \in DOMAIN streams : Append(streams, c)[i] = streams[k]
<1>1. /\ streams \in Seq(Campaigns) /\ DOMAIN streams = 1..Len(streams) /\ Len(streams) \in Nat
      /\ \A i, k \in 1..Len(streams) : streams[i] = streams[k] => i = k
      /\ \A i \in 1..Len(streams) : streams[i] # c
  BY DEF Dictionary, Listed
<1>2. /\ Append(streams, c) \in Seq(Campaigns) /\ Len(Append(streams, c)) = Len(streams) + 1
      /\ DOMAIN Append(streams, c) = 1..(Len(streams) + 1)
      /\ Append(streams, c)[Len(streams) + 1] = c
      /\ \A i \in 1..Len(streams) : Append(streams, c)[i] = streams[i]
  BY <1>1
<1>3. \A i, k \in 1..(Len(streams) + 1) :
         Append(streams, c)[i] = Append(streams, c)[k] => i = k
  BY <1>1, <1>2
<1>4. \A i \in 1..(Len(streams) + 1) :
         \/ Append(streams, c)[i] = c
         \/ \E k \in DOMAIN streams : Append(streams, c)[i] = streams[k]
  BY <1>1, <1>2
<1> QED
  BY <1>2, <1>3, <1>4 DEF Dictionary

\* A thread that goes on with a fitting record.
LEMMA ThreadsKept ==
  ASSUME Threads, NEW d \in Drainers, NEW t \in Pass, Fit(t),
         pass' = [pass EXCEPT ![d] = t]
  PROVE  Threads'
  BY DEF Threads

\* Where a thread may go without anything else changing.
LEMMA GoesOn ==
  ASSUME Threads, NEW d \in Drainers, NEW pc \in PCs \ {"idle"},
         pass[d].pc # "idle", pc \in OnWalk => pass[d].pc \in OnWalk,
         pc \in {"ask", "send", "log"} => pass[d].pc \in {"ask", "send", "log"},
         Goto(d, pc)
  PROVE  Threads'
<1> DEFINE t == [pass[d] EXCEPT !.pc = pc]
<1>1. t \in Pass /\ Fit(t)
  BY DEF Threads, Pass, Fit
<1> QED
  BY <1>1, ThreadsKept DEF Goto

\* A thread that leaves the handler fits.
LEMMA EndsWell ==
  ASSUME Threads, NEW d \in Drainers, End(d)
  PROVE  Threads'
  BY IdleFits, ThreadsKept DEF End

\* What a thread in the handler works on.
LEMMA InHandler ==
  ASSUME Threads, NEW d \in Drainers
  PROVE  /\ pass[d].pc # "idle" => pass[d].campaign \in Campaigns
         /\ pass[d].campaign \in Campaigns => pass[d].pc # "idle"
         /\ pass[d].pc \in OnWalk => pass[d].walk \in Walks
         /\ pass[d].pc \in {"ask", "send", "log"} => pass[d].to \in People
         /\ pass[d] \in Pass
  BY Limits DEF Threads, Pass, Fit

\* A pass that begins.
LEMMA StartsWell ==
  ASSUME Threads, NEW d \in Drainers, NEW c \in Campaigns, Starts(d, c)
  PROVE  Threads'
<1> DEFINE t == [Idle EXCEPT !.pc = "read", !.campaign = c,
                             !.late = cancel[c] = "written"]
<1>1. t \in Pass /\ Fit(t)
  BY Limits DEF Idle, Pass, PCs, Statuses, Fit, OnWalk
<1> QED
  BY <1>1, ThreadsKept DEF Starts

\* The admin's steps keep the types.
LEMMA OutsideTypes ==
  ASSUME Typed, NEW c \in Campaigns, Queue(c) \/ CheckCancel(c) \/ WriteCancel(c)
  PROVE  Typed'
<1>1. Threads' /\ Generators'
  BY DEF Typed, Threads, Generators, Listed, Queue, CheckCancel, WriteCancel, memory
<1>2. Tables'
  <2>1. CASE Queue(c)
    BY <2>1 DEF Typed, Tables, Queue, ghosts, counts, Statuses
  <2>2. CASE CheckCancel(c)
    BY <2>2 DEF Typed, Tables, CheckCancel, ghosts, counts, rows
  <2>3. CASE WriteCancel(c)
    BY <2>3 DEF Typed, Tables, WriteCancel, ghosts, counts, Statuses, Settled
  <2> QED
    BY <2>1, <2>2, <2>3
<1> QED
  BY <1>1, <1>2 DEF Typed

\* A pass that begins keeps the types.
LEMMA BeginTypes ==
  ASSUME Typed, NEW d \in Drainers, NEW c \in Campaigns, Begin(d, c) \/ BeginSame(d, c)
  PROVE  Typed'
<1>1. Threads'
  BY StartsWell DEF Typed, Begin, BeginSame
<1>2. Generators'
  BY DEF Typed, Generators, Listed, Begin, BeginSame, memory
<1>3. Tables'
  <2>1. CASE Begin(d, c)
    <3>1. waiting' \in [Campaigns -> Nat]
      BY <2>1 DEF Typed, Tables, Begin
    <3> QED
      BY <2>1, <3>1 DEF Typed, Tables, Begin, ghosts, counts, rows
  <2>2. CASE BeginSame(d, c)
    BY <2>2 DEF Typed, Tables, BeginSame, ghosts, counts, rows
  <2> QED
    BY <2>1, <2>2
<1> QED
  BY <1>1, <1>2, <1>3 DEF Typed

\* Steps that only move a thread.
LEMMA MovingTypes ==
  ASSUME Typed, NEW d \in Drainers,
         ReadRow(d) \/ WalkOver(d) \/ AskCancelled(d) \/ Finish(d)
  PROVE  Typed'
<1>1. Threads'
  <2>1. CASE ReadRow(d)
    BY <2>1, GoesOn, EndsWell DEF Typed, ReadRow, PCs, OnWalk
  <2>2. CASE WalkOver(d)
    BY <2>2, GoesOn DEF Typed, WalkOver, PCs, OnWalk
  <2>3. CASE AskCancelled(d)
    BY <2>3, GoesOn DEF Typed, AskCancelled, PCs, OnWalk
  <2>4. CASE Finish(d)
    <3> DEFINE t == [pass[d] EXCEPT !.pc = "settle", !.status = Verdict(pass[d].campaign)]
    <3>1. t \in Pass
      BY <2>4, InHandler DEF Typed, Pass, PCs, Verdict, Statuses, Settled
    <3>2. Fit(t)
      BY <2>4, InHandler DEF Typed, Threads, Fit, Finish, OnWalk, Pass
    <3> QED
      BY <2>4, <3>1, <3>2, ThreadsKept DEF Typed, Finish
  <2> QED
    BY <2>1, <2>2, <2>3, <2>4
<1>2. Generators'
  BY DEF Typed, Generators, Listed, ReadRow, WalkOver, AskCancelled, Finish, memory
<1>3. Tables'
  BY DEF Typed, Tables, ReadRow, WalkOver, AskCancelled, Finish, ghosts, counts, rows
<1> QED
  BY <1>1, <1>2, <1>3 DEF Typed

\* Steps that write the row or the log, or mail.
LEMMA WritingTypes ==
  ASSUME Typed, NEW d \in Drainers,
         MarkSending(d) \/ Send(d) \/ LogSend(d) \/ Settle(d)
  PROVE  Typed'
<1>0. pass[d].pc \in {"mark", "send", "log", "settle"} /\ pass[d].pc # "idle"
  BY DEF MarkSending, Send, LogSend, Settle
<1>1. Threads'
  <2>1. CASE MarkSending(d)
    BY <2>1, GoesOn DEF Typed, MarkSending, PCs, OnWalk
  <2>2. CASE Send(d)
    <3>1. PICK b \in BOOLEAN : pass' = [pass EXCEPT ![d].pc = "log", ![d].ok = b]
      BY <2>2 DEF Send
    <3> DEFINE t == [pass[d] EXCEPT !.pc = "log", !.ok = b]
    <3>2. t \in Pass /\ Fit(t)
      BY <1>0, <2>2, InHandler DEF Typed, Threads, Send, Fit, OnWalk, Pass, PCs
    <3> QED
      BY <3>1, <3>2, ThreadsKept DEF Typed
  <2>3. CASE LogSend(d)
    <3> DEFINE t == [pass[d] EXCEPT !.pc = "walk", !.tried = @ + 1]
    <3>1. t \in Pass /\ Fit(t)
      BY <1>0, <2>3, InHandler DEF Typed, Threads, LogSend, Fit, OnWalk, Pass, PCs
    <3> QED
      BY <2>3, <3>1, ThreadsKept DEF Typed, LogSend
  <2>4. CASE Settle(d)
    BY <2>4, EndsWell DEF Typed, Settle
  <2> QED
    BY <2>1, <2>2, <2>3, <2>4
<1>2. Generators'
  BY DEF Typed, Generators, Listed, MarkSending, Send, LogSend, Settle, memory
<1>3. Tables'
  <2>1. /\ pass[d].campaign \in Campaigns /\ pass[d].status \in Statuses
        /\ pass[d].pc \in {"send", "log"} => pass[d].to \in People
    BY <1>0, InHandler DEF Typed, Pass
  <2>2. CASE MarkSending(d)
    BY <2>1, <2>2 DEF Typed, Tables, MarkSending, ghosts, counts, Statuses
  <2>3. CASE Send(d)
    BY <2>1, <2>3 DEF Typed, Tables, Send, rows, counts
  <2>4. CASE LogSend(d)
    BY <2>1, <2>4 DEF Typed, Tables, LogSend, ghosts, counts, Entries
  <2>5. CASE Settle(d)
    BY <2>1, <2>5 DEF Typed, Tables, Settle, ghosts, counts
  <2> QED
    BY <2>2, <2>3, <2>4, <2>5
<1> QED
  BY <1>1, <1>2, <1>3 DEF Typed

\* Steps that open a walk: room is made, or the walk kept is taken up,
LEMMA OpenTypes ==
  ASSUME Typed, NEW d \in Drainers, OpenStream(d)
  PROVE  Typed'
<1> DEFINE c == pass[d].campaign
           old == [pass[d] EXCEPT !.pc = "walk", !.walk = walks[c]]
<1>1. c \in Campaigns /\ pass[d] \in Pass /\ pass[d].pc = "open"
  BY InHandler DEF Typed, OpenStream
<1>2. Tables'
  BY DEF Typed, Tables, OpenStream, ghosts, counts, rows
<1>3. UNCHANGED <<walks, left, skip>>
  BY DEF OpenStream
<1>4. CASE Listed(c) /\ UNCHANGED streams /\ pass' = [pass EXCEPT ![d] = old]
  <2>1. walks[c] \in Walks /\ walks[c] \in Nat
    BY <1>1, <1>4, Limits DEF Typed, Generators, Walks
  <2>2. old \in Pass
    BY <1>1, <2>1 DEF Pass, PCs
  <2>3. Fit(old)
    BY <1>1, <2>1, Limits DEF Fit, OnWalk, Pass
  <2>4. Threads'
    BY <1>4, <2>2, <2>3, ThreadsKept DEF Typed
  <2>5. Generators'
    BY <1>3, <1>4 DEF Typed, Generators, Listed
  <2> QED
    BY <1>2, <2>4, <2>5 DEF Typed
<1>5. CASE Goto(d, "build") /\ streams' = Room
  <2>1. Threads'
    BY <1>1, <1>5, GoesOn DEF Typed, PCs, OnWalk
  <2>2. Generators'
    BY <1>3, <1>5, RoomDictionary DEF Typed, Generators, Listed, Dictionary
  <2> QED
    BY <1>2, <2>1, <2>2 DEF Typed
<1>6. \/ Listed(c) /\ UNCHANGED streams /\ pass' = [pass EXCEPT ![d] = old]
      \/ Goto(d, "build") /\ streams' = Room
  BY DEF OpenStream
<1> HIDE DEF c, old
<1> QED
  BY <1>4, <1>5, <1>6

\* the addresses to skip are read,
LEMMA ReadSentTypes ==
  ASSUME Typed, NEW d \in Drainers, ReadSent(d)
  PROVE  Typed'
<1> DEFINE t == [pass[d] EXCEPT !.pc = "insert", !.sent = SentTo(pass[d].campaign)]
<1>1. pass[d] \in Pass /\ pass[d].pc = "build" /\ pass[d].campaign \in Campaigns
  BY InHandler DEF Typed, ReadSent
<1>2. SentTo(pass[d].campaign) \in SUBSET People
  BY DEF SentTo
<1>3. t \in Pass
  BY <1>1, <1>2 DEF Pass, PCs
<1>4. Fit(t)
  BY <1>1, Limits DEF Fit, OnWalk, Pass
<1>5. Threads'
  BY <1>3, <1>4, ThreadsKept DEF Typed, ReadSent
<1>6. Tables'
  BY DEF Typed, Tables, ReadSent, ghosts, counts, rows
<1>7. Generators'
  BY DEF Typed, Generators, Listed, ReadSent, memory
<1> QED
  BY <1>5, <1>6, <1>7 DEF Typed

\* and the walk is listed.
LEMMA InsertTypes ==
  ASSUME Typed, NEW d \in Drainers, InsertStream(d)
  PROVE  Typed'
<1> DEFINE c == pass[d].campaign
           n == walks[c] + 1
           new == [pass[d] EXCEPT !.pc = "walk", !.walk = n, !.sent = {}]
<1>1. /\ c \in Campaigns /\ pass[d] \in Pass /\ pass[d].pc = "insert"
      /\ walks[c] < MaxWalks /\ walks[c] \in Nat
  BY InHandler, Limits DEF Typed, Generators, InsertStream
<1>2. n \in Walks /\ n \in Nat /\ n > 0
  BY <1>1, Limits DEF Walks
<1>3. Threads'
  <2>1. new \in Pass
    BY <1>1, <1>2 DEF Pass, PCs
  <2>2. Fit(new)
    BY <1>1, <1>2, Limits DEF Fit, OnWalk, Pass
  <2> QED
    BY <2>1, <2>2, ThreadsKept DEF Typed, InsertStream
<1>4. Tables'
  BY DEF Typed, Tables, InsertStream, ghosts, counts, rows
<1>5. /\ Dictionary(streams') /\ \A e \in Campaigns : Listed(e)' => e = c \/ Listed(e)
  BY <1>1, AppendDictionary DEF Typed, Generators, Listed, InsertStream
<1>6. pass[d].sent \subseteq People
  BY <1>1 DEF Pass
<1>7. /\ walks' = [walks EXCEPT ![c] = n]
      /\ left' = [left EXCEPT ![c][n] = People]
      /\ skip' = [skip EXCEPT ![c][n] = pass[d].sent]
  BY DEF InsertStream
<1> HIDE DEF c, n
<1>8. walks' \in [Campaigns -> 0..MaxWalks] /\ walks'[c] > 0
      /\ \A e \in Campaigns \ {c} : walks'[e] = walks[e]
  BY <1>1, <1>2, <1>7, Limits DEF Typed, Generators, Walks
<1>9. left' \in [Campaigns -> [Walks -> SUBSET People]]
      /\ skip' \in [Campaigns -> [Walks -> SUBSET People]]
  BY <1>1, <1>2, <1>6, <1>7 DEF Typed, Generators
<1>10. Generators'
  BY <1>5, <1>8, <1>9 DEF Typed, Generators, Dictionary
<1> QED
  BY <1>3, <1>4, <1>10 DEF Typed

\* An address taken from a walk keeps the types.
LEMMA NextAddressTypes ==
  ASSUME Typed, NEW d \in Drainers, NEW p \in People, NextAddress(d, p)
  PROVE  Typed'
<1> DEFINE c == pass[d].campaign
           n == pass[d].walk
           t == [pass[d] EXCEPT
                   !.pc = IF pass[d].tried >= PassBudget THEN "count"
                          ELSE IF p \in skip[c][n] THEN "walk" ELSE "ask",
                   !.to = p]
<1>1. pass[d].pc = "walk" /\ c \in Campaigns /\ n \in Walks /\ pass[d] \in Pass
  BY InHandler DEF Typed, NextAddress, OnWalk
<1>2. t \in Pass /\ Fit(t)
  BY <1>1 DEF Typed, Threads, Fit, Pass, PCs, OnWalk
<1>3. Threads'
  BY <1>2, ThreadsKept DEF Typed, NextAddress
<1> HIDE DEF t
<1>4. Tables'
  BY <1>1 DEF Typed, Tables, NextAddress, counts, rows
<1>5. Generators'
  <2>1. left' \in [Campaigns -> [Walks -> SUBSET People]]
    BY <1>1 DEF Typed, Generators, NextAddress
  <2> QED
    BY <2>1 DEF Typed, Generators, NextAddress, Listed
<1> QED
  BY <1>3, <1>4, <1>5 DEF Typed

\* So does a page that is skipped,
LEMMA SkipPageTypes ==
  ASSUME Typed, NEW d \in Drainers, SkipPage(d)
  PROVE  Typed'
<1> DEFINE c == pass[d].campaign
           n == pass[d].walk
<1>1. c \in Campaigns /\ n \in Walks
  BY InHandler DEF Typed, SkipPage, OnWalk
<1>2. left[c][n] \subseteq People
  BY <1>1 DEF Typed, Generators
<1>3. PICK rest \in SUBSET left[c][n] :
         /\ left' = [left EXCEPT ![c][n] = rest]
         /\ missed' = missed \cup ({c} \X (left[c][n] \ rest))
  BY DEF SkipPage
<1>4. Threads'
  BY DEF Typed, Threads, SkipPage
<1>5. Tables'
  <2>1. missed' \subseteq Campaigns \X People
    BY <1>1, <1>2, <1>3 DEF Typed, Tables
  <2> QED
    BY <2>1 DEF Typed, Tables, SkipPage, counts, rows
<1>6. Generators'
  <2>1. left' \in [Campaigns -> [Walks -> SUBSET People]]
    BY <1>1, <1>2, <1>3 DEF Typed, Generators
  <2> QED
    BY <2>1 DEF Typed, Generators, SkipPage, Listed
<1> QED
  BY <1>4, <1>5, <1>6 DEF Typed

\* the end of a pass,
LEMMA CountUpTypes ==
  ASSUME Typed, NEW d \in Drainers, CountUp(d)
  PROVE  Typed'
<1> DEFINE c == pass[d].campaign
<1>1. pass[d].pc = "count" /\ c \in Campaigns
  BY InHandler DEF Typed, CountUp
<1>2. Threads'
  BY GoesOn, EndsWell DEF Typed, CountUp, PCs, OnWalk
<1>3. Tables'
  <2>1. waiting' \in [Campaigns -> Nat]
    BY <1>1 DEF Typed, Tables, CountUp
  <2> QED
    BY <2>1 DEF Typed, Tables, CountUp, ghosts, counts, rows
<1>4. Generators'
  <2>1. streams' = streams \/ streams' = Without(c)
    BY DEF CountUp
  <2>2. Dictionary(streams') /\ \A e \in Campaigns : Listed(e)' => Listed(e)
    BY <1>1, <2>1, WithoutDictionary DEF Typed, Generators, Listed
  <2>3. UNCHANGED <<walks, left, skip>>
    BY DEF CountUp
  <2> QED
    BY <2>2, <2>3 DEF Typed, Generators, Dictionary
<1> QED
  BY <1>2, <1>3, <1>4 DEF Typed

\* a pass that raises,
LEMMA RaiseTypes ==
  ASSUME Typed, NEW d \in Drainers, Raise(d)
  PROVE  Typed'
<1> DEFINE c == pass[d].campaign
           n == pass[d].walk
<1>1. c \in Campaigns
  BY InHandler DEF Typed, Raise
<1>2. Threads'
  BY EndsWell DEF Typed, Raise
<1>3. InHand(d) \subseteq People
  BY InHandler DEF Typed, InHand
<1>4. pass[d].pc = "walk" => n \in Walks /\ left[c][n] \subseteq People
  BY <1>1, InHandler DEF Typed, Generators, OnWalk
<1>5. Tables'
  <2>1. missed' \subseteq Campaigns \X People
    BY <1>1, <1>3, <1>4 DEF Typed, Tables, Raise
  <2>2. unsure' \subseteq Campaigns \X People
    BY <1>1, InHandler DEF Typed, Tables, Raise
  <2>3. waiting' \in [Campaigns -> Nat] /\ raises' \in Nat
    BY <1>1 DEF Typed, Tables, Raise
  <2> QED
    BY <2>1, <2>2, <2>3 DEF Typed, Tables, Raise, rows
<1>6. Generators'
  <2>1. left' \in [Campaigns -> [Walks -> SUBSET People]]
    <3>1. left \in [Campaigns -> [Walks -> SUBSET People]]
      BY DEF Typed, Generators
    <3>2. CASE pass[d].pc = "walk" /\ left' = [left EXCEPT ![c][n] = {}]
      <4>1. n \in Walks
        BY <1>4, <3>2
      <4> HIDE DEF c, n
      <4> QED
        BY <1>1, <3>1, <3>2, <4>1
    <3> QED
      BY <3>1, <3>2 DEF Raise
  <2> QED
    BY <2>1 DEF Typed, Generators, Raise, Listed
<1> QED
  BY <1>2, <1>5, <1>6 DEF Typed

\* and a restart.
LEMMA RestartTypes ==
  ASSUME Typed, Restart
  PROVE  Typed'
<1>1. Threads'
  BY IdleFits DEF Threads, Restart
<1>2. Tables'
  <2>1. row' \in [Campaigns -> Statuses] /\ log' \in [Campaigns -> [People -> Entries]]
    BY DEF Typed, Tables, Restart, Statuses, Entries
  <2>2. cancel' \in [Campaigns -> {"no", "checked", "written"}]
        /\ waiting' \in [Campaigns -> Nat]
    BY DEF Typed, Tables, Restart
  <2>3. \A d \in Drainers : pass[d].pc = "log" =>
           pass[d].campaign \in Campaigns /\ pass[d].to \in People
    BY InHandler DEF Typed
  <2> DEFINE lost == {<<pass[d].campaign, pass[d].to>> :
                        d \in {e \in Drainers : pass[e].pc = "log"}}
  <2>4. unsure' \subseteq Campaigns \X People
    <3>1. \A x \in lost : x \in Campaigns \X People
      BY <2>3
    <3>2. unsure' = unsure \cup lost /\ unsure \subseteq Campaigns \X People
      BY DEF Typed, Tables, Restart
    <3> HIDE DEF lost
    <3> QED
      BY <3>1, <3>2
  <2> HIDE DEF lost
  <2> QED
    BY <2>1, <2>2, <2>4 DEF Typed, Tables, Restart
<1>3. Generators'
  <2>1. Dictionary(<< >>)
    BY Limits DEF Dictionary
  <2> QED
    BY <2>1 DEF Typed, Generators, Restart, Listed
<1> QED
  BY <1>1, <1>2, <1>3 DEF Typed

\* The types hold at the start,
LEMMA InitTypes == Init => Typed
<1> SUFFICES ASSUME Init PROVE Typed
  OBVIOUS
<1>1. Threads
  BY IdleFits DEF Init, Threads
<1>2. Tables
  BY DEF Init, Tables, Statuses, Entries
<1>3. Generators
  <2>1. Dictionary(<< >>)
    BY Limits DEF Dictionary
  <2> QED
    BY <2>1, Limits DEF Init, Generators, Listed
<1> QED
  BY <1>1, <1>2, <1>3 DEF Typed

\* and every step keeps them.
LEMMA NextTypes == ASSUME Typed, [Next]_vars PROVE Typed'
<1>1. CASE UNCHANGED vars
  BY <1>1 DEF vars, Typed, Threads, Tables, Generators, Listed
<1>2. ASSUME NEW d \in Drainers, Dispatch(d) PROVE Typed'
  BY <1>2, BeginTypes, MovingTypes, WritingTypes, OpenTypes, ReadSentTypes, InsertTypes,
     NextAddressTypes, SkipPageTypes, CountUpTypes, RaiseTypes DEF Dispatch
<1> QED
  BY <1>1, <1>2, OutsideTypes, RestartTypes DEF Next

------------------------------------------------------------------------------
(* The size of the dictionary.                                             *)

\* A step that neither lists a walk nor makes a thread open one.
LEMMA FitsStill ==
  ASSUME Typed, StreamsFit, Opening' \subseteq Opening,
         Len(streams') \in Nat, Len(streams') <= Len(streams)
  PROVE  StreamsFit'
<1>1. Cardinality(Opening') <= Cardinality(Opening)
  BY Counted, FS_Subset DEF Opening
<1>2. /\ Cardinality(Opening') \in Nat /\ Cardinality(Opening) \in Nat
      /\ Cardinality(Drainers) \in Nat
  BY Counted DEF Opening
<1>3. Len(streams) \in Nat
  BY DEF Typed, Generators, Dictionary
<1> QED
  BY <1>1, <1>2, <1>3, Limits DEF StreamsFit

\* A thread that opens a walk has made room for it, or is one of those for whom
\* there is room.
LEMMA OpenFits ==
  ASSUME Typed, StreamsFit, NEW d \in Drainers, OpenStream(d)
  PROVE  StreamsFit'
<1> DEFINE c == pass[d].campaign
<1>1. pass \in [Drainers -> Pass] /\ pass[d].pc = "open" /\ Dictionary(streams)
  BY DEF Typed, Threads, Generators, OpenStream
<1>2. Len(streams) \in Nat
  BY <1>1 DEF Dictionary
<1>3. CASE Listed(c)
  <2>1. Opening' \subseteq Opening /\ streams' = streams
    BY <1>1, <1>3 DEF Opening, OpenStream, Pass
  <2> QED
    BY <1>2, <2>1, FitsStill
<1>4. CASE ~Listed(c)
  <2>1. Opening' = Opening \cup {d} /\ d \notin Opening /\ streams' = Room
    BY <1>1, <1>4 DEF Opening, OpenStream, Goto, Pass
  <2>2. Cardinality(Opening') = Cardinality(Opening) + 1
    BY <2>1, Counted, FS_AddElement DEF Opening
  <2>3. /\ Cardinality(Opening) \in Nat /\ Cardinality(Drainers) \in Nat
        /\ Cardinality(Opening') <= Cardinality(Drainers)
    BY Counted DEF Opening
  <2>4. \/ Len(streams) >= MaxStreams /\ Len(streams') = Len(streams) - 1
        \/ Len(streams) < MaxStreams /\ Len(streams') = Len(streams)
    BY <1>1, <2>1, RoomDictionary
  <2> QED
    BY <1>2, <2>2, <2>3, <2>4, Limits DEF StreamsFit
<1> QED
  BY <1>3, <1>4

\* It takes the place it made,
LEMMA InsertFits ==
  ASSUME Typed, StreamsFit, NEW d \in Drainers, InsertStream(d)
  PROVE  StreamsFit'
<1>1. pass \in [Drainers -> Pass] /\ pass[d].pc = "insert" /\ Dictionary(streams)
      /\ pass[d].campaign \in Campaigns
  BY InHandler DEF Typed, Threads, Generators, InsertStream
<1>2. Len(streams) \in Nat
  BY <1>1 DEF Dictionary
<1>3. Opening' = Opening \ {d} /\ d \in Opening
  BY <1>1 DEF Opening, InsertStream, Pass
<1>4. Cardinality(Opening') = Cardinality(Opening) - 1
  BY <1>3, Counted, FS_RemoveElement DEF Opening
<1>5. Len(streams') = Len(streams) \/ Len(streams') = Len(streams) + 1
  BY <1>1, AppendDictionary DEF InsertStream
<1>6. Cardinality(Opening) \in Nat /\ Cardinality(Drainers) \in Nat
  BY Counted DEF Opening
<1> QED
  BY <1>2, <1>4, <1>5, <1>6, Limits DEF StreamsFit

\* No thread begins to open a walk.
NoneOpens == Opening' \subseteq Opening

\* and no other step of a pass needs one.
LEMMA PassFits ==
  ASSUME Typed, StreamsFit, NEW d \in Drainers,
         \/ \E c \in Campaigns : Begin(d, c) \/ BeginSame(d, c)
         \/ ReadRow(d) \/ MarkSending(d) \/ ReadSent(d)
         \/ \E p \in People : NextAddress(d, p)
         \/ SkipPage(d) \/ WalkOver(d) \/ AskCancelled(d) \/ Send(d)
         \/ LogSend(d) \/ CountUp(d) \/ Finish(d) \/ Settle(d) \/ Raise(d)
  PROVE  StreamsFit'
<1>1. pass \in [Drainers -> Pass] /\ Dictionary(streams) /\ Len(streams) \in Nat
  BY DEF Typed, Threads, Generators, Dictionary
<1>2. NoneOpens
  <2>1. \A pc : pc \notin {"build", "insert"} /\ Goto(d, pc) => NoneOpens
    BY <1>1 DEF Goto, Pass, Opening, NoneOpens
  <2>2. (End(d) => NoneOpens) /\ (UNCHANGED pass => NoneOpens)
    BY <1>1 DEF End, Idle, Opening, NoneOpens
  <2>3. \A c \in Campaigns : Starts(d, c) => NoneOpens
    BY <1>1 DEF Starts, Idle, Opening, NoneOpens
  <2>4. ASSUME NEW c \in Campaigns, Begin(d, c) \/ BeginSame(d, c) PROVE NoneOpens
    BY <2>3, <2>4 DEF Begin, BeginSame
  <2>5. CASE ReadRow(d) \/ MarkSending(d) \/ WalkOver(d) \/ AskCancelled(d)
    BY <2>5, <2>1, <2>2 DEF ReadRow, MarkSending, WalkOver, AskCancelled
  <2>6. CASE SkipPage(d) \/ CountUp(d) \/ Settle(d) \/ Raise(d)
    BY <2>6, <2>1, <2>2 DEF SkipPage, CountUp, Settle, Raise
  <2>7. CASE ReadSent(d)
    BY <1>1, <2>7 DEF ReadSent, Pass, Opening, NoneOpens
  <2>8. ASSUME NEW p \in People, NextAddress(d, p) PROVE NoneOpens
    BY <1>1, <2>8 DEF NextAddress, Pass, Opening, NoneOpens
  <2>9. CASE Send(d) \/ LogSend(d) \/ Finish(d)
    <3>1. pass'[d].pc \in {"log", "walk", "settle"}
      BY <1>1, <2>9 DEF Send, LogSend, Finish, Pass
    <3>2. \A e \in Drainers : e # d => pass'[e] = pass[e]
      BY <1>1, <2>9 DEF Send, LogSend, Finish
    <3> QED
      BY <3>1, <3>2 DEF Opening, NoneOpens
  <2> QED
    BY <2>4, <2>5, <2>6, <2>7, <2>8, <2>9
<1>3. \/ streams' = streams
      \/ pass[d].pc = "count" /\ streams' = Without(pass[d].campaign)
  BY DEF Begin, BeginSame, ReadRow, MarkSending, ReadSent, NextAddress, SkipPage, WalkOver,
     AskCancelled, Send, LogSend, CountUp, Finish, Settle, Raise, memory
<1>4. Len(streams') \in Nat /\ Len(streams') <= Len(streams)
  <2>1. pass[d].pc = "count" => pass[d].campaign \in Campaigns
    BY InHandler DEF Typed
  <2> QED
    BY <1>1, <1>3, <2>1, WithoutDictionary DEF Dictionary
<1> QED
  BY <1>2, <1>4, FitsStill DEF NoneOpens

\* The dictionary stays near its size.
LEMMA NextFits == ASSUME Typed, StreamsFit, [Next]_vars PROVE StreamsFit'
<1>1. Len(streams) \in Nat
  BY DEF Typed, Generators, Dictionary
<1>2. CASE UNCHANGED vars
  BY <1>2 DEF vars, StreamsFit, Opening
<1>3. ASSUME NEW c \in Campaigns, Queue(c) \/ CheckCancel(c) \/ WriteCancel(c)
      PROVE  StreamsFit'
  BY <1>3 DEF Queue, CheckCancel, WriteCancel, memory, StreamsFit, Opening
<1>4. ASSUME NEW d \in Drainers, Dispatch(d) PROVE StreamsFit'
  BY <1>4, OpenFits, InsertFits, PassFits DEF Dispatch
<1>5. CASE Restart
  <2>1. Opening' \subseteq Opening /\ Len(streams') = 0
    BY <1>5 DEF Restart, Opening, Idle
  <2> QED
    BY <1>1, <2>1, FitsStill
<1> QED
  BY <1>2, <1>3, <1>4, <1>5 DEF Next

\* At the start nothing is listed or opened.
LEMMA InitFits == Init => StreamsFit
<1> SUFFICES ASSUME Init PROVE StreamsFit
  OBVIOUS
<1>1. Opening = {} /\ Len(streams) = 0
  BY DEF Init, Idle, Opening
<1>2. Cardinality(Opening) = 0 /\ Cardinality(Drainers) \in Nat
  BY <1>1, Counted, FS_EmptySet
<1> QED
  BY <1>1, <1>2, Limits DEF StreamsFit

(***************************************************************************)
(* Types, whether or not two threads may take one job; the dictionary of   *)
(* walks lists no campaign twice, and outgrows its size by one walk for    *)
(* each further thread at most, though every thread looks at the size      *)
(* before it reads the log and adds its walk only after.                   *)
(***************************************************************************)
THEOREM BroadcastTypes == Spec => []TypeOK
<1>1. Typed /\ StreamsFit /\ [Next]_vars => Typed' /\ StreamsFit'
  BY NextTypes, NextFits
<1> QED
  BY InitTypes, InitFits, <1>1, TypedIs, PTL DEF Spec

------------------------------------------------------------------------------
(* The broadcasts do not disturb each other.                               *)

Well(c) == Waits(c) \/ \E d \in Drainers : Runs(d, c)

\* A step of campaign k: nothing of another one changes, but for what is unsure
\* or missed, which only grows.
StepOf(k) ==
    /\ \A c \in Campaigns : c # k =>
          /\ row'[c] = row[c] /\ log'[c] = log[c] /\ waiting'[c] = waiting[c]
          /\ walks'[c] = walks[c] /\ left'[c] = left[c] /\ skip'[c] = skip[c]
          /\ mailed'[c] = mailed[c]
    /\ unsure \subseteq unsure' /\ missed \subseteq missed'
    /\ \A d \in Drainers :
          pass'[d] = pass[d] \/ {pass[d].campaign, pass'[d].campaign} \subseteq {k, NoCampaign}

\* Another campaign's step keeps what holds of a campaign.
LEMMA ApartKept ==
  ASSUME NEW k, StepOf(k), NEW c \in Campaigns, c # k, Well(c)
  PROVE  Well(c)'
<1>1. /\ row'[c] = row[c] /\ log'[c] = log[c] /\ waiting'[c] = waiting[c]
      /\ walks'[c] = walks[c] /\ left'[c] = left[c] /\ skip'[c] = skip[c]
      /\ mailed'[c] = mailed[c]
      /\ unsure \subseteq unsure' /\ missed \subseteq missed'
  BY DEF StepOf
<1>2. \A d \in Drainers : \/ pass'[d] = pass[d]
                          \/ pass[d].campaign # c /\ pass'[d].campaign # c
  BY Limits DEF StepOf
<1>3. \A p \in People : Recorded(c, p) => Recorded(c, p)'
  BY <1>1 DEF Recorded
<1>4. CASE Waits(c)
  <2>1. Nobody(c)'
    BY <1>2, <1>4 DEF Waits, Nobody
  <2>2. \A p \in People : Reported(c, p)' /\ (Kept(c, p, {}) => Kept(c, p, {})')
    BY <1>1, <1>3, <1>4 DEF Waits, Reported, Kept
  <2>3. \A p \in People : Past(c, p) => Past(c, p)'
    BY <1>1 DEF Past
  <2> QED
    BY <1>1, <1>4, <2>1, <2>2, <2>3 DEF Waits, Well
<1>5. ASSUME NEW d \in Drainers, Runs(d, c) PROVE Well(c)'
  <2>1. pass'[d] = pass[d] /\ pass[d].campaign = c
    BY <1>2, <1>5 DEF Runs, Alone
  <2>2. Alone(d, c)'
    BY <1>2, <1>5, <2>1 DEF Runs, Alone
  <2>3. Placed(d, c)'
    BY <1>1, <1>3, <1>5, <2>1 DEF Runs, Placed, SentTo
  <2>4. InHand(d)' = InHand(d)
    BY <2>1 DEF InHand
  <2>5. \A p \in People : Reported(c, p)' /\ (Kept(c, p, InHand(d)) => Kept(c, p, InHand(d))')
    BY <1>1, <1>3, <1>5, <2>4 DEF Runs, Reported, Kept
  <2>6. \A p \in People : Past(c, p) => Past(c, p)'
    BY <1>1 DEF Past
  <2>7. Runs(d, c)'
    BY <1>1, <1>5, <2>1, <2>2, <2>3, <2>5, <2>6 DEF Runs
  <2> QED
    BY <2>7 DEF Well
<1> QED
  BY <1>4, <1>5 DEF Well

\* The admin's steps are steps of a campaign.
LEMMA OutsideStep ==
  ASSUME Typed, NEW k \in Campaigns, Queue(k) \/ CheckCancel(k) \/ WriteCancel(k)
  PROVE  StepOf(k)
  BY DEF Typed, Tables, Queue, CheckCancel, WriteCancel, StepOf, memory, ghosts, rows

\* So is a pass that begins,
LEMMA BeginStep ==
  ASSUME Typed, NEW d \in Drainers, NEW k \in Campaigns, Begin(d, k)
  PROVE  StepOf(k)
<1>1. pass[d].campaign = NoCampaign
  BY DEF Typed, Threads, Fit, Begin
<1>2. \A e \in Drainers : IF e = d THEN pass'[e].campaign = k ELSE pass'[e] = pass[e]
  BY DEF Typed, Threads, Begin, Starts, Idle
<1> QED
  BY <1>1, <1>2 DEF Typed, Tables, Begin, StepOf, memory, ghosts, rows

\* and every other step of a pass is one of its campaign.
LEMMA PassStep ==
  ASSUME Typed, NEW d \in Drainers,
         \/ ReadRow(d) \/ MarkSending(d)
         \/ OpenStream(d) \/ ReadSent(d) \/ InsertStream(d)
         \/ \E p \in People : NextAddress(d, p)
         \/ SkipPage(d) \/ WalkOver(d) \/ AskCancelled(d) \/ Send(d)
         \/ LogSend(d) \/ CountUp(d) \/ Finish(d) \/ Settle(d) \/ Raise(d)
  PROVE  StepOf(pass[d].campaign)
<1> DEFINE k == pass[d].campaign
<1>1. pass \in [Drainers -> Pass]
  BY DEF Typed, Threads
<1> DEFINE Self == \A e \in Drainers : IF e = d THEN pass'[e].campaign \in {k, NoCampaign}
                                             ELSE pass'[e] = pass[e]
<1>2. Self
  <2>1. \A pc : Goto(d, pc) => Self
    BY <1>1 DEF Goto, Pass
  <2>2. (End(d) => Self) /\ (UNCHANGED pass => Self)
    BY <1>1 DEF End, Idle
  <2> HIDE DEF Self
  <2>3. CASE ReadRow(d) \/ MarkSending(d) \/ WalkOver(d) \/ AskCancelled(d)
    BY <2>3, <2>1, <2>2 DEF ReadRow, MarkSending, WalkOver, AskCancelled
  <2>4. CASE SkipPage(d) \/ CountUp(d) \/ Settle(d) \/ Raise(d)
    BY <2>4, <2>1, <2>2 DEF SkipPage, CountUp, Settle, Raise
  <2>5. CASE OpenStream(d)
    BY <1>1, <2>1, <2>5 DEF OpenStream, Pass, Self
  <2>6. ASSUME NEW p \in People, NextAddress(d, p) PROVE Self
    BY <1>1, <2>6 DEF NextAddress, Pass, Self
  <2>7. CASE Send(d) \/ LogSend(d) \/ Finish(d) \/ ReadSent(d) \/ InsertStream(d)
    BY <1>1, <2>7 DEF Send, LogSend, Finish, ReadSent, InsertStream, Pass, Self
  <2> QED
    BY <2>3, <2>4, <2>5, <2>6, <2>7
<1>3. row \in [Campaigns -> Statuses] /\ log \in [Campaigns -> [People -> Entries]]
      /\ waiting \in [Campaigns -> Nat] /\ walks \in [Campaigns -> 0..MaxWalks]
      /\ left \in [Campaigns -> [Walks -> SUBSET People]]
      /\ skip \in [Campaigns -> [Walks -> SUBSET People]]
      /\ mailed \in [Campaigns -> [People -> Nat]]
  BY DEF Typed, Tables, Generators
<1>4. \A c \in Campaigns : c # k =>
         /\ row'[c] = row[c] /\ log'[c] = log[c] /\ waiting'[c] = waiting[c]
         /\ walks'[c] = walks[c] /\ left'[c] = left[c] /\ skip'[c] = skip[c]
         /\ mailed'[c] = mailed[c]
  <2> HIDE DEF k
  <2>1. CASE ReadRow(d) \/ WalkOver(d) \/ AskCancelled(d) \/ Finish(d) \/ ReadSent(d)
    BY <2>1 DEF ReadRow, WalkOver, AskCancelled, Finish, ReadSent, rows, memory, ghosts
  <2>2. CASE MarkSending(d) \/ Settle(d)
    BY <1>3, <2>2 DEF MarkSending, Settle, memory, ghosts, k
  <2>3. CASE OpenStream(d) \/ InsertStream(d)
    BY <1>3, <2>3 DEF OpenStream, InsertStream, memory, ghosts, rows, k
  <2>4. ASSUME NEW p \in People, NextAddress(d, p)
        PROVE  \A c \in Campaigns : c # k =>
                  /\ row'[c] = row[c] /\ log'[c] = log[c] /\ waiting'[c] = waiting[c]
                  /\ walks'[c] = walks[c] /\ left'[c] = left[c] /\ skip'[c] = skip[c]
                  /\ mailed'[c] = mailed[c]
    BY <1>3, <2>4 DEF NextAddress, rows, k
  <2>5. CASE SkipPage(d)
    BY <1>3, <2>5 DEF SkipPage, rows, k
  <2>6. CASE Send(d)
    BY <1>3, <2>6 DEF Send, rows, memory, k
  <2>7. CASE LogSend(d)
    BY <1>3, <2>7 DEF LogSend, memory, ghosts, k
  <2>8. CASE CountUp(d)
    BY <1>3, <2>8 DEF CountUp, rows, ghosts, k
  <2>9. CASE Raise(d)
    BY <1>3, <2>9 DEF Raise, rows, k
  <2> QED
    BY <2>1, <2>2, <2>3, <2>4, <2>5, <2>6, <2>7, <2>8, <2>9
<1>5. unsure \subseteq unsure' /\ missed \subseteq missed'
  BY DEF ReadRow, MarkSending, OpenStream, ReadSent, InsertStream, NextAddress, SkipPage,
     WalkOver, AskCancelled, Send, LogSend, CountUp, Finish, Settle, Raise, ghosts
<1>6. \A e \in Drainers :
         pass'[e] = pass[e] \/ {pass[e].campaign, pass'[e].campaign} \subseteq {k, NoCampaign}
  BY <1>2
<1> HIDE DEF k
<1>7. StepOf(k)
  BY <1>4, <1>5, <1>6 DEF StepOf
<1> QED
  BY <1>7 DEF k

------------------------------------------------------------------------------
(* What a step does to its own campaign.                                   *)

\* A thread in the handler is the only one in its campaign.
LEMMA InItsOwn ==
  ASSUME Typed, NEW d \in Drainers, pass[d].pc # "idle", Well(pass[d].campaign)
  PROVE  pass[d].campaign \in Campaigns /\ Runs(d, pass[d].campaign)
<1>1. pass[d].campaign \in Campaigns
  BY InHandler DEF Typed
<1>2. \A e \in Drainers : Runs(e, pass[d].campaign) => e = d
  BY DEF Runs, Alone
<1> QED
  BY <1>1, <1>2 DEF Well, Waits, Nobody

\* While it stays in the campaign it is still alone there,
LEMMA StaysAlone ==
  ASSUME Typed, NEW d \in Drainers, Runs(d, pass[d].campaign),
         pass'[d].campaign = pass[d].campaign,
         \A e \in Drainers : e # d => pass'[e] = pass[e]
  PROVE  Alone(d, pass[d].campaign)'
  BY DEF Runs, Alone

\* and when it leaves nobody is.
LEMMA LeavesNobody ==
  ASSUME Typed, NEW d \in Drainers, NEW c \in Campaigns, Runs(d, c), End(d)
  PROVE  Nobody(c)'
  BY Limits DEF Typed, Threads, Runs, Alone, Nobody, End, Idle

\* What a thread that goes on keeps.
LEMMA GotoMoves ==
  ASSUME Typed, NEW d \in Drainers, NEW pc, Goto(d, pc)
  PROVE  /\ pass'[d].pc = pc /\ pass'[d].campaign = pass[d].campaign
         /\ pass'[d].walk = pass[d].walk /\ pass'[d].tried = pass[d].tried
         /\ pass'[d].to = pass[d].to /\ pass'[d].ok = pass[d].ok
         /\ \A e \in Drainers : e # d => pass'[e] = pass[e]
  BY DEF Typed, Threads, Pass, Goto

\* What is needed to run on.
LEMMA RunsOn ==
  ASSUME NEW d \in Drainers, NEW c \in Campaigns, Alone(d, c)', Placed(d, c)',
         waiting'[c] = 0, row'[c] # "none",
         \A p \in People : mailed'[c][p] > 0 /\ <<c, p>> \notin unsure' =>
            /\ mailed'[c][p] = 1 /\ Past(c, p)'
            /\ \/ log'[c][p] = "sent"
               \/ pass'[d].to = p /\ pass'[d].pc = "log" /\ pass'[d].ok
            /\ pass'[d].to = p => /\ pass'[d].pc \notin {"ask", "send"}
                                  /\ pass'[d].pc = "log" => pass'[d].ok,
         \A p \in People : Kept(c, p, InHand(d))' /\ Reported(c, p)'
  PROVE  Well(c)'
<1>1. Runs(d, c)'
  BY DEF Runs
<1> QED
  BY <1>1 DEF Well

\* The row is read: the pass ends, or goes on.
LEMMA ReadRowOwn ==
  ASSUME Typed, NEW d \in Drainers, NEW c \in Campaigns, c = pass[d].campaign,
         Runs(d, c), ReadRow(d)
  PROVE  Well(c)'
<1>1. /\ UNCHANGED <<row, log, waiting, walks, left, skip, mailed, unsure, missed>>
      /\ pass[d].pc = "read"
  BY DEF ReadRow, rows, memory, ghosts
<1>2. \A p \in People : Recorded(c, p)' = Recorded(c, p) /\ Past(c, p)' = Past(c, p)
                        /\ Reported(c, p)' = Reported(c, p)
  BY <1>1 DEF Recorded, Past, Reported
<1>3. CASE row[c] \in {"none", "cancelled"}
  <2>1. Nobody(c)'
    BY <1>3, LeavesNobody DEF ReadRow
  <2> QED
    BY <1>1, <1>2, <2>1 DEF Runs, Waits, Well
<1>4. CASE row[c] \notin {"none", "cancelled"}
  <2>1. PICK pc \in {"mark", "open"} : Goto(d, pc)
    BY <1>4 DEF ReadRow
  <2>2. Alone(d, c)'
    BY <2>1, GotoMoves, StaysAlone
  <2>3. InHand(d) = {} /\ InHand(d)' = {}
    BY <1>1, <2>1, GotoMoves DEF InHand
  <2>4. \A p \in People : Kept(c, p, InHand(d))' = Kept(c, p, InHand(d))
    BY <1>1, <1>2, <2>3 DEF Kept
  <2>5. Placed(d, c)'
    BY <2>1, GotoMoves DEF Placed, OnWalk
  <2>6. Runs(d, c)'
    BY <1>1, <1>2, <1>4, <2>1, <2>2, <2>4, <2>5, GotoMoves DEF Runs
  <2> QED
    BY <2>6 DEF Well
<1> QED
  BY <1>3, <1>4

\* The walk is over, or the cancel has been seen, or the mail may go out.
LEMMA MovesOwn ==
  ASSUME Typed, NEW d \in Drainers, NEW c \in Campaigns, c = pass[d].campaign,
         Runs(d, c), WalkOver(d) \/ AskCancelled(d)
  PROVE  Well(c)'
<1>1. /\ UNCHANGED <<row, log, waiting, walks, left, skip, mailed, unsure, missed>>
      /\ pass[d].pc \in {"walk", "ask"}
  BY DEF WalkOver, AskCancelled, rows, memory, ghosts
<1>2. \A p \in People : Recorded(c, p)' = Recorded(c, p) /\ Past(c, p)' = Past(c, p)
                        /\ Reported(c, p)' = Reported(c, p)
  BY <1>1 DEF Recorded, Past, Reported
<1>3. PICK pc \in {"count", "send"} : Goto(d, pc)
  BY DEF WalkOver, AskCancelled
<1>4. Alone(d, c)'
  BY <1>3, GotoMoves, StaysAlone
<1>5. pass[d].walk \in Walks /\ pass[d].walk = walks[c] /\ walks[c] > 0
  BY <1>1, InHandler DEF Typed, Runs, Placed, OnWalk, Walks
<1>6. CASE WalkOver(d)
  <2>1. pc = "count" /\ left[c][walks[c]] = {} /\ pass[d].pc = "walk"
    BY <1>3, <1>5, <1>6, GotoMoves DEF WalkOver
  <2>2. Placed(d, c)'
    BY <1>1, <1>3, <1>5, <2>1, GotoMoves DEF Placed, OnWalk
  <2>3. InHand(d) = {} /\ InHand(d)' = {}
    BY <1>3, <2>1, GotoMoves DEF InHand
  <2>4. \A p \in People : Kept(c, p, InHand(d))' = Kept(c, p, InHand(d))
    BY <1>1, <1>2, <2>3 DEF Kept
  <2>5. Runs(d, c)'
    BY <1>1, <1>2, <1>3, <1>4, <2>1, <2>2, <2>4, GotoMoves DEF Runs
  <2> QED
    BY <2>5 DEF Well
<1>7. CASE AskCancelled(d) /\ row[c] = "cancelled"
  <2>1. pc = "count" /\ pass[d].pc = "ask"
    BY <1>3, <1>7, GotoMoves DEF AskCancelled
  <2>2. Placed(d, c)'
    BY <1>1, <1>3, <1>7, <2>1, GotoMoves DEF Placed, OnWalk
  <2>3. Runs(d, c)'
    BY <1>1, <1>2, <1>3, <1>4, <1>7, <2>1, <2>2, GotoMoves DEF Runs
  <2> QED
    BY <2>3 DEF Well
<1>8. CASE AskCancelled(d) /\ row[c] # "cancelled"
  <2>1. pc = "send" /\ pass[d].pc = "ask"
    BY <1>3, <1>8, GotoMoves DEF AskCancelled
  <2>2. Placed(d, c)'
    BY <1>1, <1>3, <2>1, GotoMoves DEF Runs, Placed, OnWalk
  <2>3. InHand(d)' = InHand(d)
    BY <1>3, <2>1, GotoMoves DEF InHand
  <2>4. \A p \in People : Kept(c, p, InHand(d))' = Kept(c, p, InHand(d))
    BY <1>1, <1>2, <2>3 DEF Kept
  <2>5. Runs(d, c)'
    BY <1>1, <1>2, <1>3, <1>4, <1>8, <2>1, <2>2, <2>4, GotoMoves DEF Runs
  <2> QED
    BY <2>5 DEF Well
<1> QED
  BY <1>6, <1>7, <1>8

\* The final status is worked out when everyone is recorded,
LEMMA FinishOwn ==
  ASSUME Typed, NEW d \in Drainers, NEW c \in Campaigns, c = pass[d].campaign,
         Runs(d, c), Finish(d)
  PROVE  Well(c)'
<1>1. /\ UNCHANGED <<row, log, waiting, walks, left, skip, mailed, unsure, missed>>
      /\ pass[d].pc = "finish"
  BY DEF Finish, rows, memory, ghosts
<1>2. \A p \in People : Recorded(c, p)' = Recorded(c, p) /\ Past(c, p)' = Past(c, p)
                        /\ Reported(c, p)' = Reported(c, p)
  BY <1>1 DEF Recorded, Past, Reported
<1>3. /\ pass'[d].pc = "settle" /\ pass'[d].campaign = c
      /\ pass'[d].to = pass[d].to
      /\ \A e \in Drainers : e # d => pass'[e] = pass[e]
  BY DEF Typed, Threads, Pass, Finish
<1>4. Alone(d, c)'
  BY <1>3, StaysAlone
<1>5. InHand(d) = {} /\ InHand(d)' = {}
  BY <1>1, <1>3 DEF InHand
<1>6. \A p \in People : Kept(c, p, InHand(d))' = Kept(c, p, InHand(d))
  BY <1>1, <1>2, <1>5 DEF Kept
<1>7. Placed(d, c)'
  BY <1>1, <1>2, <1>3 DEF Runs, Placed, OnWalk
<1>8. Runs(d, c)'
  BY <1>1, <1>2, <1>3, <1>4, <1>6, <1>7 DEF Runs
<1> QED
  BY <1>8 DEF Well

\* and written then.
LEMMA SettleOwn ==
  ASSUME Typed, NEW d \in Drainers, NEW c \in Campaigns, c = pass[d].campaign,
         Runs(d, c), Settle(d)
  PROVE  Well(c)'
<1>1. /\ UNCHANGED <<log, waiting, walks, left, skip, mailed, unsure, missed>>
      /\ pass[d].pc = "settle"
  BY DEF Settle, memory, ghosts
<1>2. Nobody(c)'
  BY LeavesNobody DEF Settle
<1>3. \A p \in People : Recorded(c, p)' /\ Reported(c, p)' /\ Past(c, p)' = Past(c, p)
  BY <1>1 DEF Runs, Placed, Recorded, Reported, Past
<1>4. Waits(c)'
  BY <1>1, <1>2, <1>3 DEF Runs, Waits
<1> QED
  BY <1>4 DEF Well

\* The row is marked as sending.
LEMMA MarkSendingOwn ==
  ASSUME Typed, NEW d \in Drainers, NEW c \in Campaigns, c = pass[d].campaign,
         Runs(d, c), MarkSending(d)
  PROVE  Well(c)'
<1>1. /\ UNCHANGED <<log, waiting, walks, left, skip, mailed, unsure, missed>>
      /\ pass[d].pc = "mark" /\ Goto(d, "open")
  BY DEF MarkSending, memory, ghosts
<1>2. row'[c] = "sending"
  BY DEF Typed, Tables, MarkSending, Runs
<1>3. \A p \in People : Recorded(c, p)' = Recorded(c, p) /\ Past(c, p)' = Past(c, p)
                        /\ Reported(c, p)'
  BY <1>1, <1>2 DEF Recorded, Past, Reported
<1>4. Alone(d, c)'
  BY <1>1, GotoMoves, StaysAlone
<1>5. InHand(d) = {} /\ InHand(d)' = {}
  BY <1>1, GotoMoves DEF InHand
<1>6. \A p \in People : Kept(c, p, InHand(d))' = Kept(c, p, InHand(d))
  BY <1>1, <1>3, <1>5 DEF Kept
<1>7. Placed(d, c)'
  BY <1>1, GotoMoves DEF Placed, OnWalk
<1>8. Runs(d, c)'
  BY <1>1, <1>2, <1>3, <1>4, <1>6, <1>7, GotoMoves DEF Runs
<1> QED
  BY <1>8 DEF Well

\* The walk kept in memory is taken up again, or room is made for a new one,
LEMMA OpenStreamOwn ==
  ASSUME Typed, NEW d \in Drainers, NEW c \in Campaigns, c = pass[d].campaign,
         Runs(d, c), OpenStream(d)
  PROVE  Well(c)'
<1>1. /\ UNCHANGED <<row, log, waiting, walks, left, skip, mailed, unsure, missed>>
      /\ pass[d].pc = "open"
  BY DEF OpenStream, rows, ghosts
<1>2. \A p \in People : Recorded(c, p)' = Recorded(c, p) /\ Past(c, p)' = Past(c, p)
                        /\ Reported(c, p)' = Reported(c, p)
  BY <1>1 DEF Recorded, Past, Reported
<1>3. /\ pass'[d].pc \in {"walk", "build"} /\ pass'[d].campaign = c
      /\ pass'[d].pc = "walk" => pass'[d].walk = walks[c]
      /\ \A e \in Drainers : e # d => pass'[e] = pass[e]
  BY DEF Typed, Threads, Pass, OpenStream, Goto
<1>4. Alone(d, c)'
  BY <1>3, StaysAlone
<1>5. InHand(d) = {} /\ InHand(d)' = {}
  BY <1>1, <1>3 DEF InHand
<1>6. Placed(d, c)'
  BY <1>1, <1>3 DEF Placed, OnWalk
<1>7. \A p \in People : Kept(c, p, InHand(d))' = Kept(c, p, InHand(d))
  BY <1>1, <1>2, <1>5 DEF Kept
<1>8. Runs(d, c)'
  BY <1>1, <1>2, <1>3, <1>4, <1>6, <1>7 DEF Runs
<1> QED
  BY <1>8 DEF Well

\* the addresses to skip are read: nobody else writes them,
LEMMA ReadSentOwn ==
  ASSUME Typed, NEW d \in Drainers, NEW c \in Campaigns, c = pass[d].campaign,
         Runs(d, c), ReadSent(d)
  PROVE  Well(c)'
<1>1. /\ UNCHANGED <<row, log, waiting, walks, left, skip, mailed, unsure, missed>>
      /\ pass[d].pc = "build"
  BY DEF ReadSent, rows, memory, ghosts
<1>2. \A p \in People : Recorded(c, p)' = Recorded(c, p) /\ Past(c, p)' = Past(c, p)
                        /\ Reported(c, p)' = Reported(c, p)
  BY <1>1 DEF Recorded, Past, Reported
<1>3. /\ pass'[d].pc = "insert" /\ pass'[d].campaign = c /\ pass'[d].sent = SentTo(c)
      /\ \A e \in Drainers : e # d => pass'[e] = pass[e]
  BY DEF Typed, Threads, Pass, ReadSent
<1>4. Alone(d, c)'
  BY <1>3, StaysAlone
<1>5. InHand(d) = {} /\ InHand(d)' = {}
  BY <1>1, <1>3 DEF InHand
<1>6. Placed(d, c)'
  BY <1>1, <1>3 DEF Placed, OnWalk, SentTo
<1>7. \A p \in People : Kept(c, p, InHand(d))' = Kept(c, p, InHand(d))
  BY <1>1, <1>2, <1>5 DEF Kept
<1>8. Runs(d, c)'
  BY <1>1, <1>2, <1>3, <1>4, <1>6, <1>7 DEF Runs
<1> QED
  BY <1>8 DEF Well

\* and the walk listed skips those the log still has as sent.
LEMMA InsertStreamOwn ==
  ASSUME Typed, NEW d \in Drainers, NEW c \in Campaigns, c = pass[d].campaign,
         Runs(d, c), InsertStream(d)
  PROVE  Well(c)'
<1> DEFINE n == walks[c] + 1
<1>1. /\ UNCHANGED <<row, log, waiting, mailed, unsure, missed>>
      /\ pass[d].pc = "insert" /\ pass[d].sent = SentTo(c)
  BY DEF InsertStream, rows, ghosts, Runs, Placed
<1>2. \A p \in People : Recorded(c, p)' = Recorded(c, p) /\ Reported(c, p)' = Reported(c, p)
  BY <1>1 DEF Recorded, Reported
<1>3. /\ pass'[d].pc = "walk" /\ pass'[d].campaign = c /\ pass'[d].walk = n
      /\ \A e \in Drainers : e # d => pass'[e] = pass[e]
  BY DEF Typed, Threads, Pass, InsertStream
<1>4. Alone(d, c)'
  BY <1>3, StaysAlone
<1>5. InHand(d) = {} /\ InHand(d)' = {}
  BY <1>1, <1>3 DEF InHand
<1>6. \A p \in People : mailed[c][p] > 0 /\ <<c, p>> \notin unsure => log[c][p] = "sent"
  BY <1>1 DEF Runs
<1>7. /\ walks[c] < MaxWalks /\ walks' = [walks EXCEPT ![c] = n]
      /\ left' = [left EXCEPT ![c][n] = People]
      /\ skip' = [skip EXCEPT ![c][n] = SentTo(c)]
  BY <1>1 DEF InsertStream
<1>8. n \in Walks /\ n > 0
  BY <1>7, Limits DEF Typed, Generators, Walks
<1> HIDE DEF n
<1>9. walks'[c] = n /\ left'[c][n] = People /\ skip'[c][n] = SentTo(c)
  BY <1>7, <1>8 DEF Typed, Generators
<1>10. Placed(d, c)'
  BY <1>3, <1>9 DEF Placed, OnWalk
<1>11. \A p \in People : /\ p \in SentTo(c) <=> log[c][p] = "sent"
                         /\ p \in SentTo(c) => Recorded(c, p)
  BY DEF SentTo, Recorded
<1>12. \A p \in People : Kept(c, p, InHand(d))'
  BY <1>2, <1>5, <1>9, <1>11 DEF Kept
<1>13. \A p \in People : mailed[c][p] > 0 /\ <<c, p>> \notin unsure => Past(c, p)'
  BY <1>6, <1>8, <1>9, <1>11 DEF Past
<1>14. Runs(d, c)'
  BY <1>1, <1>2, <1>3, <1>4, <1>6, <1>10, <1>12, <1>13 DEF Runs
<1> QED
  BY <1>14 DEF Well

\* An address is taken: it is dropped and missed, skipped, or in hand.
LEMMA NextAddressOwn ==
  ASSUME Typed, NEW d \in Drainers, NEW c \in Campaigns, c = pass[d].campaign,
         Runs(d, c), NEW p \in People, NextAddress(d, p)
  PROVE  Well(c)'
<1> DEFINE n == walks[c]
           spent == pass[d].tried >= PassBudget
<1>1. /\ UNCHANGED <<row, log, waiting, walks, skip, mailed, unsure>>
      /\ pass[d].pc = "walk" /\ pass[d].walk = n /\ n \in Walks /\ n > 0
  BY InHandler DEF Typed, NextAddress, rows, Runs, Placed, OnWalk, Walks
<1>2. /\ p \in left[c][n] /\ left'[c][n] = left[c][n] \ {p}
      /\ missed' = IF spent THEN missed \cup {<<c, p>>} ELSE missed
  BY <1>1 DEF Typed, Generators, NextAddress
<1>3. /\ pass'[d].pc = IF spent THEN "count" ELSE IF p \in skip[c][n] THEN "walk" ELSE "ask"
      /\ pass'[d].campaign = c /\ pass'[d].walk = n /\ pass'[d].to = p
      /\ pass'[d].tried = pass[d].tried
      /\ \A e \in Drainers : e # d => pass'[e] = pass[e]
  BY <1>1 DEF Typed, Threads, Pass, NextAddress
<1> HIDE DEF n
<1>4. Alone(d, c)'
  BY <1>3, StaysAlone
<1>5. \A q \in People : /\ Recorded(c, q) => Recorded(c, q)'
                        /\ Reported(c, q) => Reported(c, q)'
                        /\ Past(c, q) => Past(c, q)'
  BY <1>1, <1>2 DEF Recorded, Reported, Past, n
<1>6. Placed(d, c)'
  BY <1>1, <1>2, <1>3 DEF Placed, OnWalk, n
<1>7. InHand(d) = {} /\ InHand(d)' = IF pass'[d].pc = "ask" THEN {p} ELSE {}
  BY <1>1, <1>3 DEF InHand
<1>8. \A q \in People : Kept(c, q, InHand(d))'
  <2>1. \A q \in People : Kept(c, q, {})
    BY <1>1, <1>7 DEF Runs
  <2>2. ASSUME NEW q \in People, q # p PROVE Kept(c, q, InHand(d))'
    BY <1>1, <1>2, <1>5, <2>1, <2>2 DEF Kept, n
  <2>3. spent => Recorded(c, p)'
    BY <1>2 DEF Recorded
  <2>4. p \in skip[c][n] => Recorded(c, p)'
    BY <1>1, <1>5, <2>1 DEF Kept, n
  <2>5. Kept(c, p, InHand(d))'
    BY <1>1, <1>3, <1>7, <2>3, <2>4 DEF Kept, n
  <2> QED
    BY <2>2, <2>5
<1>9. \A q \in People : mailed[c][q] > 0 /\ <<c, q>> \notin unsure =>
         /\ mailed[c][q] = 1 /\ Past(c, q) /\ log[c][q] = "sent"
         /\ p = q => pass'[d].pc # "ask"
  BY <1>1, <1>2, <1>3 DEF Runs, Past, n
<1>10. Runs(d, c)'
  BY <1>1, <1>3, <1>4, <1>5, <1>6, <1>8, <1>9 DEF Runs
<1> QED
  BY <1>10 DEF Well

\* A page is skipped: those on it are missed.
LEMMA SkipPageOwn ==
  ASSUME Typed, NEW d \in Drainers, NEW c \in Campaigns, c = pass[d].campaign,
         Runs(d, c), SkipPage(d)
  PROVE  Well(c)'
<1> DEFINE n == walks[c]
<1>1. /\ UNCHANGED <<row, log, waiting, walks, skip, mailed, unsure, pass>>
      /\ pass[d].pc = "walk" /\ pass[d].walk = n /\ n \in Walks /\ n > 0
  BY InHandler DEF Typed, SkipPage, rows, Runs, Placed, OnWalk, Walks
<1>2. PICK rest \in SUBSET left[c][n] :
         /\ left' = [left EXCEPT ![c][n] = rest]
         /\ missed' = missed \cup ({c} \X (left[c][n] \ rest))
  BY <1>1 DEF SkipPage
<1> HIDE DEF n
<1>3. left'[c][n] = rest
  BY <1>1, <1>2 DEF Typed, Generators
<1>4. \A q \in People : /\ Recorded(c, q) => Recorded(c, q)'
                        /\ Reported(c, q) => Reported(c, q)'
                        /\ Past(c, q) => Past(c, q)'
                        /\ q \in left[c][n] \ rest => Recorded(c, q)'
  BY <1>1, <1>2, <1>3 DEF Recorded, Reported, Past, n
<1>5. Placed(d, c)' /\ Alone(d, c)' /\ InHand(d)' = InHand(d)
  BY <1>1 DEF Runs, Placed, OnWalk, Alone, InHand, n
<1>6. \A q \in People : Kept(c, q, InHand(d)) => Kept(c, q, InHand(d))'
  BY <1>1, <1>3, <1>4, <1>5 DEF Kept, n
<1>7. Runs(d, c)'
  BY <1>1, <1>4, <1>5, <1>6 DEF Runs
<1> QED
  BY <1>7 DEF Well

\* A mail leaves, or does not, or nobody knows.
LEMMA SendOwn ==
  ASSUME Typed, NEW d \in Drainers, NEW c \in Campaigns, c = pass[d].campaign,
         Runs(d, c), Send(d)
  PROVE  Well(c)'
<1> DEFINE p == pass[d].to
<1>1. /\ UNCHANGED <<row, log, waiting, walks, left, skip, missed>>
      /\ pass[d].pc = "send" /\ p \in People /\ pass[d].walk \in Walks
  BY InHandler DEF Typed, Send, rows, memory, OnWalk
<1>2. PICK outcome \in {"sent"} \cup MailFaults :
         /\ pass' = [pass EXCEPT ![d].pc = "log", ![d].ok = outcome = "sent"]
         /\ mailed' = IF outcome = "refused" THEN mailed
                      ELSE [mailed EXCEPT ![c][p] = @ + 1]
         /\ unsure' = IF outcome = "replyLost" THEN unsure \cup {<<c, p>>} ELSE unsure
  BY DEF Send
<1> HIDE DEF p
<1>3. outcome \in {"sent", "refused", "replyLost"}
  BY BroadcastAssumption
<1>4. /\ pass'[d].pc = "log" /\ pass'[d].campaign = c /\ pass'[d].walk = pass[d].walk
      /\ pass'[d].to = p /\ pass'[d].ok = (outcome = "sent")
      /\ \A e \in Drainers : e # d => pass'[e] = pass[e]
  BY <1>2 DEF Typed, Threads, Pass, p
<1>5. \A q \in People : mailed'[c][q] = IF q = p /\ outcome # "refused"
                                        THEN mailed[c][q] + 1 ELSE mailed[c][q]
  BY <1>1, <1>2 DEF Typed, Tables
<1>6. Alone(d, c)'
  BY <1>4, StaysAlone
<1>7. \A q \in People : /\ Recorded(c, q)' = Recorded(c, q)
                        /\ Reported(c, q)' = Reported(c, q) /\ Past(c, q)' = Past(c, q)
  BY <1>1 DEF Recorded, Reported, Past
<1>8. Placed(d, c)'
  BY <1>1, <1>4 DEF Runs, Placed, OnWalk, p
<1>9. InHand(d)' = InHand(d)
  BY <1>1, <1>4 DEF InHand, p
<1>10. \A q \in People : Kept(c, q, InHand(d))'
  BY <1>1, <1>7, <1>9 DEF Runs, Kept
<1>11. Past(c, p)
  <2>1. pass[d].walk = walks[c] /\ walks[c] > 0
    BY <1>1 DEF Runs, Placed, OnWalk, Walks
  <2> QED
    BY <1>1, <2>1 DEF Runs, Placed, Past, p
<1>12. mailed[c][p] \in Nat /\ (<<c, p>> \notin unsure => mailed[c][p] = 0)
  BY <1>1 DEF Typed, Tables, Runs, p
<1>13. ASSUME NEW q \in People, mailed'[c][q] > 0, <<c, q>> \notin unsure'
       PROVE  /\ mailed'[c][q] = 1 /\ Past(c, q)
              /\ log[c][q] = "sent" \/ (q = p /\ outcome = "sent")
              /\ q = p => outcome = "sent"
  <2>1. <<c, q>> \notin unsure
    BY <1>2, <1>13
  <2>2. CASE q = p
    BY <1>2, <1>3, <1>5, <1>11, <1>12, <1>13, <2>1, <2>2
  <2>3. CASE q # p
    BY <1>1, <1>5, <1>13, <2>1, <2>3 DEF Runs, p
  <2> QED
    BY <2>2, <2>3
<1>14. \A q \in People : Reported(c, q)'
  BY <1>7 DEF Runs
<1>15. waiting'[c] = 0 /\ row'[c] # "none"
  BY <1>1 DEF Runs
<1>16. ASSUME NEW q \in People, mailed'[c][q] > 0, <<c, q>> \notin unsure'
       PROVE  /\ mailed'[c][q] = 1 /\ Past(c, q)'
              /\ log'[c][q] = "sent" \/ (pass'[d].to = q /\ pass'[d].pc = "log" /\ pass'[d].ok)
              /\ pass'[d].to = q => /\ pass'[d].pc \notin {"ask", "send"}
                                    /\ pass'[d].pc = "log" => pass'[d].ok
  BY <1>1, <1>4, <1>7, <1>13, <1>16
<1> QED
  BY <1>6, <1>8, <1>10, <1>14, <1>15, <1>16, RunsOn

\* The mail is logged, and the walk goes on.
LEMMA LogSendOwn ==
  ASSUME Typed, NEW d \in Drainers, NEW c \in Campaigns, c = pass[d].campaign,
         Runs(d, c), LogSend(d)
  PROVE  Well(c)'
<1> DEFINE p == pass[d].to
<1>1. /\ UNCHANGED <<row, waiting, walks, left, skip, mailed, unsure, missed>>
      /\ pass[d].pc = "log" /\ p \in People
  BY InHandler DEF Typed, LogSend, memory, ghosts
<1>2. /\ pass'[d].pc = "walk" /\ pass'[d].campaign = c /\ pass'[d].walk = pass[d].walk
      /\ \A e \in Drainers : e # d => pass'[e] = pass[e]
  BY DEF Typed, Threads, Pass, LogSend
<1> HIDE DEF p
<1>3. \A q \in People : log'[c][q] = IF q = p THEN IF pass[d].ok THEN "sent" ELSE "failed"
                                     ELSE log[c][q]
  BY <1>1 DEF Typed, Tables, LogSend, p
<1>4. Alone(d, c)'
  BY <1>2, StaysAlone
<1>5. \A q \in People : /\ Recorded(c, q) \/ q = p => Recorded(c, q)'
                        /\ Past(c, q)' = Past(c, q)
  <2>1. missed' = missed /\ UNCHANGED <<walks, left, skip>>
    BY <1>1
  <2>2. \A q \in People : log'[c][q] \in {"sent", "failed"} \/ log'[c][q] = log[c][q]
    BY <1>3
  <2> QED
    BY <1>3, <2>1, <2>2 DEF Recorded, Past
<1>6. \A q \in People : Reported(c, q)'
  BY <1>1, <1>5 DEF Runs, Reported
<1>7. Placed(d, c)'
  BY <1>1, <1>2 DEF Runs, Placed, OnWalk
<1>8. InHand(d) = {p} /\ InHand(d)' = {}
  BY <1>1, <1>2 DEF InHand, p
<1>9. \A q \in People : Kept(c, q, InHand(d))'
  <2>1. \A q \in People : Kept(c, q, {p})
    BY <1>1, <1>8 DEF Runs
  <2> QED
    BY <1>1, <1>5, <1>8, <2>1 DEF Kept
<1>10. ASSUME NEW q \in People, mailed[c][q] > 0, <<c, q>> \notin unsure
      PROVE  mailed[c][q] = 1 /\ Past(c, q) /\ log'[c][q] = "sent"
  BY <1>1, <1>3, <1>10 DEF Runs, p
<1>11. waiting'[c] = 0 /\ row'[c] # "none"
  BY <1>1 DEF Runs
<1> QED
  BY <1>1, <1>2, <1>4, <1>5, <1>7, <1>9, <1>10, <1>11, <1>6, RunsOn

\* The pass ends, leaves the rest to a job, or has everyone recorded.
LEMMA CountUpOwn ==
  ASSUME Typed, NEW d \in Drainers, NEW c \in Campaigns, c = pass[d].campaign,
         Runs(d, c), CountUp(d)
  PROVE  Well(c)'
<1>1. /\ UNCHANGED <<row, log, walks, left, skip, mailed, unsure, missed>>
      /\ pass[d].pc = "count"
  BY DEF CountUp, rows, ghosts
<1>2. \A p \in People : Recorded(c, p)' = Recorded(c, p) /\ Past(c, p)' = Past(c, p)
                        /\ Reported(c, p)'
  BY <1>1 DEF Runs, Recorded, Past, Reported
<1>3. InHand(d) = {}
  BY <1>1 DEF InHand
<1>4. \A p \in People : /\ Kept(c, p, {})' = Kept(c, p, {})
                        /\ row[c] = "cancelled" \/ Kept(c, p, {})
  BY <1>1, <1>2, <1>3 DEF Runs, Kept
<1>5. \A p \in People : mailed[c][p] > 0 /\ <<c, p>> \notin unsure =>
         mailed[c][p] = 1 /\ Past(c, p) /\ log[c][p] = "sent"
  BY <1>1 DEF Runs
<1>6. CASE End(d)
  <2>1. Nobody(c)'
    BY <1>6, LeavesNobody
  <2>2. waiting'[c] \in {0, 1} /\ row'[c] # "none"
    <3>1. waiting[c] = 0 /\ row[c] # "none"
      BY DEF Runs
    <3>2. UNCHANGED waiting \/ waiting' = [waiting EXCEPT ![c] = @ + 1]
      BY DEF CountUp
    <3> QED
      BY <1>1, <3>1, <3>2 DEF Typed, Tables
  <2>3. Waits(c)'
    BY <1>1, <1>2, <1>4, <1>5, <2>1, <2>2 DEF Waits
  <2> QED
    BY <2>3 DEF Well
<1>7. CASE Goto(d, "finish") /\ UNCHANGED waiting /\ row[c] # "cancelled" /\ ~MoreToSend(d)
  <2>1. walks[c] > 0 /\ left[c][walks[c]] = {}
    BY <1>1, <1>7 DEF Typed, Threads, Pass, Runs, Placed, MoreToSend
  <2>2. \A p \in People : Recorded(c, p)
    BY <1>4, <1>7, <2>1 DEF Kept
  <2>3. Alone(d, c)'
    BY <1>7, GotoMoves, StaysAlone
  <2>4. Placed(d, c)'
    BY <1>2, <1>7, <2>2, GotoMoves DEF Placed, OnWalk
  <2>5. InHand(d)' = {}
    BY <1>7, GotoMoves DEF InHand
  <2>6. waiting'[c] = 0 /\ row'[c] # "none"
    BY <1>1, <1>7 DEF Runs
  <2>7. pass'[d].pc = "finish"
    BY <1>7, GotoMoves
  <2>8. \A p \in People : Kept(c, p, InHand(d))' /\ Reported(c, p)'
    BY <1>2, <2>2, <2>5 DEF Kept
  <2> QED
    BY <1>1, <1>2, <1>5, <2>3, <2>4, <2>6, <2>7, <2>8, RunsOn
<1> QED
  BY <1>6, <1>7 DEF CountUp

\* A pass that raises gives up the address in hand, or what is left of its walk,
\* and leaves the rest to a job.
LEMMA RaiseOwn ==
  ASSUME Typed, NEW d \in Drainers, NEW c \in Campaigns, c = pass[d].campaign,
         Runs(d, c), Raise(d)
  PROVE  Well(c)'
<1> DEFINE n == walks[c]
           p == pass[d].to
<1>1. /\ UNCHANGED <<row, log, walks, skip, mailed>>
      /\ pass[d].pc \notin {"idle", "send"} /\ End(d)
      /\ unsure \subseteq unsure' /\ missed \subseteq missed'
      /\ pass[d].pc = "log" => <<c, p>> \in unsure'
  BY DEF Raise, rows
<1>2. Nobody(c)'
  BY <1>1, LeavesNobody
<1>3. waiting'[c] = 1 /\ row'[c] # "none" /\ waiting[c] = 0
  BY <1>1 DEF Typed, Tables, Runs, Raise
<1>4. left[c][n] \subseteq left'[c][n] \cup {q \in People : <<c, q>> \in missed'}
      /\ (n > 0 => left'[c][n] \subseteq left[c][n])
      /\ \A q \in People : q \in InHand(d) => Recorded(c, q)'
  <2>1. CASE UNCHANGED left /\ missed' = missed \cup ({c} \X InHand(d))
    BY <2>1 DEF Recorded
  <2>2. CASE /\ pass[d].pc = "walk" /\ left' = [left EXCEPT ![c][pass[d].walk] = {}]
             /\ missed' = missed \cup ({c} \X left[c][pass[d].walk])
    <3>1. pass[d].walk = n /\ n \in Walks
      BY <2>2, InHandler DEF Typed, Runs, Placed, OnWalk
    <3>2. left[c][n] \subseteq People /\ InHand(d) = {}
      BY <2>2, <3>1 DEF Typed, Generators, InHand
    <3> HIDE DEF n
    <3>3. left'[c][n] = {}
      BY <2>2, <3>1 DEF Typed, Generators
    <3> QED
      BY <2>2, <3>1, <3>2, <3>3
  <2> QED
    BY <2>1, <2>2 DEF Raise
<1> HIDE DEF n
<1>5. \A q \in People : /\ Recorded(c, q) => Recorded(c, q)'
                        /\ Past(c, q) => Past(c, q)'
                        /\ Reported(c, q) => Reported(c, q)'
  BY <1>1, <1>4 DEF Recorded, Past, Reported, n
<1>6. \A q \in People : Kept(c, q, InHand(d)) => Kept(c, q, {})'
  BY <1>1, <1>4, <1>5 DEF Kept, Recorded, n
<1>7. ASSUME NEW q \in People, mailed[c][q] > 0, <<c, q>> \notin unsure'
      PROVE  mailed[c][q] = 1 /\ Past(c, q)' /\ log[c][q] = "sent"
  BY <1>1, <1>5, <1>7 DEF Runs
<1>8. \A q \in People : Reported(c, q)' /\ (row'[c] = "cancelled" \/ Kept(c, q, {})')
  BY <1>1, <1>5, <1>6 DEF Runs
<1>9. Waits(c)'
  BY <1>1, <1>2, <1>3, <1>7, <1>8 DEF Waits
<1> QED
  BY <1>9 DEF Well

\* A job is taken up.
LEMMA BeginOwn ==
  ASSUME Typed, NEW d \in Drainers, NEW c \in Campaigns, Well(c), Begin(d, c)
  PROVE  Well(c)'
<1>1. /\ UNCHANGED <<row, log, walks, left, skip, mailed, unsure, missed>>
      /\ waiting[c] > 0
  BY DEF Begin, rows, memory, ghosts
<1>2. Waits(c)
  BY <1>1 DEF Well, Runs
<1>3. waiting[c] = 1 /\ waiting'[c] = 0 /\ row'[c] # "none"
  BY <1>1, <1>2 DEF Typed, Tables, Waits, Begin
<1>4. /\ pass'[d].pc = "read" /\ pass'[d].campaign = c
      /\ \A e \in Drainers : e # d => pass'[e] = pass[e]
  BY DEF Typed, Threads, Begin, Starts, Idle
<1>5. Alone(d, c)'
  BY <1>2, <1>4 DEF Waits, Nobody, Alone
<1>6. Placed(d, c)'
  BY <1>4 DEF Placed, OnWalk
<1>7. InHand(d)' = {}
  BY <1>4 DEF InHand
<1>8. \A p \in People : Past(c, p)' = Past(c, p) /\ Recorded(c, p)' = Recorded(c, p)
                        /\ Reported(c, p)' = Reported(c, p)
  BY <1>1 DEF Past, Recorded, Reported
<1>9. \A p \in People : Kept(c, p, InHand(d))' = Kept(c, p, {})
  BY <1>1, <1>7, <1>8 DEF Kept
<1>10. Runs(d, c)'
  BY <1>1, <1>2, <1>3, <1>4, <1>5, <1>6, <1>8, <1>9 DEF Runs, Waits
<1> QED
  BY <1>10 DEF Well

\* The admin queues or cancels.
LEMMA QueueOwn ==
  ASSUME Typed, NEW c \in Campaigns, Well(c), Queue(c)
  PROVE  Well(c)'
<1>1. /\ UNCHANGED <<log, pass, walks, left, skip, mailed, unsure, missed>>
      /\ row[c] = "none" /\ walks[c] = 0
  BY DEF Queue, memory, ghosts
<1>2. Waits(c) /\ waiting[c] = 0
  BY <1>1 DEF Well, Waits, Runs
<1>3. waiting'[c] = 1 /\ row'[c] = "queued"
  BY <1>2 DEF Typed, Tables, Queue
<1>4. \A p \in People : ~(mailed[c][p] > 0 /\ <<c, p>> \notin unsure)
  BY <1>1, <1>2 DEF Waits, Past
<1>5. \A p \in People : Kept(c, p, {})' /\ Reported(c, p)'
  BY <1>1, <1>3 DEF Kept, Reported
<1>6. Nobody(c)'
  BY <1>1, <1>2 DEF Waits, Nobody
<1>7. Waits(c)'
  BY <1>1, <1>3, <1>4, <1>5, <1>6 DEF Waits
<1> QED
  BY <1>7 DEF Well

\* A cancel takes nothing back.
LEMMA CancelOwn ==
  ASSUME Typed, NEW c \in Campaigns, Well(c), CheckCancel(c) \/ WriteCancel(c)
  PROVE  Well(c)'
<1>1. /\ UNCHANGED <<log, waiting, pass, walks, left, skip, mailed, unsure, missed>>
  BY DEF CheckCancel, WriteCancel, memory, ghosts, rows
<1>2. row'[c] = row[c] \/ row'[c] = "cancelled"
  BY DEF Typed, Tables, CheckCancel, WriteCancel, rows
<1>3. \A p \in People : Past(c, p)' = Past(c, p) /\ Recorded(c, p)' = Recorded(c, p)
                        /\ (Reported(c, p) => Reported(c, p)')
  BY <1>1, <1>2 DEF Past, Recorded, Reported
<1>4. CASE Waits(c)
  <2>1. Nobody(c)' /\ \A p \in People : Kept(c, p, {})' = Kept(c, p, {})
    BY <1>1, <1>3, <1>4 DEF Waits, Nobody, Kept
  <2>2. Waits(c)'
    BY <1>1, <1>2, <1>3, <1>4, <2>1 DEF Waits
  <2> QED
    BY <2>2 DEF Well
<1>5. ASSUME NEW d \in Drainers, Runs(d, c) PROVE Well(c)'
  <2>1. InHand(d)' = InHand(d) /\ Alone(d, c)'
    BY <1>1, <1>5 DEF Runs, Alone, InHand
  <2>2. Placed(d, c)'
    BY <1>1, <1>2, <1>3, <1>5 DEF Runs, Placed, SentTo
  <2>3. \A p \in People : Kept(c, p, InHand(d))' = Kept(c, p, InHand(d))
    BY <1>1, <1>3, <2>1 DEF Kept
  <2>4. Runs(d, c)'
    BY <1>1, <1>2, <1>3, <1>5, <2>1, <2>2, <2>3 DEF Runs
  <2> QED
    BY <2>4 DEF Well
<1> QED
  BY <1>4, <1>5 DEF Well

\* After a restart every broadcast has neither a job nor a thread.
LEMMA RestartAll ==
  ASSUME Typed, NEW c \in Campaigns, Well(c), Restart
  PROVE  Well(c)'
<1>1. /\ UNCHANGED <<walks, left, skip, mailed, missed>> /\ unsure \subseteq unsure'
      /\ waiting'[c] = 0 /\ \A d \in Drainers : pass'[d].campaign = NoCampaign
  BY DEF Restart, Idle
<1>2. Nobody(c)'
  BY <1>1, Limits DEF Nobody
<1>3. row'[c] = "none" \/ (row'[c] = row[c] /\ log'[c] = log[c])
  BY DEF Restart
<1>4. \A p \in People : /\ Past(c, p)' = Past(c, p)
                        /\ Reported(c, p) => Reported(c, p)'
  BY <1>1, <1>3 DEF Past, Reported, Recorded
<1>5. \A p \in People : /\ Reported(c, p)
                        /\ mailed[c][p] > 0 /\ <<c, p>> \notin unsure
                              => mailed[c][p] = 1 /\ Past(c, p)
  BY DEF Well, Waits, Runs
<1>6. \A q \in People : mailed'[c][q] > 0 /\ <<c, q>> \notin unsure'
         => <<c, q>> \notin unsure /\ mailed[c][q] > 0
  BY <1>1
<1>7. Waits(c)'
  BY <1>1, <1>2, <1>4, <1>5, <1>6 DEF Waits
<1> QED
  BY <1>7 DEF Well

------------------------------------------------------------------------------
(* The theorems, when no two threads take one job.                         *)

AllWell == Typed /\ \A c \in Campaigns : Well(c)

\* At the start nothing waits and nobody was mailed.
LEMMA InitWell == Init => AllWell
<1> SUFFICES ASSUME Init, NEW c \in Campaigns PROVE Well(c)
  BY InitTypes DEF AllWell
<1>1. Nobody(c)
  BY Limits DEF Init, Idle, Nobody
<1>2. waiting[c] = 0 /\ \A p \in People : mailed[c][p] = 0 /\ Reported(c, p)
  BY DEF Init, Reported
<1>3. Waits(c)
  BY <1>1, <1>2 DEF Waits
<1> QED
  BY <1>3 DEF Well

\* A step of a campaign that keeps it well keeps them all well.
LEMMA OneForAll ==
  ASSUME AllWell, NEW k \in Campaigns, StepOf(k), Well(k)'
  PROVE  \A c \in Campaigns : Well(c)'
  BY ApartKept DEF AllWell

\* Every step keeps every campaign well.
LEMMA NextWell ==
  ASSUME ~SameJobTwice, AllWell, [Next]_vars
  PROVE  AllWell'
<1>0. Typed'
  BY NextTypes DEF AllWell
<1>1. CASE UNCHANGED vars
  <2>1. ASSUME NEW c \in Campaigns PROVE Well(c)'
    <3>1. Well(c)
      BY DEF AllWell
    <3>2. UNCHANGED <<row, log, waiting, walks, left, skip, pass, mailed, unsure, missed>>
      BY <1>1 DEF vars
    <3>3. StepOf(NoCampaign)
      BY <3>2 DEF StepOf
    <3>4. c # NoCampaign
      BY Limits
    <3> QED
      BY <3>1, <3>3, <3>4, ApartKept
  <2> QED
    BY <1>0, <2>1 DEF AllWell
<1>2. ASSUME NEW c \in Campaigns, Queue(c) \/ CheckCancel(c) \/ WriteCancel(c)
      PROVE  \A k \in Campaigns : Well(k)'
  BY <1>2, OutsideStep, QueueOwn, CancelOwn, OneForAll DEF AllWell
<1>3. ASSUME NEW d \in Drainers, Dispatch(d)
      PROVE  \A k \in Campaigns : Well(k)'
  <2>1. ASSUME NEW c \in Campaigns, Begin(d, c) \/ BeginSame(d, c)
        PROVE  \A k \in Campaigns : Well(k)'
    <3>1. Begin(d, c)
      BY <2>1 DEF BeginSame
    <3> QED
      BY <3>1, BeginStep, BeginOwn, OneForAll DEF AllWell
  <2>2. CASE \/ ReadRow(d) \/ MarkSending(d)
             \/ OpenStream(d) \/ ReadSent(d) \/ InsertStream(d)
             \/ \E p \in People : NextAddress(d, p)
             \/ SkipPage(d) \/ WalkOver(d) \/ AskCancelled(d) \/ Send(d)
             \/ LogSend(d) \/ CountUp(d) \/ Finish(d) \/ Settle(d) \/ Raise(d)
    <3>1. pass[d].pc # "idle"
      BY <2>2 DEF ReadRow, MarkSending, OpenStream, ReadSent, InsertStream, NextAddress,
         SkipPage, WalkOver, AskCancelled, Send, LogSend, CountUp, Finish, Settle, Raise
    <3>2. PICK c \in Campaigns : c = pass[d].campaign
      BY <3>1, InHandler DEF AllWell, Typed
    <3>3. Typed /\ Runs(d, c)
      BY <3>1, <3>2, InItsOwn DEF AllWell
    <3>4. StepOf(c)
      BY <2>2, <3>2, <3>3, PassStep
    <3>5. Well(c)'
      BY <2>2, <3>2, <3>3, ReadRowOwn, MarkSendingOwn, OpenStreamOwn, ReadSentOwn,
         InsertStreamOwn, NextAddressOwn, SkipPageOwn, MovesOwn, SendOwn, LogSendOwn, CountUpOwn, FinishOwn, SettleOwn,
         RaiseOwn
    <3> QED
      BY <3>4, <3>5, OneForAll
  <2> QED
    BY <1>3, <2>1, <2>2 DEF Dispatch
<1>4. CASE Restart
  BY <1>0, <1>4, RestartAll DEF AllWell
<1> QED
  BY <1>0, <1>1, <1>2, <1>3, <1>4 DEF Next, AllWell

\* It is the invariant the runs check, and implies the two properties.
LEMMA AllWellGives ==
  AllWell /\ StreamsFit => BroadcastInductive /\ MailedOnce /\ EveryoneAccountedFor
<1> SUFFICES ASSUME AllWell, StreamsFit PROVE BroadcastInductive /\ MailedOnce /\ EveryoneAccountedFor
  OBVIOUS
<1>1. BroadcastInductive
  BY TypedIs DEF AllWell, Well, Typed, Threads, Generators, BroadcastInductive
<1>2. ASSUME NEW c \in Campaigns, NEW p \in People
      PROVE  /\ mailed[c][p] > 0 /\ <<c, p>> \notin unsure => mailed[c][p] = 1
             /\ Reported(c, p)
  BY DEF AllWell, Well, Waits, Runs
<1>3. MailedOnce
  <2>1. \A c \in Campaigns, p \in People : mailed[c][p] \in Nat
    BY DEF AllWell, Typed, Tables
  <2> QED
    BY <1>2, <2>1 DEF MailedOnce
<1>4. EveryoneAccountedFor
  BY <1>2 DEF EveryoneAccountedFor, Reported, Recorded
<1> QED
  BY <1>1, <1>3, <1>4

(***************************************************************************)
(* Every broadcast always either waits with one job at most or is run by   *)
(* one thread, in step with its newest walk and its send log, and the      *)
(* listed walks and those being opened are never more than the limit and   *)
(* one for each further thread.                                            *)
(***************************************************************************)
THEOREM BroadcastAlwaysInductive ==
  ASSUME ~SameJobTwice
  PROVE  Spec => []BroadcastInductive
<1>1. AllWell /\ StreamsFit /\ [Next]_vars => AllWell' /\ StreamsFit'
  BY NextWell, NextFits DEF AllWell
<1> QED
  BY InitWell, InitFits, <1>1, AllWellGives, PTL DEF Spec

(***************************************************************************)
(* Nobody is mailed a broadcast twice unless an earlier mail left without  *)
(* being logged as sent.                                                   *)
(***************************************************************************)
THEOREM MailedAlwaysOnce ==
  ASSUME ~SameJobTwice
  PROVE  Spec => []MailedOnce
<1>1. AllWell /\ StreamsFit /\ [Next]_vars => AllWell' /\ StreamsFit'
  BY NextWell, NextFits DEF AllWell
<1> QED
  BY InitWell, InitFits, <1>1, AllWellGives, PTL DEF Spec

(***************************************************************************)
(* A broadcast reported as sent, partly sent or failed has everyone in its *)
(* send log, or given up in one of the ways the code has.                  *)
(***************************************************************************)
THEOREM EveryoneAlwaysAccountedFor ==
  ASSUME ~SameJobTwice
  PROVE  Spec => []EveryoneAccountedFor
<1>1. AllWell /\ StreamsFit /\ [Next]_vars => AllWell' /\ StreamsFit'
  BY NextWell, NextFits DEF AllWell
<1> QED
  BY InitWell, InitFits, <1>1, AllWellGives, PTL DEF Spec
==============================================================================
