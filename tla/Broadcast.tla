------------------------------ MODULE Broadcast ------------------------------
(***************************************************************************)
(* A broadcast to every subscribed address (api.py `_task_campaign_dispatch`*)
(* and the routes around it).  The request writes the campaign row and     *)
(* queues a job; a pass of the job mails at most PassBudget addresses, logs *)
(* each one in SQLite, and queues the next pass.  The addresses come from  *)
(* a generator kept in memory between passes (a walk); a dictionary holds  *)
(* the walks of MaxStreams campaigns, and, since no lock covers it, those  *)
(* that other threads open at the same time.                               *)
(*                                                                         *)
(* Each call to SQLite or the mailer is one step, so passes on the two     *)
(* draining threads, the admin's cancel and a restart interleave with it.  *)
(* The queue is cut down to the number of jobs waiting for each campaign;  *)
(* TaskQueue shows how two threads can take the same job.                  *)
(*                                                                         *)
(* Ghost variables: `mailed` counts the mails that left, `unsure` holds    *)
(* those that left without a "sent" entry in the log, and `missed` the     *)
(* addresses a walk gave up without a mail or an entry in the log.         *)
(***************************************************************************)
EXTENDS Integers, Sequences, FiniteSets

CONSTANTS
    Campaigns, People, Drainers,
    NoCampaign, NoOne,  \* the campaign and addressee of a thread that has none
    PassBudget,     \* BROADCAST_CHUNK * BROADCAST_PASSES_PER_JOB
    MaxStreams,     \* BROADCAST_MAX_STREAMS
    SameJobTwice,   \* whether two threads may take one job (see TaskQueue)
    CanCancel,      \* whether the admin cancels
    MailFaults,     \* outcomes of the mailer besides "sent"
    PagesFail,      \* whether a page of addresses may be unreadable
    MaxWalks,       \* bound: walks opened per campaign
    MaxRaises,      \* bound: passes that raise (fewer than MAX_ATTEMPTS)
    MaxRestarts     \* bound: restarts

ASSUME BroadcastAssumption ==
    /\ NoCampaign \notin Campaigns /\ NoOne \notin People
    /\ IsFiniteSet(Drainers)
    /\ PassBudget \in Nat \ {0} /\ MaxStreams \in Nat \ {0}
    /\ SameJobTwice \in BOOLEAN /\ CanCancel \in BOOLEAN
    /\ MailFaults \subseteq {"refused", "replyLost"} /\ PagesFail \in BOOLEAN
    /\ MaxWalks \in Nat /\ MaxRaises \in Nat /\ MaxRestarts \in Nat

VARIABLES row, log, waiting, streams, walks, left, skip, pass, cancel,
          mailed, unsure, missed, raises, restarts

rows   == <<row, log>>
memory == <<streams, walks, left, skip>>
ghosts == <<mailed, unsure, missed>>
counts == <<raises, restarts>>
vars   == <<row, log, waiting, streams, walks, left, skip, pass, cancel,
            mailed, unsure, missed, raises, restarts>>

------------------------------------------------------------------------------
Settled == {"sent", "partial", "failed", "cancelled"}
Statuses == {"none", "queued", "sending"} \cup Settled
Entries == {"none", "sent", "failed"}
Walks == 1..MaxWalks

\* A thread in the handler: the walk it uses, the status it read or is about
\* to write, how many addresses it has tried, those the walk it opens will
\* skip, the one in hand and the mailer's answer, and whether it began after
\* the admin had cancelled.
PCs == {"idle", "read", "mark", "open", "build", "insert", "walk", "ask", "send",
        "log", "count", "finish", "settle"}

Pass == [pc : PCs, campaign : Campaigns \cup {NoCampaign}, walk : Nat,
         status : Statuses, tried : Nat, sent : SUBSET People, to : People \cup {NoOne},
         ok : BOOLEAN, late : BOOLEAN]

Idle == [pc |-> "idle", campaign |-> NoCampaign, walk |-> 0, status |-> "none",
         tried |-> 0, sent |-> {}, to |-> NoOne, ok |-> FALSE, late |-> FALSE]

Goto(d, pc) == pass' = [pass EXCEPT ![d].pc = pc]
End(d)      == pass' = [pass EXCEPT ![d] = Idle]

Init ==
    /\ row = [c \in Campaigns |-> "none"]
    /\ log = [c \in Campaigns |-> [p \in People |-> "none"]]
    /\ waiting = [c \in Campaigns |-> 0]
    /\ streams = << >>
    /\ walks = [c \in Campaigns |-> 0]
    /\ left = [c \in Campaigns |-> [n \in Walks |-> {}]]
    /\ skip = [c \in Campaigns |-> [n \in Walks |-> {}]]
    /\ pass = [d \in Drainers |-> Idle]
    /\ cancel = [c \in Campaigns |-> "no"]
    /\ mailed = [c \in Campaigns |-> [p \in People |-> 0]]
    /\ unsure = {}
    /\ missed = {}
    /\ raises = 0
    /\ restarts = 0

------------------------------------------------------------------------------
(* The admin.                                                              *)

\* The campaign row is written, then the job queued, in one request.
Queue(c) ==
    /\ row[c] = "none"
    /\ walks[c] = 0
    /\ row' = [row EXCEPT ![c] = "queued"]
    /\ waiting' = [waiting EXCEPT ![c] = @ + 1]
    /\ UNCHANGED <<log, memory, pass, cancel, ghosts, counts>>

\* Cancel reads the status and refuses a settled campaign,
CheckCancel(c) ==
    /\ CanCancel
    /\ cancel[c] = "no"
    /\ row[c] \in {"queued", "sending"}
    /\ cancel' = [cancel EXCEPT ![c] = "checked"]
    /\ UNCHANGED <<rows, waiting, memory, pass, ghosts, counts>>

\* then writes "cancelled", whatever the status is by then.
WriteCancel(c) ==
    /\ cancel[c] = "checked"
    /\ cancel' = [cancel EXCEPT ![c] = "written"]
    /\ row' = [row EXCEPT ![c] = "cancelled"]
    /\ UNCHANGED <<log, waiting, memory, pass, ghosts, counts>>

------------------------------------------------------------------------------
(* One pass.                                                               *)

Starts(d, c) ==
    pass' = [pass EXCEPT ![d] = [Idle EXCEPT !.pc = "read", !.campaign = c,
                                             !.late = cancel[c] = "written"]]

Begin(d, c) ==
    /\ pass[d].pc = "idle"
    /\ waiting[c] > 0
    /\ waiting' = [waiting EXCEPT ![c] = @ - 1]
    /\ Starts(d, c)
    /\ UNCHANGED <<rows, memory, cancel, ghosts, counts>>

\* The other thread passed the check of the same job before it was marked.
BeginSame(d, c) ==
    /\ SameJobTwice
    /\ pass[d].pc = "idle"
    /\ \E e \in Drainers : pass[e].campaign = c /\ pass[e].pc = "read"
    /\ Starts(d, c)
    /\ UNCHANGED <<rows, waiting, memory, cancel, ghosts, counts>>

ReadRow(d) ==
    LET c == pass[d].campaign IN
    /\ pass[d].pc = "read"
    /\ IF row[c] \in {"none", "cancelled"} THEN End(d)
       ELSE Goto(d, IF row[c] = "queued" THEN "mark" ELSE "open")
    /\ UNCHANGED <<rows, waiting, memory, cancel, ghosts, counts>>

\* The update does not look at the status again.
MarkSending(d) ==
    /\ pass[d].pc = "mark"
    /\ row' = [row EXCEPT ![pass[d].campaign] =
                  IF @ = "none" THEN @ ELSE "sending"]
    /\ Goto(d, "open")
    /\ UNCHANGED <<log, waiting, memory, cancel, ghosts, counts>>

Listed(c) == \E i \in DOMAIN streams : streams[i] = c

\* Mutant: a new walk skips those whose mail failed instead.
MutSentTo(c) == {p \in People : log[c][p] = "failed"}

\* Who a new walk skips.
SentTo(c) == {p \in People : log[c][p] = "sent"}

\* Mutant: one walk too many is kept.
MutRoom == IF Len(streams) > MaxStreams THEN Tail(streams) ELSE streams

\* The dictionary with room for one more walk: its first entry is dropped.
Room == IF Len(streams) >= MaxStreams THEN Tail(streams) ELSE streams

\* The campaign's walk, or room for a new one,
OpenStream(d) ==
    LET c == pass[d].campaign IN
    /\ pass[d].pc = "open"
    /\ IF Listed(c)
       THEN /\ pass' = [pass EXCEPT ![d].pc = "walk", ![d].walk = walks[c]]
            /\ UNCHANGED streams
       ELSE walks[c] < MaxWalks /\ Goto(d, "build") /\ streams' = Room
    /\ UNCHANGED <<rows, waiting, walks, left, skip, cancel, ghosts, counts>>

\* which will skip those the log now has as sent,
ReadSent(d) ==
    /\ pass[d].pc = "build"
    /\ pass' = [pass EXCEPT ![d].pc = "insert", ![d].sent = SentTo(pass[d].campaign)]
    /\ UNCHANGED <<rows, waiting, memory, cancel, ghosts, counts>>

\* and goes over all addresses; it replaces one that the campaign got meanwhile.
InsertStream(d) ==
    LET c == pass[d].campaign  n == walks[c] + 1 IN
    /\ pass[d].pc = "insert"
    /\ walks[c] < MaxWalks
    /\ walks' = [walks EXCEPT ![c] = n]
    /\ left' = [left EXCEPT ![c][n] = People]
    /\ skip' = [skip EXCEPT ![c][n] = pass[d].sent]
    /\ streams' = IF Listed(c) THEN streams ELSE Append(streams, c)
    /\ pass' = [pass EXCEPT ![d].pc = "walk", ![d].walk = n, ![d].sent = {}]
    /\ UNCHANGED <<rows, waiting, cancel, ghosts, counts>>

\* The generator yields an address before the budget is looked at, so the one
\* it yields to a pass whose budget is spent is dropped.
NextAddress(d, p) ==
    LET c == pass[d].campaign  n == pass[d].walk IN
    /\ pass[d].pc = "walk"
    /\ p \in left[c][n]
    /\ left' = [left EXCEPT ![c][n] = @ \ {p}]
    /\ pass' = [pass EXCEPT
                  ![d].pc = IF pass[d].tried >= PassBudget THEN "count"
                            ELSE IF p \in skip[c][n] THEN "walk" ELSE "ask",
                  ![d].to = p]
    /\ missed' = IF pass[d].tried >= PassBudget THEN missed \cup {<<c, p>>} ELSE missed
    /\ UNCHANGED <<rows, waiting, streams, walks, skip, cancel, mailed, unsure, counts>>

\* A page that cannot be read is skipped, with what its table still held.
SkipPage(d) ==
    LET c == pass[d].campaign  n == pass[d].walk IN
    /\ PagesFail
    /\ pass[d].pc = "walk"
    /\ \E rest \in SUBSET left[c][n] :
          /\ rest # left[c][n]
          /\ left' = [left EXCEPT ![c][n] = rest]
          /\ missed' = missed \cup ({c} \X (left[c][n] \ rest))
    /\ UNCHANGED <<rows, waiting, streams, walks, skip, pass, cancel, mailed,
                   unsure, counts>>

WalkOver(d) ==
    /\ pass[d].pc = "walk"
    /\ left[pass[d].campaign][pass[d].walk] = {}
    /\ Goto(d, "count")
    /\ UNCHANGED <<rows, waiting, memory, cancel, ghosts, counts>>

AskCancelled(d) ==
    /\ pass[d].pc = "ask"
    /\ Goto(d, IF row[pass[d].campaign] = "cancelled" THEN "count" ELSE "send")
    /\ UNCHANGED <<rows, waiting, memory, cancel, ghosts, counts>>

\* The mail goes out, is refused, or goes out and is reported refused.
Send(d) ==
    LET c == pass[d].campaign  p == pass[d].to IN
    /\ pass[d].pc = "send"
    /\ \E outcome \in {"sent"} \cup MailFaults :
          /\ pass' = [pass EXCEPT ![d].pc = "log", ![d].ok = outcome = "sent"]
          /\ mailed' = IF outcome = "refused" THEN mailed
                       ELSE [mailed EXCEPT ![c][p] = @ + 1]
          /\ unsure' = IF outcome = "replyLost" THEN unsure \cup {<<c, p>>} ELSE unsure
    /\ UNCHANGED <<rows, waiting, memory, cancel, missed, counts>>

\* Mutant: only failures are logged.
MutLogSend(d) ==
    LET c == pass[d].campaign  p == pass[d].to IN
    /\ pass[d].pc = "log"
    /\ log' = [log EXCEPT ![c][p] = IF pass[d].ok THEN @ ELSE "failed"]
    /\ pass' = [pass EXCEPT ![d].pc = "walk", ![d].tried = @ + 1]
    /\ UNCHANGED <<row, waiting, memory, cancel, ghosts, counts>>

LogSend(d) ==
    LET c == pass[d].campaign  p == pass[d].to IN
    /\ pass[d].pc = "log"
    /\ log' = [log EXCEPT ![c][p] = IF pass[d].ok THEN "sent" ELSE "failed"]
    /\ pass' = [pass EXCEPT ![d].pc = "walk", ![d].tried = @ + 1]
    /\ UNCHANGED <<row, waiting, memory, cancel, ghosts, counts>>

\* The dictionary without the campaign's walk, if it has one.
Without(c) ==
    IF ~Listed(c) THEN streams
    ELSE LET i == CHOOSE k \in DOMAIN streams : streams[k] = c IN
         [k \in 1..(Len(streams) - 1) |->
             IF k < i THEN streams[k] ELSE streams[k + 1]]

\* Mutant: a pass that found nothing to send queues the next one too.
MutMoreToSend(d) == pass[d].tried <= PassBudget

MoreToSend(d) == pass[d].tried >= PassBudget

\* The pass ends: cancelled, to be continued, or to be settled.
CountUp(d) ==
    LET c == pass[d].campaign IN
    /\ pass[d].pc = "count"
    /\ \/ /\ row[c] = "cancelled"
          /\ streams' = Without(c) /\ End(d) /\ UNCHANGED waiting
       \/ /\ row[c] # "cancelled" /\ MoreToSend(d)
          /\ waiting' = [waiting EXCEPT ![c] = @ + 1]
          /\ End(d) /\ UNCHANGED streams
       \/ /\ row[c] # "cancelled" /\ ~MoreToSend(d)
          /\ streams' = Without(c) /\ Goto(d, "finish") /\ UNCHANGED waiting
    /\ UNCHANGED <<rows, walks, left, skip, cancel, ghosts, counts>>

Verdict(c) ==
    IF \A p \in People : log[c][p] # "failed" THEN "sent"
    ELSE IF \E p \in People : log[c][p] = "sent" THEN "partial" ELSE "failed"

\* The final status is worked out from the log,
Finish(d) ==
    /\ pass[d].pc = "finish"
    /\ pass' = [pass EXCEPT ![d].pc = "settle",
                            ![d].status = Verdict(pass[d].campaign)]
    /\ UNCHANGED <<rows, waiting, memory, cancel, ghosts, counts>>

\* and written over whatever the row says.
Settle(d) ==
    /\ pass[d].pc = "settle"
    /\ row' = [row EXCEPT ![pass[d].campaign] =
                  IF @ = "none" THEN @ ELSE pass[d].status]
    /\ End(d)
    /\ UNCHANGED <<log, waiting, memory, cancel, ghosts, counts>>

\* The address a thread has taken from its walk and not logged yet.
InHand(d) == IF pass[d].pc \in {"ask", "send", "log"} THEN {pass[d].to} ELSE {}

\* Any call but the mailer's may raise (SQLite locked, no mailer configured, a
\* generator already running): the queue tries the job again.  A generator that
\* raises itself is finished, and stays in the dictionary.
Raise(d) ==
    LET c == pass[d].campaign  p == pass[d].to  n == pass[d].walk IN
    /\ pass[d].pc \notin {"idle", "insert", "send"}
    /\ raises < MaxRaises
    /\ raises' = raises + 1
    /\ waiting' = [waiting EXCEPT ![c] = @ + 1]
    /\ End(d)
    /\ unsure' = IF pass[d].pc = "log" THEN unsure \cup {<<c, p>>} ELSE unsure
    /\ \/ UNCHANGED left /\ missed' = missed \cup ({c} \X InHand(d))
       \/ /\ pass[d].pc = "walk"
          /\ left' = [left EXCEPT ![c][n] = {}]
          /\ missed' = missed \cup ({c} \X left[c][n])
    /\ UNCHANGED <<rows, streams, walks, skip, cancel, mailed, restarts>>

------------------------------------------------------------------------------
\* The process starts again, with its disk or without it: the queue and the
\* walks were in memory, and nothing at boot looks for unfinished campaigns.
Restart ==
    /\ restarts < MaxRestarts
    /\ restarts' = restarts + 1
    /\ \E wiped \in BOOLEAN :
          /\ row' = IF wiped THEN [c \in Campaigns |-> "none"] ELSE row
          /\ log' = IF wiped THEN [c \in Campaigns |-> [p \in People |-> "none"]]
                    ELSE log
    /\ waiting' = [c \in Campaigns |-> 0]
    /\ streams' = << >>
    /\ pass' = [d \in Drainers |-> Idle]
    /\ cancel' = [c \in Campaigns |-> IF cancel[c] = "checked" THEN "no" ELSE cancel[c]]
    /\ unsure' = unsure \cup {<<pass[d].campaign, pass[d].to>> :
                                 d \in {e \in Drainers : pass[e].pc = "log"}}
    /\ UNCHANGED <<walks, left, skip, mailed, missed, raises>>

------------------------------------------------------------------------------
Dispatch(d) ==
    \/ \E c \in Campaigns : Begin(d, c) \/ BeginSame(d, c)
    \/ ReadRow(d) \/ MarkSending(d)
    \/ OpenStream(d) \/ ReadSent(d) \/ InsertStream(d)
    \/ \E p \in People : NextAddress(d, p)
    \/ SkipPage(d) \/ WalkOver(d) \/ AskCancelled(d) \/ Send(d)
    \/ LogSend(d) \/ CountUp(d) \/ Finish(d) \/ Settle(d) \/ Raise(d)

Next ==
    \/ \E c \in Campaigns : Queue(c) \/ CheckCancel(c) \/ WriteCancel(c)
    \/ \E d \in Drainers : Dispatch(d)
    \/ Restart

Spec == Init /\ [][Next]_vars

\* The draining threads are scheduled; a pass's calls all time out.
FairSpec == Spec /\ \A d \in Drainers : WF_vars(Dispatch(d))
==============================================================================
