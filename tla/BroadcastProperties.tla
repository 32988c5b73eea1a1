------------------------- MODULE BroadcastProperties -------------------------
(***************************************************************************)
(* What must hold of a broadcast.                                          *)
(***************************************************************************)
EXTENDS Broadcast

\* The threads that have made room for a walk they have not listed yet.
Opening == {d \in Drainers : pass[d].pc \in {"build", "insert"}}

\* Every variable has its type; the dictionary of walks lists a campaign once,
\* and outgrows its size by what the other threads open meanwhile at most.
TypeOK ==
    /\ row \in [Campaigns -> Statuses]
    /\ log \in [Campaigns -> [People -> Entries]]
    /\ waiting \in [Campaigns -> Nat]
    /\ streams \in Seq(Campaigns)
    /\ Len(streams) <= MaxStreams + Cardinality(Drainers) - 1
    /\ \A i, k \in DOMAIN streams : streams[i] = streams[k] => i = k
    /\ walks \in [Campaigns -> 0..MaxWalks]
    /\ left \in [Campaigns -> [Walks -> SUBSET People]]
    /\ skip \in [Campaigns -> [Walks -> SUBSET People]]
    /\ pass \in [Drainers -> Pass]
    /\ cancel \in [Campaigns -> {"no", "checked", "written"}]
    /\ mailed \in [Campaigns -> [People -> Nat]]
    /\ unsure \subseteq Campaigns \X People /\ missed \subseteq Campaigns \X People
    /\ raises \in Nat /\ restarts \in Nat

(***************************************************************************)
(* When no two threads take one job, nobody is mailed a broadcast twice    *)
(* unless an earlier mail left without being logged as sent: over several  *)
(* passes, passes that raise and are tried again, walks dropped from the   *)
(* dictionary and opened anew, and restarts.                               *)
(***************************************************************************)
MailedOnce ==
    \A c \in Campaigns, p \in People :
        mailed[c][p] > 1 => <<c, p>> \in unsure

(***************************************************************************)
(* A broadcast reported as sent, partly sent or failed accounts for every  *)
(* address: each is in the send log or was given up in one of the three    *)
(* ways the code has: taken from the generator by a pass whose budget is   *)
(* spent, on a page that cannot be read, or by a pass that raises.         *)
(* Dropping a walk while a pass uses it, opening it anew, and the retries  *)
(* of the queue lose nobody.                                               *)
(***************************************************************************)
EveryoneAccountedFor ==
    \A c \in Campaigns :
        row[c] \in {"sent", "partial", "failed"} =>
            \A p \in People : log[c][p] # "none" \/ <<c, p>> \in missed

(***************************************************************************)
(* A queued broadcast ends, however many passes it takes and though some   *)
(* of them raise; "a redeploy mid-broadcast resumes", so it should end     *)
(* after a restart too.                                                    *)
(***************************************************************************)
BroadcastEnds ==
    \A c \in Campaigns : (row[c] \in {"queued", "sending"}) ~> (row[c] \in Settled)

------------------------------------------------------------------------------
(* Why the dictionary stays near its size: a thread makes room for the walk *)
(* it opens before it lists it, and opens one at a time.                   *)

StreamsFit ==
    Len(streams) + Cardinality(Opening) <= MaxStreams + Cardinality(Drainers) - 1

------------------------------------------------------------------------------
(* Why nobody is mailed twice or forgotten: what holds of one campaign     *)
(* while no two threads take one job.                                      *)

OnWalk == {"walk", "ask", "send", "log"}

\* A thread in the handler has a campaign, in a walk a walk, and an addressee
\* to mail.
Fit(t) ==
    /\ t.pc = "idle" <=> t.campaign = NoCampaign
    /\ t.pc \in OnWalk => t.walk \in Walks
    /\ t.pc \in {"ask", "send", "log"} => t.to \in People

Nobody(c)   == \A e \in Drainers : pass[e].campaign # c
Alone(d, c) == \A e \in Drainers : pass[e].campaign = c <=> e = d

\* The newest walk has yielded an address, or is going to skip it.
Past(c, p) ==
    walks[c] > 0 /\ (p \notin left[c][walks[c]] \/ p \in skip[c][walks[c]])

Recorded(c, p) == log[c][p] # "none" \/ <<c, p>> \in missed

\* Those the newest walk skips or has yielded are recorded, but for `hand`.
Kept(c, p, hand) ==
    walks[c] > 0 =>
        /\ p \in skip[c][walks[c]] => Recorded(c, p)
        /\ p \in left[c][walks[c]] \cup hand \/ Recorded(c, p)

Reported(c, p) == row[c] \in {"sent", "partial", "failed"} => Recorded(c, p)

\* No thread is in the broadcast, and one job of it waits at most.
Waits(c) ==
    /\ Nobody(c) /\ waiting[c] \in {0, 1}
    /\ row[c] = "none" => waiting[c] = 0
    /\ \A p \in People :
          /\ mailed[c][p] > 0 /\ <<c, p>> \notin unsure =>
                mailed[c][p] = 1 /\ Past(c, p) /\ (waiting[c] = 0 \/ log[c][p] = "sent")
          /\ waiting[c] = 0 \/ row[c] = "cancelled" \/ Kept(c, p, {})
          /\ Reported(c, p)

\* Where the thread is: on the newest walk, which no longer has the address in
\* hand, or counting up when there is no more, or with everyone recorded.
Placed(d, c) ==
    LET t == pass[d] IN
    /\ t.pc \in OnWalk => t.walk = walks[c]
    /\ t.pc \in {"ask", "send", "log"} => t.to \notin left[c][walks[c]]
    /\ t.pc = "insert" => t.sent = SentTo(c)
    /\ t.pc = "count" => \/ row[c] = "cancelled" \/ t.tried >= PassBudget
                         \/ walks[c] > 0 /\ left[c][walks[c]] = {}
    /\ t.pc \in {"finish", "settle"} => \A p \in People : Recorded(c, p)

\* One thread is in it, and no job of it waits.
Runs(d, c) ==
    LET t == pass[d] IN
    /\ Alone(d, c) /\ waiting[c] = 0 /\ row[c] # "none" /\ Placed(d, c)
    /\ \A p \in People :
          /\ mailed[c][p] > 0 /\ <<c, p>> \notin unsure =>
                /\ mailed[c][p] = 1 /\ Past(c, p)
                /\ log[c][p] = "sent" \/ (t.to = p /\ t.pc = "log" /\ t.ok)
                /\ t.to = p => t.pc \notin {"ask", "send"} /\ (t.pc = "log" => t.ok)
          /\ (row[c] = "cancelled" /\ t.pc \in {"read", "count"}) \/ Kept(c, p, InHand(d))
          /\ Reported(c, p)

(***************************************************************************)
(* The inductive invariant of the proofs.                                  *)
(***************************************************************************)
BroadcastInductive ==
    /\ TypeOK /\ \A d \in Drainers : Fit(pass[d])
    /\ StreamsFit
    /\ \A c \in Campaigns : Listed(c) => walks[c] > 0
    /\ \A c \in Campaigns : Waits(c) \/ \E d \in Drainers : Runs(d, c)

------------------------------------------------------------------------------
(* What the documentation of the code says.                                *)

\* "a pass resumes exactly where the last one stopped": a broadcast that was
\* sent over several passes has everyone in its log.
EveryoneTried ==
    \A c \in Campaigns :
        row[c] \in {"sent", "partial", "failed"} =>
            \A p \in People : log[c][p] # "none"

\* "len(_broadcast_streams) <= BROADCAST_MAX_STREAMS": the dictionary of walks
\* never outgrows its size.
StreamsWithinLimit == Len(streams) <= MaxStreams

\* "it only stops the next pass from going out": no pass that begins after
\* the cancel was answered sends a mail.
CancelStopsNextPass ==
    \A d \in Drainers : pass[d].pc = "send" => ~pass[d].late
==============================================================================
