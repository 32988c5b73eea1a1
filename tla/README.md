# Formal models of the JauraStore server

TLA+ models of the parts of this repository where several request threads,
background threads, two databases, a browser and processes that may die at any
moment have to agree: orders and the stock they hold, the in-process task queue,
broadcasts to the mailing list, the deletion of products, the stock of a
product with variants, the browser's outbox, and the supplier alerts. TLC checks
small instances; TLAPS proves, for every instance, each safety property that a run checks, and that the order
handlers implement a one-step ledger. Liveness is left to TLC. Paths and line numbers are those of the repository. `PROJECT.json` holds the index: which definition models which lines,
what each run checks, which hazards of the code are covered.

1. [The system](#1-the-system)
2. [The modules](#2-the-modules-and-how-they-follow-the-code)
3. [The runs](#3-the-runs)
4. [Bounds and fairness](#4-bounds-and-fairness)
5. [What is proved](#5-what-is-proved)
6. [What the models show to be wrong](#6-what-the-models-show-to-be-wrong)
7. [What is not modelled](#7-what-is-not-modelled)
8. [Plan](#8-plan)

## 1. The system

A Flask application (`app.py`, `api.py`) serves a shop. In production
(`Procfile`, `render.yaml`) one gunicorn process runs eight request threads, a
scheduler thread and a queue worker thread. PostgreSQL (Supabase) is the record
of products, stock and orders. SQLite, on the disk of the instance, is a cache
of the orders and the only store of campaigns and their send log; a redeploy
wipes it and boot copies orders back from PostgreSQL (`app.py:356`). There is no
transaction across the two, and no lock that spans a request handler.

| Component | State it keeps | Operations | Interacts through | What is hard | What makes it correct |
|---|---|---|---|---|---|
| Orders and stock | `products.stock_quantity`, `orders` (PostgreSQL); `orders` (SQLite); `stockApplied` in each payload | checkout, counter sale, confirm / decline / reopen, delete, accounting edit, boot restore | guarded SQL functions, REST upserts, SQLite | two threads on one order or one line; each remote call refused, or done with its reply lost; a stop between two calls | no unit is sold twice or lost; the shelf agrees with the rows; an accepted order is on record |
| Task queue | jobs in memory (`_jobs`), two draining threads | enqueue, drain, retry with backoff, requeue, clear | requests and the scheduler call it | state checked under the lock and changed outside it; a dead thread; a restart empties it | outstanding work is done; a running job has a runner; live work stays listed |
| Broadcasts | `campaigns`, `campaign_sends` (SQLite); a generator per campaign in memory | queue, pass, cancel | task queue, mailer | many passes; two threads; a shared generator; a cancel that races a pass | everyone is mailed once; it ends; a cancel counts |
| Product deletion | the row, the SQL ledger of permanent deletions, the tombstone list, the trash list (one JSON value each), a local list of hidden ids, a kept copy of the tombstones | trash, restore, purge, delete for good, its queued second half, saves by other screens, recovery | task queue, PostgreSQL | five records and no transaction; whole lists read, changed and written back by several threads; a copy kept for ten seconds; a redeploy | no product is lost track of; one in the Trash stays out of the shop; one deleted for good never comes back |
| Stock of a product with variants | `stock_quantity` and a count per variant in one row; the manual out-of-stock lock | reservation, give-back, the owner's screens, the guardrail sweep | guarded SQL functions, whole-row writes | a row read, computed on and written back around reservations | every count is explained; the total is the sum of the variants, or gets repaired |
| Browser outbox | a queue in each tab and in the browser's storage (`js/net.js`) | enqueue, flush, discard, evict, reload | every API route | two tabs; retries of what was done; a delete and an older save; a full queue | no call is lost unnoticed; a withdrawn save stays away; retries end |
| Supplier watchdog and alerts | one JSON ledger of alerts | record readings, drain (claim, mail, mark), mark as seen | scheduler, CI run, mailer | a ledger loaded and saved whole by three writers; two drains; a crash with a claim | a drop is told, once |
| Payment receipts | storage objects, receipt rows | attach at checkout, upload later, delete through the queue | checkout, task queue | a step of a checkout can fail | no order without its receipt |
| Abandoned carts | claims in SQLite | claim, mail, release, convert | scheduler, mailer | a crash between claim and mail | one reminder, and one at least |
| Accounting desk | JSON lists of batches and expenses; order payloads | edit order, edit batch | PostgreSQL | concurrent read-modify-write | no edit is lost |
| Scheduler | a thread | sweep of the queue, watch over threads, guardrail sweep, drain of alerts, reminders | all of the above | runs beside the worker | what it owes is done by a later tick |
| Settings | JSON values | edit | catalogue | | |
| Everything else | see section 7 | | | | |

## 2. The modules and how they follow the code

### Orders

| Module | Role |
|---|---|
| `OrderBook` | one stored order, and what a change of status does to its units (`_sync_order_stock`, `api.py:1443`) |
| `Orders` | the handlers, the two stores, failures and restarts |
| `OrderProperties` | the type invariant, the safety, action and liveness properties, the inductive invariant |
| `SaleLedger` | the abstract specification: a cart leaves the shelf whole, in one step, only if it is all there, and comes back in one step |
| `MCOrders` | carts, stocks, sets of allowed failures for TLC |
| `OrdersProofs` | the proofs |
| `Sums` | facts about sums over finite sets and about least elements, for the proofs of orders, shelf and queue |

A request thread is a record `req[w]` whose `pc` names the next call the handler
makes to a store; each call is one step. A checkout (`api_create_order`) goes
`validate → lookup → reserve (each line) → proof → record → receipt → insert →
referral`, with `rollback` and `undo` for the ways back; the admin's decision
goes `take` or `give` (each line) `→ save → mirror`; a deletion `give → drop →
forget`; an accounting edit `editRecord → editCache`. The row a decision works
from is read when the request begins and kept in `req[w].row`, as in the code:
nothing reads it again. An order's stored row is cut down to its status and
whether `stockApplied` is there, since that list always holds the whole cart.

Every call may be refused (`Refusable`) or take effect and report a failure
(`Losable`), where the code can see either. `Restart` kills every request, keeps
or wipes SQLite, and copies at most `RestoreLimit` rows back, or none when the
read fails. The ghost `causes[o]` records which of ten mishaps has happened to
order *o*: a lost reply, a release, take or undo whose failure the code ignores,
a replaced row, a decision or deletion that moved units and could not be saved,
a row reverted by boot or by an edit, two requests for one order at once, a
request that died. These are what the code does not defend against, and the
invariants say that nothing else breaks the books.

A collision of ids drawn in the browser acts as a second post of one order.

### Task queue

| Module | Role |
|---|---|
| `TaskQueue` | `task_queue.py`, with the scheduler's sweep and its watch over the threads |
| `TaskQueueProperties`, `MCTaskQueue`, `TaskQueueProofs` | properties, instances, proofs |

Each block under the module's lock is one step; what runs outside the lock is
not. So `Check` (the state is looked at) and `Start` (the job is marked) are two
steps, and `Count` (the attempts are read) and `Start` (they are stored) are two
as well. A thread keeps a job object that the bounded log has dropped: `jobs`
are the objects and `ring` the ones still listed. The age limit of finished jobs
may expire at any enqueue; a backoff ends at any time (`BecomeDue`). A dead thread
(`Die`) leaves its job as it was and is replaced by `EnsureAlive`. The ghost
`owed` holds the tasks that durable state still says are outstanding.

### Broadcasts

| Module | Role |
|---|---|
| `Broadcast` | `_task_campaign_dispatch` and its helpers (`api.py:8149`–`8380`), the routes that queue and cancel |
| `BroadcastProperties`, `MCBroadcast`, `BroadcastProofs` | properties and the inductive invariant, instances, proofs |

The generator of a campaign is a *walk*: the addresses it has `left` and the set
it was told to `skip`. `streams` is the dictionary of walks in insertion order;
`Room` drops its first entry when it is full. A thread's pass reads the status,
marks the row, opens or finds its walk, and then takes, mails and logs one
address at a time. No lock covers the opening of a walk (`api.py:8264`–`8270`), so it takes three steps:
`OpenStream` looks for the walk and makes room, `ReadSent` reads the addresses to skip,
`InsertStream` lists the walk; the other thread may do anything in between. The comparison with the
limit and the removal of the oldest entries are one step, since nothing is called between them; so is the read of
the log, one query that this campaign's thread alone could change meanwhile. The queue is reduced to a number of waiting jobs per campaign.
`SameJobTwice` allows the interleaving that `TaskQueue` shows to be possible
(`MCTaskQueueTwice.cfg`): both threads in one job. The second thread may stay at its first
step for as long as it likes, so a thread that was delayed between the check and
the start of a job is covered. `Verdict` is computed from the log; a failed read
of the counters is not modelled.

### Product deletion

| Module | Role |
|---|---|
| `ProductBin` | the Trash, restore, purge, permanent delete and recovery (`api.py:5920`–`6280`, `catalog.py`, `supabase_store.py`, `hard_delete_products.sql`) |
| `ProductBinProperties` | the properties, and the inductive invariant with its parts |
| `MCProductBin`, `ProductBinProofs` | instances, proofs |

`row`, `ledger`, `tombs`, `trash` are the records in PostgreSQL, `hidden` and
`jobs` the ones a redeploy wipes. A request is a record `req[r]` whose `pc` names its next
call; `req[r].trash` and `req[r].tombs` are the lists as it read them, which it
writes back changed. Every call may be refused, or done with its reply lost.

The list of tombstones goes through `cached_read` (`supabase_store.py:101`): `memo` holds the list that the
process keeps, if any. A read takes the kept list, or asks the store and keeps what it says; only a
confirmed write drops it (`Added`, `DropKept`, the confirmed calls that invalidate everything), a
shopper may fill it at any time (`Browse`) and time or some other write may drop it (`Forget`). A look at the
catalogue (`Looks`) may fail or be kept from before, and may then show a product that is no longer
sold or hide one that is, so that the Trash makes a bare entry of a product on sale (`api.py:6009`). It is an
over-approximation: it lets a look be wrong whenever looks can fail.

A save ends with `_publication_check` (`api.py:5658`), which clears the tombstone a second time when the list,
as read, has it and the catalogue does not show the product: `Publish`, and `req[r].left` counts that second
pass. The recovery has two forms: `Recover` is the transaction of `recover_unavailable_products.sql`;
where that function is not installed the route goes row by row (`supabase_store.py:1661`), which is
the operation `"recover"` of one row: `Revive`, the clearing, `Unhide`. Rows it read together are independent
operations here, with any interleaving between them.

The queue is reduced to a set of products whose deletion waits for the worker: `TaskQueue` says how such
jobs run, are retried and are lost, and `RunJob` may therefore start at any time, and `Restart` empties
`jobs`. The trigger of `hard_delete_products.sql` is in `Rejected`: no writer gets past it. Restoring,
saving and recovering are the three ways a row comes back.

Ghosts: `binned` (moves to the Trash that were answered with a success and not
undone), `asked` (deletions for good that somebody asked for), `off[r]` (the products for which what `r` holds
is out of date: others touched them since `r` began, or the kept list that `r` read differs from
the store) and `excused`: products hit by a list written back
from an out-of-date copy or from one that could not be read, by a tombstone whose reply was lost, or by
one that a restore or a save could not clear. The invariants say that nothing else loses a product. A move to
the Trash that relied on an out-of-date copy of its product is answered with a success and does not count as `binned`:
section 6 shows what becomes of it.

### Stock of a product with variants

| Module | Role |
|---|---|
| `Shelf` | one row with a total and a count per variant, the manual lock, shoppers, the owner's screens and the sweep |
| `ShelfProperties`, `MCShelf`, `ShelfProofs` | properties, instances, proofs |

`Orders` models lines that are interchangeable units of a shelf; `Shelf` opens one
product up. A shopper's line checks the lock, reserves with the guarded UPDATE, and
keeps or gives back its unit. An editor reads the row (`Open`, `SweepRead`),
writes all of it (`SaveCount`, `SaveProduct`) or only a price (`SavePrice`), and
settles the lock in a further call (`Settle`): three steps, so that reservations fall
between them. The sweep is one more editor. The ghost `books` adds up what was typed, taken and given
back; `stale` and `blind` hold the variants for which the row may differ from it.

### Browser outbox

| Module | Role |
|---|---|
| `Outbox` | `js/net.js` with two kinds of callers in `js/store.js`: a checkout, and the editor's save and delete of one product |
| `OutboxProperties` | the properties, and the inductive invariant |
| `MCOutbox`, `OutboxProofs` | instances, proofs |

Between two awaits a tab runs alone, so each stretch from one await to the next is a
step: `Ask` (discard, then send or queue), `CallEnds`, `Push` (the storage has
answered), `Flush` (a copy of the queue is taken), `SendNext`, `SendEnds`. The storage `kept` is
shared by the tabs and survives them; a job may be too large for it
(`Durable`). An attempt that the browser gave up is `late` and may be served at any
time: this is where `Orders`' "posted again" comes from. `withdrawn` is the
ghost for saves that only the discarding tab's queue held.

### Supplier alerts

| Module | Role |
|---|---|
| `SupplierAlerts` | `supplier_alerts.py`, with the watchdog's recording, the two drains and the owner's mark |
| `SupplierAlertsProperties` | the properties, and the inductive invariant with its parts |
| `MCSupplierAlerts`, `SupplierAlertsProofs` | instances, proofs |

`ledger[i]` is an item's entry: its level, whether a mail is pending, the level last
mailed, the claim, the level the owner has seen. Each of the three actors loads the ledger
into `copy[a]`, changes that and saves all of it. A drain goes `Drain` (load, look up
what is still sold) `→ Handle → Claim → Send → Reload → Finish`; each is one call
of the store, the catalogue or the mailer, and each may fail. A reading is reduced to a
count against the shop's stock (`LevelFor`). A claim of a drain that is over is
`left`, and `Expire` stands for `CLAIM_TTL_SECONDS`.

## 3. The runs

All twelve runs pass. Statements of the documentation that the code does not keep are in
section 6, with the configurations that show them.

| Run | Configuration | Properties | Instance |
|---|---|---|---|
| `orders_faults` | `MCOrdersFaults` | `TypeOK`, `LedgerBalanced`, `UnitsConserved`, `AcceptedIsRecorded`, `DivergenceIsReported` | two orders, two lines with one unit each, so that the orders compete for one; two threads; every call refused or lost; any change of status; deletion, edit; one restart |
| `orders_retries` | `MCOrdersRetries` | `Inductive`, `Covered`, `NeverOversold` | the same without decisions and deletions, with a counter sale, each id posted twice, a line that is hidden and put back, a restart whose restore page is too small for the orders |
| `orders_course` | `MCOrdersDecisions` | `DecisionStands`, `EveryRequestEnds` | one order posted twice, three admin requests, a restart, one request at a time |
| `orders_ledger` | `MCOrdersLedger` | `ImplementsLedger` | two orders and two units of each line, so that a repeated checkout could sell twice; two threads, three admin requests, one request per order at a time, no reopening; the failures of `Handled` |
| `tasks_safe` | `MCTaskQueueSafe` | `TypeOK`, `RunningHasRunner`, `LogBounded`, `LiveJobsKept` | three jobs in a log of two, two threads; one failure, one retry by hand, one death, one restart |
| `tasks_done` | `MCTaskQueueDone` | `OwedIsDone` | one deduplicated and one chained task, a batch of one, a failure, a retry by hand; no death, no restart |
| `broadcast_once` | `MCBroadcastOnce` | `TypeOK`, `MailedOnce`, `EveryoneAccountedFor`, `BroadcastInductive` | three campaigns on two threads with room for one walk, so that both threads open walks at once with one listed; two addresses, one per pass, two walks per campaign, unreadable pages; as long as one campaign is not queued also one mishap: a pass that raises, a restart or a mail whose reply is lost (logged as failed) |
| `broadcast_ends` | `MCBroadcastEnds` | `BroadcastEnds` | one campaign, two addresses, a budget of two, two threads that may take the same job, three walks, a cancel, a pass that raises |
| `shelf_counts` | `MCShelf` | `ShelfTypeOK`, `CountsExplained`, `TotalSplitsOnlyBlindly`, `TotalsReconciled` | two variants with one unit each at most, two shoppers, one screen with two edits of any kind, the sweep, reads that fail |
| `bin_kept` | `MCProductBin` | `BinTypeOK`, `NothingLost`, `BinnedStaysOut`, `BinInductive`, `GoneForGood` | two products, one of them bundled; two admins with two requests of any kind and the queue's thread; every call refusable and losable; the kept list, dropped at any time; any number of redeploys (955,720 states) |
| `outbox_settles` | `MCOutbox` | `OutboxTypeOK`, `OutboxInductive`, `NothingLost`, `WithdrawnIsGone`, `EverySaveSettles` | two tabs, a save that the storage takes and a delete that it does not, a queue of one, two attempts, a closed tab, a lost connection, any outcome of a request |
| `alerts_mailed` | `MCSupplierAlerts` | `AlertsTypeOK`, `AlertKept`, `MailedOnceEach`, `AlertsInductive`, `PendingEnds` | one item, two readings, a drain of the watchdog and any number of the scheduler's, a mark, a change of the shop's stock, one fault (a refused call, a lost reply or a crash) |

What the properties say:

* `LedgerBalanced`: line by line, an order's units are off the shelf exactly when
  its row says so, give or take what a running request has in hand, for every
  order that none of the ten mishaps happened to, whatever happened to the
  others. `UnitsConserved` is the sum of it over the shelf.
* `NeverOversold`: units promised to recorded orders never exceed the stock, even
  with retried checkouts of one id, crashes and lost reservation replies. (It needs the
  order upsert to report truthfully and the undo of a checkout to work, so that
  run leaves these two calls out of the failures; it has no admin requests.)
* `AcceptedIsRecorded`: a shopper who heard "ok" has a row in PostgreSQL.
* `DivergenceIsReported`: the two stores differ about a settled order only if the
  admin was answered 503 about it.
* `DecisionStands`: a repeated checkout does not put a decided order back to
  pending. It is checked with a cache that can be written and restored; without the
  cache row the duplicate check cannot see the order.
* `ImplementsLedger`: the multi-step handlers refine `SaleLedger`. Under the
  mapping, units reserved and not yet recorded count as on the shelf, and so do
  units a release has still to give back. The run excludes reopening (the units
  of a reopened order are ambiguous until its next decision) and failures the
  code ignores: of a release or an undo, of the save of a decision or deletion that moved
  units, and of the checkout's SQLite row. Without that row a repeated checkout is
  not recognised and takes its units again (section 6).
* `RunningHasRunner`: a listed job in state `running` is run by a thread, or by
  one that died. `LiveJobsKept`: a live job leaves the log only when every job in it is live.
* `OwedIsDone`: outstanding work gets done while the process lives.
* `MailedOnce`: when no two threads are in one job, no address is mailed the same
  broadcast twice unless an earlier mail left without being logged as sent.
* `EveryoneAccountedFor`: in a settled broadcast every address is in the send log, or
  was given up in one of the three ways the ghost `missed` records: taken from the
  generator by a pass whose budget is spent, on an unreadable page, or by a pass
  that raises. Evicted and reopened walks, lost replies and retries lose nobody.
  `EveryoneTried` is the same without the excuse, and fails (section 6).
* `BroadcastEnds`: a queued broadcast settles, however many passes it takes.
* `Broadcast!TypeOK` bounds the dictionary of walks: it holds at most one walk more than
  `BROADCAST_MAX_STREAMS` for every draining thread but one. The test that says the limit itself
  is kept is sequential (section 6).
* `CountsExplained`: a variant's count is what the typed numbers and the units taken and
  given back add up to, unless a save wrote it from a copy that was out of date or a unit of it
  was given back while the catalogue could not be read. `TotalSplitsOnlyBlindly`:
  the total that a checkout is tested against and the sum of the variants part only in that
  last way; stale saves move both. `TotalsReconciled`: the sweep puts them together again, or
  the owner has locked the product.
* `ProductBinProperties!NothingLost`: a product that no process sells is in the Trash, or
  somebody asked to delete it for good. `BinnedStaysOut`: a product in the Trash stays
  out of the shop, also after a redeploy and when its row could not be marked.
  `GoneForGood`: no save, restore, recovery or replay puts a row back that was deleted
  for good, however late it comes. The first two have the exceptions that `excused` records, and
  the second speaks of moves that relied on no out-of-date copy. Both fail without the exceptions (section 6).
* `OutboxProperties!NothingLost`: whatever the user saved is settled (the server has it, its
  failure was shown, a newer call replaced it, or a full queue threw it out), or a tab or
  the storage still holds it. `WithdrawnIsGone`: a save that only the queue held when a delete
  discarded it is not sent again, by any tab, after any reload.
  `EverySaveSettles`: on a steady connection with the pages open the retries end.
* `AlertKept`: a recorded drop stays pending at its level until it is told or the item is
  not sold any more. `MailedOnceEach`: it is not told twice. Both but for an entry
  overwritten from an old copy (`excused`), a mail the ledger did not learn of (`unsure`) and,
  for the first, an entry marked without having been in the mail (`missed`).
  `PendingEnds`: nothing stays pending for ever, also when a drain died with its claim on it.

## 4. Bounds and fairness

Counters that only bound the exploration are constants named `Max…`: posts per
order, admin requests, restarts, failures, retries by hand, deaths, walks per
campaign, passes that raise. `RestoreLimit`, `MaxAttempts`, `RingSize`,
`BatchSize`, `PassBudget`, `MaxStreams` are limits of the code, made small so that
they are reached: the log of two overflows with three jobs, the one-walk dictionary
evicts with two campaigns and outgrows its size with three, a budget of one makes every address a pass boundary.

*Orders.* One unit per line and two orders that share a line is the smallest
shop in which a reservation can fail half way through a cart and in which two orders compete;
two threads suffice for every race between a pair of requests; the third party
of a longer race is a later request on one of the two threads, which `MaxPosts`
and `MaxAdmin` allow. What holds of each order separately is proved for any
number (section 5).

*Products, alerts.* What a list's read-modify-write can do to an entry takes the entry's own
request and one other; two admins, the worker and two products give every such pair, with a
redeploy at any point. `VIEW Relevant` leaves out of a state what no step and no property looks at: the `off` of an
idle request, which the next request sets anew, and the list of tombstones held by a request that is past
writing it. One item shows every race of the alert ledger, because writes of whole ledgers
touch an item through its own entry or through a stale copy of it; with two items the
state space exceeds what a run may take, and what holds for any number is proved.
`MaxRuns` bounds the watchdog's drains: two drains that overwrite each other's claim for
ever would otherwise keep an alert pending, and the watchdog runs
three times an hour against a tick of five minutes.

*Shelf, outbox.* One unit per variant makes every reservation one of the last unit; the sweep is
the third party to the owner and the shoppers. A queue of one overflows with the second job and an
attempt limit of two makes a second failure final (the code: 300 jobs, 8 attempts).

*Queue.* Three jobs, two threads, and one of each mishap. `MaxAttempts` of two makes a
second failure final; in `tasks_done` it exceeds the failures allowed, since a
task that fails too often is given up by design.

*Broadcasts.* Three campaigns on two threads outgrow a dictionary of one walk; mishaps need two, the one
they happen to and the one that drops its walk. The constraint `FewMishaps` of `MCBroadcast` says so: TLC explores
three broadcasts without a mishap (page failures and addresses over the budget excepted), and two with one mishap
of any kind. What is proved has no such limit.

*Symmetry* is used only in runs without liveness, over threads, jobs, people and
campaigns whose values are interchangeable in the configuration.

*Deadlock* is not checked (`CHECK_DEADLOCK FALSE`): once every bounded counter is
used up and all threads are idle the model stops, as a server does that nobody calls.

*Fairness.* `Orders!FairSpec`: weak fairness of the steps of each handler that
has begun; gunicorn's threads are scheduled and every remote call has a timeout
(`supabase_store.py`), so a call returns or raises. Arrivals, failures, restarts
and toggles are not fair. `TaskQueue!FairSpec`: weak fairness of each draining
thread (a loop that waits on an event with a timeout), of the scheduler's
replacement of a dead thread (every tick), and of time passing. `Broadcast!FairSpec`:
weak fairness of each draining thread. The cancel is not fair: an admin may never press
it. `Shelf!Fairness`: the scheduler comes round and finishes the sweep it began; shoppers and
the owner owe nothing. `Outbox!FairSpec`: the browser's callbacks and timers come, in a tab
that is open; the user and the network owe nothing, so that `EverySaveSettles` assumes a
connection that stays up. `SupplierAlerts!FairSpec`: the tick's drain begins when something is due,
a drain that began goes on (the watchdog's run has a time limit and every call a timeout),
and time passes over a claim left behind; the watchdog need not run again.

## 5. What is proved

TLAPS checks these for every value of the constants that satisfies the modules'
`ASSUME`s (any number of orders, lines, threads, any cart, any stock, any set of
possible failures, any bound):

| Theorem | Statement |
|---|---|
| `OrdersProofs!TypeCorrect` | `Spec => []TypeOK`; `stock` in `Nat` is the rule that the shelf never goes below zero |
| `OrdersProofs!AlwaysInductive` | `Spec => []Inductive` |
| `OrdersProofs!LedgerAlwaysBalanced` | `Spec => []LedgerBalanced` |
| `OrdersProofs!AcceptedAlwaysRecorded` | `Spec => []AcceptedIsRecorded` |
| `OrdersProofs!DivergenceAlwaysReported` | `Spec => []DivergenceIsReported` |
| `OrdersProofs!UnitsAlwaysConserved` | `Spec => []UnitsConserved` |
| `OrdersProofs!RetriesAlwaysCovered` | `RetriesOnly` implies `Spec => []Covered` |
| `OrdersProofs!RetriesNeverOversell` | `RetriesOnly` implies `Spec => []NeverOversold` |
| `OrdersProofs!DecisionsAlwaysStand` | `OneAtATime` and `RestoresAll` imply `Spec => DecisionStands` |
| `OrdersProofs!CleanShopKeepsLedger` | `Spec /\ []AllClean => ImplementsLedger` |
| `OrdersProofs!HandledFailuresKeepLedger` | `HandledOnly` implies `Spec => []AllClean /\ ImplementsLedger` |
| `TaskQueueProofs!TaskTypes` | `Spec => []TypeOK` |
| `TaskQueueProofs!RunningAlwaysHasRunner` | `Spec => []RunningHasRunner` |
| `TaskQueueProofs!LogAlwaysBounded` | `Spec => []LogBounded` |
| `TaskQueueProofs!LiveJobsAlwaysKept` | `Spec => LiveJobsKept` |
| `BroadcastProofs!BroadcastTypes` | `Spec => []TypeOK`; the dictionary of walks holds at most `MaxStreams + Cardinality(Drainers) - 1` |
| `BroadcastProofs!BroadcastAlwaysInductive` | `~SameJobTwice` implies `Spec => []BroadcastInductive` |
| `BroadcastProofs!MailedAlwaysOnce` | `~SameJobTwice` implies `Spec => []MailedOnce` |
| `BroadcastProofs!EveryoneAlwaysAccountedFor` | `~SameJobTwice` implies `Spec => []EveryoneAccountedFor` |
| `ProductBinProofs!BinTypes` | `Spec => []BinTypeOK` |
| `ProductBinProofs!BinInvariant` | `Spec => []BinInductive` |
| `ProductBinProofs!NeverLost` | `Spec => []NothingLost` |
| `ProductBinProofs!BinnedAlwaysOut` | `Spec => []BinnedStaysOut` |
| `ProductBinProofs!GoneAlways` | `Spec => GoneForGood` |
| `SupplierAlertsProofs!AlertsTypes` | `Spec => []AlertsTypeOK` |
| `SupplierAlertsProofs!AlertsInvariant` | `Spec => []AlertsInductive` |
| `SupplierAlertsProofs!AlertAlwaysKept` | `Spec => []AlertKept` |
| `SupplierAlertsProofs!MailedOnceAlways` | `Spec => []MailedOnceEach` |
| `ShelfProofs!CountsAlwaysExplained` | `Spec => []CountsExplained` |
| `ShelfProofs!ShelfAlwaysTyped` | `Spec => []ShelfTypeOK`; no variant and no total below zero |
| `ShelfProofs!TotalAlwaysSplitsOnlyBlindly` | `Spec => []TotalSplitsOnlyBlindly` |
| `OutboxProofs!OutboxTypes` | `Spec => []OutboxTypeOK` |
| `OutboxProofs!OutboxKeepsInvariant` | `Spec => []OutboxInductive` |
| `OutboxProofs!SavesNeverLost` | `Spec => []NothingLost` |
| `OutboxProofs!WithdrawnNeverReturns` | `Spec => []WithdrawnIsGone` |

The sets of orders, threads and variants are assumed finite (`OrdersAssumption`, `ShelfAssumption`), since
the properties add over them. The lines of the catalogue, the jobs of the queue and the calls of the outbox
need not be.

*Sums.* `SumFunctionOnSet` of the community modules is a recursive function on the subsets of a finite
set. The library's induction over finite sets takes a predicate as a parameter, which the provers here cannot
instantiate; well-foundedness of strict inclusion is a plain fact, and gives every nonempty family of subsets a
minimal member (`MinimalSubset`). A formula about sums that failed for some subset would fail for
a minimal one, and taking one element out of that leads to a contradiction. `Sums` proves in this way that the
recursion has a solution, that it unfolds, and what the models need: one term changes (`SumChange`), all
terms are naturals (`SumIsNat`), one sum is below another (`SumMonotone`), a set is split
(`SumPartition`), two sums are added (`SumPlus`).

*The ledger.* `LedgerBalanced` is not inductive: it says nothing of where a
request stands, so a step such as "write the row and drop what was in hand" cannot be
shown to keep it. `Inductive` (in `OrderProperties`, and checked by the run
`orders_retries` too) adds for every order with an empty `causes`:

* `Alone`: at most one request works on it (a second would have blamed `overlap`);
* `Staged`: what the request's `pc` implies. A checkout past the duplicate check has
  no cached row to collide with; a take or give has its lines split between
  `todo` and `moved`; the row a decision read is still the one in the cache;
  after the order is recorded the table holds the row just written;
* `Balanced`, `Recorded`, `Agreed`: the three properties in the form the steps need;

and `Posted`: ids that nobody posted have no rows. The proof first shows that a step of
one thread leaves orders it does not work on alone (`OtherOrderKept`,
`OthersUntouched`), so one order and one thread remain; that a step that blames the
order has nothing to show (`Clean'` fails); and then goes through the handlers in
groups: `QuietStepsKeep`, `ReservingStepsKeep`, `RecordingStepsKeep`,
`DecidingStepsKeep`, `RemovingStepsKeep`, `ArrivalsKeep`, `ToggleKeeps`,
`RestartKeeps`. `SyncedOwes` is the fact about `_sync_order_stock` on which the
decisions rest: the new row owes the units exactly when the old did, plus what
was taken, less what was given.

*Units.* `LedgerBalanced` speaks of one order; `UnitsConserved` adds over all. The step between is
`Accounted`, which no mishap can break: the shelf and what was physically taken for every order, each
time its cart, make up the initial stock. Each step moves one line of one order (`UnitsMove`) or
nothing. For a clean order what was taken is what its row and its request say (`CleanOrderOut`), so
the two together are the property.

*Retries.* `NeverOversold` has to survive lost replies, overlapping posts and restarts, so the clean orders of
`Inductive` are of no use. `Covered` counts claims instead: of every order's line at least as much was taken
as its running checkouts hold, plus one if the order has a row that outlives them. Whatever goes wrong takes too
much, never too little. This is true under `RetriesOnly`: no decisions and deletions (a release that fails
half way, or is repeated, gives back too much), no order write that lands and reports a failure (the units go
back and the row stays), and no refused undo (the same). `Covered` and `Accounted` bound the
promised units by the stock.

*Decisions.* A checkout reopens a decided order only if it saw no row in SQLite. The invariant `Guarded`
says that a decided record has its cached row (`Known`), and that the one request on the order still sees what
it saw (`Informed`). `OneAtATime` is needed: a checkout past the duplicate check overwrites a decision
that another request makes before it writes. So is `RestoresAll`: boot restores 500 rows at most (`app.py:364`),
and the oldest orders are not recognised after that. Both hypotheses are those of the run
`orders_course`. Refused calls are not restricted: a cached row that was never written also
cannot be decided on, since the admin's handler reads SQLite.

*The refinement.* Under the mapping of `ImplementsLedger` a state of the handlers is a state of `SaleLedger`
whose orders are sold when their row owes its units and no request is giving them back, and whose shelf is the
stock plus what requests hold. `LedgerAddsUp` shows, from `Inductive`, `Accounted` and
the facts about sums, that in a clean state this shelf plus the carts of the sold orders is the
initial stock. So the abstract shelf is a function of who is sold. A step works on one order
(`StepsKeep`), hence changes whether this order is sold, or nothing: it is a `Sell`, a `Refund`
or a stutter, and a sale finds its units because the shelf after it is a natural number.
`CleanShopKeepsLedger` needs no hypothesis about constants; it says where the ledger stops being
one, namely at the first of the ten mishaps. `HandledFailuresKeepLedger` gives a shop in which they do not happen
(`HandledOnly`): one request per order, no reopening, editing or restart, and failures only of
those calls after which a handler puts things right. Its invariant `AllInOrder` shows that no such shop
ever blames an order. The configuration of `orders_ledger` satisfies `HandledOnly`.

*The queue.* `RunningHasRunner` is inductive with the type invariant: only `Start`
makes a job running, and the same step puts its thread in `run`; a thread leaves
`run` by giving the job an outcome or by dying. The step to see is two threads in
one job: the first outcome ends the state `running`, and the second thread can only
write another outcome. `LogBounded` and `LiveJobsKept` rest on `LogOrdered`: the listed jobs carry different
numbers, so there is one oldest job, dropping it makes room for exactly one, and it is live only
when all are.

*Broadcasts.* `MailedOnce` and `EveryoneAccountedFor` speak of the mails and the log; why they stay true
depends on the walk, which survives a pass but not its eviction or a restart. `BroadcastInductive` says of every
campaign that either no thread is in it and one job of it waits at most (`Waits`), or one thread runs it and
no job waits (`Runs`), and in both cases, for every address:

* one that was mailed is in the log before a pass can open a new walk, and the newest walk has
  yielded it or is going to skip it (`Past`);
* one that the newest walk skips or has yielded is in the log, missed, or in the thread's hand (`Kept`), unless
  the campaign is cancelled and its pass about to end;
* once the pass has found nothing more to send, everyone is recorded (`Placed`), so that the status written
  in the end is true (`Reported`).

The bound on the dictionary needs more than the check that precedes an insertion, since another thread may insert
between the two. `StreamsFit` counts: the walks listed, and the threads that have made room and have yet to list
theirs (`Opening`), are together at most `MaxStreams + Cardinality(Drainers) - 1`. A thread that finds the
dictionary full drops one walk and counts as one that opens; one that does not finds at most `MaxStreams - 1`
listed, and at most all threads opening; one that lists its walk passes from the one count to the other. The steps use the library's facts about cardinalities
(`FS_AddElement`, `FS_RemoveElement`, `FS_Subset`). It needs no assumption about who runs which job.

The proof shows that a step of one campaign leaves the others as they were (`ApartKept`; a walk evicted
from the dictionary is only opened anew later), then goes through the steps of the campaign's one
thread. Here it assumes that no two threads take one job: the two theorems are about that case, and
the queue does not exclude the other (`MCTaskQueueTwice.cfg`).

*The Trash.* `NothingLost` and `BinnedStaysOut` are not inductive: a request about to
write a list might hold anything. `BinInductive` adds for every request

* `Fresh`: the lists it holds are those of the store, but for the products in `off[r]`; what a kept list has
  wrong is in `off[r]` from the read on;
* `Staged`: how far a move to the Trash, a restore or a recovery has come. Until its
  tombstone is written the product is still sold, once it is marked the
  tombstone stands, and a restore that clears the tombstone has its row back;
* `Routed`: which operation makes which calls, and that what is deleted for good was asked for;
* `Crossing`, for every two requests: a move to the Trash that begins while a save of the
  same product has yet to be done with its tombstone, the second clearing included, either sees that save's work or is seen by it. Without
  it the save could clear the tombstone that the move relies on, and nobody would be blamed.

The proof goes call by call; a write of a list is one lemma for all operations that make it.
`GoneForGood` needs none of this: the only steps that put a row back are those that
`Rejected` refuses.

*The alerts.* `AlertsInductive` says that what an actor holds of the ledger is up to date but
for `off[a]` (`UpToDate`), that a drain is about to claim only what is pending and nobody's
(`Picked`), that from its claim to its end the ledger shows its claim on what it mails (`Holds`,
which is what keeps the other drain away), and that what is pending is owed, or has
just been told by a drain that has yet to write so (`PendingIsOwed`).

*The shelf.* What an editor read is still true of every variant that nobody has touched
since (`Fresh`), so a whole-row save changes the variant the owner typed, which it books,
and those touched meanwhile, which it makes stale. That the total stays the sum of the variants, and so a
natural number, follows from `SumChange` for a reservation and from the sweep's and the screens' writing
both at once; only the give-back that could not read the catalogue moves one without the other.

*The outbox.* `NothingLost` says that a call is held by an open tab or by the storage, or settled. It is
not inductive, since closing a tab must not lose what the tab held. `OutboxInductive` adds what makes it so:
a closed tab holds nothing, what a flush goes on sending is still in its tab's queue or settled, and
what waits in a queue and fits into the storage is stored or settled; and, for `WithdrawnIsGone`,
that what was withdrawn is in no tab, not stored and not late. Each step is one tab's: the proof reduces it
to where the tab's jobs came from and where they went (`TabStepKeeps`).

Model-checked only: liveness (`EveryRequestEnds`, `OwedIsDone`, `BroadcastEnds`, `TotalsReconciled`,
`EverySaveSettles`, `PendingEnds`), since the prover has no rules for fairness and `ENABLED`; and the
properties of section 6, which are false.

## 6. What the models show to be wrong

Each is a behaviour of the code that contradicts a line of the repository. The
configurations named here are kept beside the runs; each checks one property, which TLC
finds violated (`tlc -config MCOrdersRepost.cfg MCOrders.tla`). Some further properties of this
kind are stated in the modules without a configuration of their own; what to change in a kept one is said.

*Orders*
* `MCOrdersTwicePosted.cfg`, `TakenOnce`: two posts of one id in flight together both reserve. The
  docstring (`api.py:1916`) says a re-post is always safe. Two confirmations of a reopened
  order in flight together both take its units likewise (docstring `api.py:1446`).
* `MCOrdersLedger.cfg` with `"cache"` added to the set `Handled` of `MCOrders`, `ImplementsLedger`: a checkout whose
  SQLite row could not be written is answered "ok" (`api.py:2308`), and its repetition is not recognised
  and takes the units a second time, though no two requests overlap (docstring `api.py:1916`).
* `MCOrdersReopened.cfg`, `ReleasedAsTaken`: a refused take counts as applied (`api.py:1434`), so a later
  decline returns units that were never taken (docstring `api.py:1454`).
* `MCOrdersRepost.cfg`, `RepostReturnsStoredOrder`: the stock check (`api.py:2070`)
  runs before the duplicate check, so the retry of a checkout that took the last unit
  is told it is sold out.
* `MCOrdersDelete.cfg`, `RefusedDeleteChangesNothing`: "No changes were made"
  (`api.py:5413`), but the units went back.

*Task queue*
* `MCTaskQueueRestart.cfg`, `OwedIsDone`: after a restart nothing queues outstanding work again
  (docstring `task_queue.py:25`).
* `MCTaskQueueOrphan.cfg`, `OrphansPickedUp`: a job whose thread died stays `running`
  for ever (comment `scheduler.py:382`).
* `MCTaskQueueTwice.cfg`, `OneRunnerPerJob`: the worker and the scheduler's sweep can
  both run one job (docstring `task_queue.py:338`).
* `MCTaskQueueDedupe.cfg`, `OneWaitingPerTask`: the duplicate check does not see a
  job that waits for a retry (docstring `task_queue.py:146`).

*Broadcasts*
* `MCBroadcastOnce.cfg` with the one invariant `StreamsWithinLimit`: two threads that open walks of two campaigns
  both make room before either lists its walk, and the dictionary exceeds its limit
  (`api.py:8264`–`8270`, no lock; "`assert len(api._broadcast_streams) <= api.BROADCAST_MAX_STREAMS`",
  `tests/test_memory_hygiene.py:228`, which opens the walks one after another).
* `MCBroadcastResume.cfg` with `SPECIFICATION Spec`, `PassBudget = 1` and the invariant `EveryoneTried`: at every pass boundary one address is taken from the
  generator and neither mailed nor logged (comment `api.py:8254`). A generator that raised is
  finished too: the retried pass settles the broadcast as sent to whoever it had reached.
* `MCBroadcastEnds.cfg` with `SPECIFICATION Spec` and the invariant `CancelStopsNextPass`: a pass overwrites a cancel written
  after it read the status (docstring `api.py:8575`).
* `MCBroadcastResume.cfg`, `BroadcastEnds`: a broadcast caught by a redeploy stays in
  `sending` (comment `api.py:8148`).

*Stock of a product*
* `MCShelfSweep.cfg`, `LockOutlivesSweep`: the sweep reads a row, the owner locks the product, and the
  sweep's save, which says "units", releases the lock (`catalog.py:1122`, `catalog.py:3701`; "A manual Out-of-stock lock
  survives every automated writer", `tests/test_manual_stock_lock_enforced.py:1`).
* The same configuration with `Jobs <- MapOnly` and `OtherVariantsKept`: saving one variant's
  number writes back the others as they were read, over a reservation in between (`catalog.py:2998`).
  With `Jobs <- AllJobs` and `PhotoLeavesLock`: replacing a photo
  of a product with stock releases its lock.

*Product deletion*
* `MCProductBinRestored.cfg`, `RestoredIsServed`: a product trashed and restored by one process
  stays in that process's list of hidden ids (`catalog.py:4030`), and the restore answers success (`api.py:6116`,
  `6141`) while the shop goes on hiding it (`catalog.py:2045`).
* `MCProductBinPurge.cfg`, `PurgeKeepsOthers`: a failed purge writes back the trash list it read
  before (`api.py:6186`), and with it an entry another request has removed meanwhile.
* `MCProductBinRestored.cfg` with `Refusable <- ListReads` and the invariant `TrashedStaysOut`: a list of
  tombstones that cannot be read counts as empty, and the next one written replaces it: a bundled product
  in the Trash is sold again ("until it is restored or permanently deleted", `api.py:5929`).
* `MCProductBinRestored.cfg` with `Losable <- Tombstones` and the invariant `KeptIsCurrent`: a write of the
  tombstones that lands and loses its reply does not drop the list the process keeps, which is then wrong
  for up to ten seconds with nobody at work ("every write that can change any of these reads goes through
  THIS module and calls `invalidate_read_cache()` immediately", `supabase_store.py:71`; "The 10s TTL only
  bounds out-of-band edits", `supabase_store.py:80`; the call stands after the write, in the same `try`,
  `supabase_store.py:3578`). Two courses follow, both in the model. A restore's clear lands without a reply,
  and the next move to the Trash or queued deletion of another product extends the kept list, which still
  has the restored one, and writes it back: the product is out of the shop and out of the Trash, and nobody
  asked for that. Or the restored product is moved to the Trash again: `_trash_product` finds its id on the
  kept list (`api.py:6051`), writes no tombstone, and if its row cannot be marked either, the success it
  answers is all there is: the product is still sold.
* `MCProductBinRestored.cfg` with `Refusable <- Tombstones` and `SnapshotKept`: when the tombstone is refused,
  the move to the Trash is undone but the product stays hidden in this process; moved to the Trash
  again, it leaves an entry with no more than its id, which cannot be restored ("a full snapshot is kept", `api.py:5924`).

*Browser outbox*
* `MCOutboxOlder.cfg`, `NewestSaveStands`: the older save is put back or served late
  after the newer one reached the server (`js/net.js:431`, `445`; "never stacks duplicate/stale payloads",
  `js/store.js:2045`).
* `OrdersNotEvicted`, with `Orders <- OneOrder` in that configuration: a full queue throws out its oldest job, an order
  included (`js/net.js:389`; "Nothing a shopper or an admin saves is lost", `js/net.js:5`).

*Supplier alerts*
* `MCSupplierAlertsRace.cfg`, `DrainsDoNotRace`: two drains that both load before either saves its claim
  both mail (the docstring, `supplier_alerts.py:329`, says they cannot).
* The same configuration with `MailedIsTold`: an item that goes from low to out while its mail is under way
  is marked as mailed at the worse level, so the owner is never told it is out (`supplier_alerts.py:392`–`405`).
  With `Items <- TwoItems`: more alerts are claimed than one mail holds, and all are marked as mailed.
* `SeenLeavesMail`, with a mark allowed there: the owner's mark writes back the whole ledger as it read it, over
  what a drain marked meanwhile ("Emails are unaffected", `supplier_alerts.py:471`).

## 7. What is not modelled

* The local development backend (JSON override file, `catalog.py`'s lock): production
  never takes these branches.
* Money, discounts, delivery, currencies, texts and mails of an order: nothing about the
  stock depends on them. Validation of a malformed request, and logins: a request
  that is refused before the stock check changes nothing.
* A broadcast's list of addresses is fixed while it runs; the paging by offset over
  growing tables (`api.py:8070`) is a listed hazard. The mirror copy of campaigns in
  PostgreSQL is left out, since nothing reads it back.
* A collision of order ids drawn in the browser (`js/store.js:2353`) acts as a second post of one id,
  which `Orders` has.
* The hooks of the task queue that only tests call.
* `ProductBin`: images in storage and the audit log. `Shelf`: the supplier's capped write
  of stock, since `apply_supplier_stock` has no caller. `Outbox`: reads and their cache, uploads.
* `SupplierAlerts`: the ledger's limit of 1000 entries; of the watchdog, page parsing, the price
  book and the rotation of links, which are computations on what a page told.
* Abandoned carts. A reminder is claimed by one conditional UPDATE in SQLite
  (`abandoned.py:236`), so two ticks cannot both send it. What a model would show: a process that
  dies between the claim and the mail leaves the cart claimed, and nobody reminds the shopper;
  and `due_carts` copies rows from PostgreSQL over SQLite, so that a sent mark the remote
  store never got (its failure is only printed) leads to a second mail after a redeploy.
* Lists of batches and expenses of the accounting desk: JSON lists read and written back whole, the
  pattern that `ProductBin` and `SupplierAlerts` show twice.
* Google Sheets, storage, backups, migrations, analytics, health checks, categories and the pages
  themselves: input/output, formatting or reports that the modelled state does not depend on.

## 8. Plan

Done, in the order of consequence: orders, the queue, broadcasts, product deletion, the stock of a product,
the browser's outbox, the supplier alerts. What is left:

1. `Receipts`: receipts sent later and their deletion through the queue; `Reminders`: claim, mail,
   release, convert.
2. The queue and the broadcast in one module, so that "the same job twice" and the
   retry of a pass follow from `TaskQueue` instead of being assumed; likewise `RunJob` of `ProductBin`
   and the late attempts of `Outbox` composed with `Orders`.
3. Abstract specifications: the queue as a set of tasks done at least once, which
   `TaskQueue` implements without restarts; a broadcast as a set of people each
   mailed at most once.
4. Proofs of those refinements; the shelf of `Orders` from the row of `Shelf`.
