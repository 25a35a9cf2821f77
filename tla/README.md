# Verification of Albion-Quant-System

Albion-Quant-System watches the markets of Albion Online: it polls prices from a
public HTTP API, follows a live stream of orders, keeps both in one table,
searches them for arbitrage and crafting opportunities, serves what it finds to
a web UI and posts the best of it to Discord.  All of it is one Python process
with one asyncio event loop and a few worker threads.

This directory holds TLA+ models of the stateful core of that process, of the
scans that search for opportunities and of the requests that feed them, the TLC
configurations that check them on small instances, and proofs, checked by
TLAPS, that every safety property of every passing run holds for every value of the
parameters.
`PROJECT.json` lists components, runs, mutants, hazards and theorems, and maps
every definition to the lines of source it stands for.

    tlc -workers 2 -config MCScheduler.cfg MCScheduler     # a run
    tlapm SchedulerProofs.tla                              # a proof

## 1. Inventory

Paths are relative to `app/`.  "Await" marks a point where other tasks run.

| Component | State it keeps | Operations | Talks to |
|---|---|---|---|
| Scheduler, `workers/scheduler.py` | `_is_running`, `_cycle_running`, `_current_partition`, `_loop_task`, the APScheduler | start, stop, shutdown, loop, `master_cycle`, volume refresh, cleanup | collector, engine, cache, alerts; called by `api/system.py`, `alerts/bot.py`, `main.py` |
| Market collector, `ingestion/collector.py` | `_ingest_lock`, `_stop_requested`, base URL | `collect_partition`, `refresh_volumes`, `request_stop` | HTTP client, repository (worker thread) |
| Price store, `db/repository.py`, `db/models.py` | table `market_prices`: one row per item, city, quality and five minutes | two upserts, prune, purge, load | written by collector and flusher, read by the scanner |
| Live order book, `ingestion/nats_client.py`, `api/ingest.py` | `live_orderbook`, `order_buffer`, two tasks | order and history messages, private ingestion, purger, flusher, VWAP | price store (worker thread), scanner, dismissal |
| Opportunity cache, `api/system.py`, `core/reconciliation.py`, `core/state.py` | the latest opportunities, fill marks, dismissals | scan, reconcile, serve, dismiss, clear | scheduler, live book, web UI |
| Alerting, `workers/scheduler.py`, `alerts/discord.py` | `_alert_history`, the alert switch, posts in flight | filter and group, send, retry, toggle | Discord webhooks |
| HTTP client and rate limiter, `services/` | slowdown factor, time of last request | acquire, get with retries | collector |
| Opportunity engine, `core/opportunity_engine.py` | none between scans | twelve scans, one computation each, over the loaded prices | scanner |
| Scanner, `core/scanner_integration.py` | the prices of a pass | load, run the scans, convert, save | price store, engine, cache |
| Freshness ladders, pricing, market quality, rates, `core/` | none | limits by price and volume, slippage, return rates | engine |
| Database session, other tables, `db/` | engine, tables of opportunities and profiles | upserts and inserts | everything |
| Bot, API routers, web UI | a statistics cache and a refresh flag | commands, queries, settings | scheduler, alerts, cache |
| Static data, configuration, logging, monitoring, research, scripts | files and counters | start-up and offline work | - |

What is hard about it, and what makes each part correct:

* **Scheduler.**  Stop, start, dispatched scans and a bot countdown interleave
  with cycles that await for minutes.  A boolean plays the part of a lock, a
  second lock is held across requests, tasks are cancelled wherever they wait.
  Correct means: one ingestion at a time, no flag, lock or loop left over by any
  sequence, no partition skipped or repeated for ever, every waiter served, and
  order restored after every stop in the middle of a cycle.
* **Price store.**  Two writers with different upserts share a row, and one age
  stands for two prices.  Retention and lookback are constants of three files.
  Correct means: the age of a row is that of one of its prices, and the price
  whose age was checked at the door is bounded in age where it is loaded.
* **Live order book.**  Prices are derived and kept beside the orders; a purger
  deletes by three criteria; a buffer is written by a thread.  Correct means:
  prices belong to the orders, live orders stay, bait orders do not move the
  price, the buffer drains.
* **Opportunity cache.**  A card is dismissed from an answer that may be old;
  marks are dropped as a side effect of reading; ages of different scans are
  compared.  Correct means: what the user dismissed stays away, what is valid
  stays, what is served is not too old.
* **Alerting.**  The history is written before the dispatch, which can lose the
  alert; two cycles can share it.  Correct means: no repetition within the
  cooldown, nothing held back that does not repeat something, every dispatch ends.
* **HTTP client, rate limiter.**  Spacing of requests, slowdown after errors,
  retries; the scheduler's fairness rests on their ending.
* **Collector's requests.**  Batches are cut by three limits at once; a pass
  holds the ingestion lock through retries and pauses.  Correct means: every
  item is asked for once, refusals are answered by a pause, a pass ends.
* **Engine, ladders, pricing helpers.**  Outlier filters, medians, floors,
  estimates and quality substitution stand between a listed price and the profit
  that is promised.  Correct means: a promised profit is one the listed prices
  yield, costs are those of goods that are offered, better goods are not
  cheaper, no two routes contradict each other.

`PROJECT.json` lists the hazards at the lines where they bite; those without a
property say why, and more observations are in section 6.

## 2. Modules

| Module | Models | Lines |
|---|---|---|
| `Scheduler` | engine, loop, cycles, volume job, ingestion lock, callers | 617 |
| `SequentialCycles` | what the partition cycle promises: one actor, no tasks or locks | 60 |
| `MarketStore` | the rows of one key, both writers, retention, restarts, the loader | 299 |
| `Orderbook` | the arithmetic of a book: metrics, depth price, VWAP | 92 |
| `LiveOrderbook` | books, purger, buffer, flusher, stored rows; extends `Orderbook` | 335 |
| `OpportunityCache` | cache, dismissals, fill marks, reconciliation, scans, requests | 362 |
| `Alerts` | choice of alerts, history, dispatch, retries | 316 |
| `Requests` | batches and passes of the collector, retries, rate limiter | 320 |
| `Freshness` | how old a price may be, by price, kind and volume | 116 |
| `Pricing` | loaded rows, the outlier filter, the sanity of offers and requests; extends `Freshness` | 171 |
| `Sourcing` | where goods are bought: offers of any quality, batches, cleaned prices; extends `Pricing` | 148 |
| `Trading` | scans that buy and sell one item: flips, arbitrage, inversions, fills; extends `Sourcing` | 195 |
| `Workshops` | crafting, refining, enchanting, transmutation; extends `Sourcing` | 349 |
| `Islands` | islands, home brewing, consumables; extends `Workshops` | 161 |
| `ScanAll` | one pass of all scans; extends `Trading` and `Islands` | 148 |
| `SchedulerProofs`, `MarketStoreProofs`, `LiveOrderbookProofs`, `AlertsProofs`, `OpportunityCacheProofs`, `RequestsProofs`, `ScanAllProofs` | the theorems | |
| `Induction` | what the proofs need of recursive functions: induction over numbers, runs along a sequence, sums over finite sets | |
| `MCScheduler`, `MCLiveOrderbook`, `MCOpportunityCache`, `MCAlerts`, `MCRequests`, `MCScanAll` | values of the constants for TLC (`MarketStore` needs none) | |

Definitions whose comment begins with "Mutant:" stand beside the definition
they alter, the way a plausible bug would.  No behaviour of a module uses them;
each shows that a property of some run is able to fail.

### Scheduler

A step is what one task or handler does between two awaits, since all of it
runs on one event loop.  A task is a slot whose `pc` says where its coroutine is
suspended: its first step is due, it waits for the ingestion lock, for the request
of a batch (`fetch`), for its write in a thread (`write`), for the alert dispatch,
or pauses between cycles.  `cancelled` is a cancellation not yet delivered.
`Start`, `Stop` and `Shutdown` are the methods with everything they change;
`StartEngine`, `BotStart`, `BotLaunch` and `StopEngine` are their callers with the
callers' own guards.  What comes between two awaits is one action, for example the
scan, persistence and filtering between ingestion and alerts (`ScanAndAlert`).  How
many batches an ingestion has is nondeterministic up to `MaxBatches`; any phase can
fail.

Only writes leave the loop.  `save_snapshots` and `update_volume` run in
`asyncio.to_thread` (`db/repository.py:89,195`), and a thread is not cancelled with
the coroutine that awaits it: `DeliverCancel` releases the ingestion lock, and so
does a refresh of volumes of which one write failed (`FailVolumes`), while the
thread goes on.  Such a slot is `late` until `FinishLateWrite` and is not used
again before.  The lock keeps apart the tasks that ingest, not the writes.

A stop is allowed at any time, also in the middle of a cycle, where it clears the
flag of a cycle that goes on.  The history variable `interrupted`, which no guard
reads, is set by such a stop and cleared when the last cycle in progress has ended;
CycleMutex, CycleOnCurrentPartition and FlagIsExact hold whenever it is not set.

`SequentialCycles` is the abstract specification: an actor that begins a cycle
on the partition it stands at, finishes it and moves on; a stop in the middle of a
cycle disturbs it, and while it is disturbed all that is promised is that the
rotation moves by single steps.  The mapping takes `rotation` to
`current_partition`, `disturbed` to `interrupted` and `active` to the partition of
the task that is inside `master_cycle`.

### MarketStore

One item, city and quality.  A price is represented by the time at which it was
known to stand (`sell_price_min_date`, `buy_price_max_date`): every property of
the store is about the age of a price, none about its amount.  `row` is a
function from buckets; `api` and `flush` are the records the two writers hold
between capture and write, so that a write may come late, in any order with the
other writer's, or fail.  The live book is reduced to the sides it has orders
of (`orders`), the sides it has a price for (`live`) and `last_updated`: a book
that has lost its last order is not priced again and keeps serving what it had
until it is dropped.  The age of a record of the collector is that of its sell
price, of the Black Market too: `DataAge` follows the comparison in
`ingestion/collector.py:110`, which is never true (section 6).  `Loaded`, `DbSell`,
`DbBuy`, `ShownAge` are `_load_prices` with its merge of table and live book.

### Orderbook and LiveOrderbook

`Orderbook` holds `_recalculate_lob_metrics` and `get_vwap_for_quantity` as
operators over a side, a function from order ids to records.  `LiveOrderbook`
has the books as a function on the listed keys, one action per message kind,
for one round of the purger, for handing over and writing the buffer, for
dismissal, start and stop.  The writer thread reads each book in one step; the
Python thread reads a few fields of one dictionary, and books are replaced
field by field on the loop.

### OpportunityCache

The cache is a function from opportunity keys (category, item, route, quality)
to what the properties need of an entry: price, age of the data, when it was
observed, when it was detected.  `market` is the row of each Black Market order that
was captured last: its price, when it was captured, and when the price was observed,
which may be before the observation of the row it replaces (`data_age_seconds`).  A
scan goes by the observation, the test for a fill by the capture, as in the code.
`order` is the order in which entries are met, any of `Arrangements`, because the
categories come from a Python set; meeting an entry can drop the mark the next one
is tested against, so `Sweep` and `Reconcile` are recursive
functions of the number of entries met, with `Meet` and `Retain` as their steps.
Which of the findable keys a scan returns is nondeterministic.  `shown` is the
last answer a client has, from which it may dismiss a card at any later time.
`marked` is a history variable: the cards marked as filled, until what `Lifts` a
mark is found by a scan or met by the dismissal itself.

### Alerts

`ChooseAlerts` is one step from the filters to the entry of
`send_batch_alerts`, as there is no await between them.  Scores are abstracted:
where the code keeps the best of a list, any selection of the right size is
possible.  `KeyOf` gives the key of an opportunity in the history, which names item
and route but not the quality: several opportunities may share one, and of those
chosen together any may be the one recorded last.  A post is accepted, refused or
times out, in which case it may have been delivered all the same.  `alerted`, `delivered` and `report` are history
variables which no guard reads.

### Requests

A pass of the collector (`collect_partition`, `collect_volumes`) is a list of
batches and a place where its task waits: for the limiter, for an answer, in a
backoff, between batches or cooling down.  `SafeBatches` is
`build_safe_batches` with the length of the URL, the weights and the number of
items, a recursive function of the number of items packed with `Pack` as its
step; a partition is what Python's `hash` of the names selects, a constant of
each item here, as it is of each process there.  `Acquire` reckons the sleep of
the rate limiter once and sleeps that long; `since` is the age of its
`last_request_time`, `slowdown` its factor in fixed point, both of which outlive
the pass.  Each outcome of a request is an action: answered, rejected with a
status that is not retried, retried, refused for good (429, which raises),
unanswered (everything else, which returns None), or an answer that cannot be
read or saved.  Stops, new cycles and cancellations happen at any time.
`Scheduler` has the lock around a pass; this module has what goes on inside, and
`refusals` is a history variable.

### Freshness, Pricing, Sourcing, Trading, Workshops, Islands, ScanAll

The opportunity engine is pure: a scan maps a dictionary of prices to
opportunities.  Each scan is an operator that yields the set of them, built of
predicates that are the `continue`s of the loop, in their order.  `Freshness` has
the tables and boundaries of age; `Pricing` the outlier filter (`Cleaned`),
medians, floors and the sanity of a price; `Sourcing` the ways to buy: the
cheapest royal offer, the ingredients of a recipe, the median that props up a
Caerleon offer. Amounts are integers, hundredths of silver or of a percent, where
the code has floats and rounds; thresholds keep their sides.  An item is a record
of what the scans tell apart (class, kind, tier, enchantment, line of production).
Where the code keeps the best of competing opportunities by a score, `Kept` allows
any one of each group.

`ScanAll` is the pass itself: load, the three scans of the Black Market if asked
for, nine others, return.  The dictionary stays what it was loaded as, while scans
run on it; `found` accumulates what they return, and the properties relate it to
the loaded rows, whatever lies between.  `Trading` treats one item, as its scans
do each item on its own.

## 3. Runs

Deadlock is checked except where stated.  State counts are of distinct states.

| Run | States | Properties | Shows |
|---|---|---|---|
| `scheduler` | 601,368 | TypeOK, IngestExclusive, FlagHasOwner, OneLiveLoop, EngineHasLoop, StandbyMirrorsEngine, CycleMutex, CycleOnCurrentPartition, FlagIsExact, ImplementsSequentialCycles | every order of operations leaves lock, flag and loop with exactly one owner, and the engine is one sequential actor but for the wake of a stop in mid-cycle |
| `scheduler_live` | 13,336 | LockIsGranted, RotationProgresses | whoever queues for the lock gets it, and the rotation of a running engine goes on |
| `scheduler_overlap` | violation | NoOverlappingRuns | stop and start during a dispatched cycle overlap it |
| `store` | 3,481,862 | TypeOK, LegBounded, AgeIsOfAPrice | rows are honest, and the checked price of a loaded row is bounded in age |
| `store_verified` | violation | VerifiedIsFresh | the book's age covers the stored price of the other side |
| `book_prices` | 15,627 | VwapGrowsWithQuantity, BaitIgnored | the arithmetic, over every book of up to three offers |
| `book` | 191,424 | TypeOK, MetricsExact, LiveOrdersSurvive, StoredPricesStay, BufferDrains | the book's life: expiry, purge, dismissal, failing writes |
| `cache` | 64,831 | TypeOK, DismissalHolds, NoPrematureEviction, DataAgeBounded, ItemStaysDismissed | one royal route and two routes to one Black Market order, with captures of old and new observations |
| `alerts` | 417,172 | TypeOK, NoRepeat, NoneMissed, DispatchEnds | two cycles share history and switch, two opportunities share a key |
| `alerts_lost` | violation | HeldBackWasSent | an alert nobody saw is held back for the cooldown |
| `requests` | 247,840 | BatchesAreSafe, RequestsAreSpaced, RefusalsCoolDown, PassEnds | whatever the server answers and whoever interrupts, requests are spaced, batches complete, and a pass ends |
| `scan_all` | 167,167 | NetIsCovered, BetterCostsMore, CostIsOffered, NoRoundTrip | what the scans promise is what the loaded prices yield, and no two routes contradict each other |

### Bounds, and why they are enough

* `scheduler`: two loop slots (an old loop that is cancelled or whose thread is
  late, and the new one), one dispatched scan and the volume job: every pair of kinds
  that can meet at flag and lock is there, and a queue of two waiters.  With both
  slots taken a third start has to wait for one to end.  Three partitions tell
  moving on from moving back, two batches give an ingestion a first and a last.
  `scheduler_live` has one loop slot, one scan and the volume job, as liveness is
  asked of an engine that is left running, and two partitions, which tell "moved"
  from "stayed".  Deadlock is not checked: after shutdown the system stops.
* `store`: buckets of two ticks, a ceiling and a lookback of one and a retention of
  none, so that rows are loaded for longer than they are kept, as by a scan from the
  command line; four ticks and three records.  Three records are what it takes to
  fill a row by one writer, merge it by the other and replace it; the bound of
  `LegBounded` is reached exactly.  Deadlock is not checked: clock and records
  are bounded.
* `book_prices`: three offers, two prices and amounts reach a top offer under,
  at and over the anti bait volume, and fills within, at and past the depth.
  The clock stands still.  `book`: one key, one id per side, a clock of four, which
  passes the end of two buckets; an id that is updated, expires, comes back, and
  has a price or, as some messages do, none.  No invariant relates two keys.
  The clock and the stopped client let these runs come to an end.
* `cache`: a clock of two ticks after the first, so that a price can be observed,
  captured and replaced by an older observation, and every limit (retention,
  dismissal, lifespan of the dearer price) passes; prices 0, 2 and 4, where 0 is a
  filled order, and a slippage that records every price as less than it is, on
  another rung of the ladder of lifespans.  Two routes to one order, which are alike
  but for the place at which they are met, and one royal route of the same item; as
  the two are alike, one arrangement shows what the other would.  A change of the
  arrangement between two scans is left to the theorems, which admit any.
* `alerts`: three opportunities of one category and one channel, two of which are
  qualities of one item and share a key; two of them fit the quota of a category
  and one the limit of a channel, so that both bite; profits 20 and 23 differ by
  exactly fifteen percent; a cooldown of two in a clock of as many passes the
  boundary at which it elapses; two attempts distinguish a retry from the last one.
* `requests`: seven items, of which each limit (length, weight, number) cuts some
  batch, one fills a batch by its weight alone and one is polled with every
  partition; a factor that can rise eight times before it is capped, two refusals
  to the breaker, one retry after either of two backoffs.  `Horizon` is where the
  age of the last request is no longer told apart; `TimeAssumption` puts it past
  every wait.
* `scan_all`: eight families of dictionaries, one per line of business, each the
  product of a few rows per city chosen at the boundaries of its scans: no price,
  cheap, fair, dear, absurd, crossed, one-sided, stale, thin.  Three royal cities
  are the least for which the outlier filter has its case of three or more prices
  besides that of two, with two qualities in the family that substitutes them.
  The family of enchantment materials has a row that is both stale and dear: in
  a city like that an enchantment is priced by the median of others, so that
  CostIsOffered has to say where else the goods are offered.

### Fairness

* `Scheduler`: weak fairness of every cycle, batch and delivery of a cancellation
  (the event loop runs every task that can run, and the HTTP client bounds
  requests, retries and pauses); strong fairness of taking the ingestion lock,
  because `asyncio.Lock` wakes its waiters first in, first out.  Nothing is
  assumed of operators or of APScheduler firing a job.  `RotationProgresses` is
  stated for an engine that stays running.
* `LiveOrderbook`: weak fairness of handing over the buffer and of the write,
  the two steps of an endless loop and its thread.  None of orders or purges.
* `Alerts`: weak fairness of a dispatch: posts have a timeout, pauses an end.
* `Requests`: weak fairness of the collector's steps and of the clock: sleeps
  end, and the timeouts of the HTTP client (`services/http_client.py`) bound how
  long a request takes.  PassEnds then discharges what `Scheduler` assumes of its
  batches, under any behaviour of the server.

### What the violations say

1. `scheduler_overlap`: `stop()` clears `_cycle_running`
   (`workers/scheduler.py:626`) and cancels only the loop's task.  A cycle
   dispatched by `POST /scan` goes on; after a start the loop enters
   `master_cycle` beside it, although the flag was introduced "to prevent
   overlapping runs".  The ingestion lock still keeps their requests apart
   (IngestExclusive), but both scan, alert and rotate.
2. `store_verified`: `_load_prices` takes the smaller of the two ages for prices
   of either source (`core/scanner_integration.py:193`), and freshness tags
   are derived from it.
3. `alerts_lost`: `_filter_and_group` records an alert before the switch, the
   verification, the limit and the webhook can drop it
   (`workers/scheduler.py:259`).

Each is a property a comment, docstring or design document states; the finding
in `PROJECT.json` quotes it.

## 4. Proofs

All theorems are of the form `Spec => []Inv`, `Spec => [][A]_vars` or a
refinement, for every value of the constants that satisfies the assumptions
named in the module; a few notable facts about operators are listed beside them.
Each safety property of a passing run has one.

**Scheduler.**  `TypeCorrect` has two inductive halves, `FlagsOK` and
`TasksOK`; the latter also says where each kind of task can be suspended.
`IngestionIsExclusive`, `FlagIsOwned` and `LoopIsUnique` each follow from their
own invariant together with `TasksOK`: every action that releases the lock also
moves its owner away from the batches.  `EngineKeepsLoop` needs that a
cancellation is only pending for tasks that exist (`CancelledExist`), since an
ended slot would otherwise look cancelled when it is reused.  `StandbyIsHonest`
holds until shutdown, which stops the engine and leaves the mode as it is, when
nothing is served any more.  `FlagIsLock`, `CyclesAreSequential` and
`CyclesFollowRotation` rest on `SequentialInv`: unless a stop has interrupted a
cycle, the flag covers every cycle, there is at most one, and it is on the current
partition.  They admit a stop at any moment and say when order is back: `Settle`
clears `interrupted` only if no other cycle is in progress, so that the invariant
holds again.  Mutual exclusion is not inductive alone, because entering is guarded by
the flag.  `Refinement` shows that under the mapping every step of `Scheduler` is a
step of `SequentialCycles` or leaves it unchanged: `ActiveFollowsFlag` replaces the
CHOOSE of the mapping by the one cycle there is, what an action does to flag,
rotation and interruption is stated apart, and `RefinementStep` names the abstract
step of each action.  None of these theorems assumes anything of operators.

**MarketStore.**  `TypeCorrect` includes that a row lies in the bucket of its
capture.  `AgeInv` is the strengthening for the rest: a missing row has no price,
the checked price was known to stand at most the ceiling before the start of its
bucket, the age is that of one of the prices, and the records in flight have the
same properties. The heart is `WriteKeepsAges`: writing an honest record into an
honest row, by either upsert, keeps it honest.  `LegsAreBounded` adds up the three
windows, whatever their sizes.

**LiveOrderbook.**  `Inv` is the shape of books, their types with the finiteness
of their sides, and `MetricsExact`.  `TypeCorrect` and `RowsKeepPrices` add the
shape of buffer and rows: a missing row is told from a stored one because `Never`
is no bucket.  `OrdersSurvive` is an action property from the same invariant: only
`Purge` and `Dismiss` remove orders, and what `Purge` removes has expired or
outlived its retention.

The other two are about the arithmetic of `Orderbook`, whose units and costs are
sums over finite sets: `UnitsAreASum` and `FillIsASum` show them to be the sums of
`Induction`, which may be taken in any order and apart.  `BaitIsIgnored`: were the
price at which the walk has seen the anti bait volume under the old best offer,
the walk would have met new orders only, and those are too few
(`BaitIsSeenThrough`).  `LargerFillsCostMore`: one more unit costs the price at
which the side has not run out yet (`FillSteps`, where every other price gives
what it gave before); by induction over the quantity, all units so far cost no
more than the next one each (`FillIsBounded`), so the average grows; past the depth
the cost of the units is at most that of the dearest offer each, and the
deficit outweighs it (`DeficitsGrow`).  Both hold of every finite book, where the
runs have three orders.

**Alerts.**  `HistoryIsExact` relates the pruned history of the code to the
history variable that is never pruned: an entry of a key is the last choice of one
of the opportunities that share it, and a missing entry means that every such
choice is more than two cooldowns old or never was.  `NothingRepeated` and
`NothingMissed` follow, for any way in which opportunities share keys.  What a quota
or a limit leaves out is neither recorded nor held back; of it the two say nothing.

**OpportunityCache.**  A sweep over a cache and a reconciliation meet one entry
after the other and change the records that the next one is tested against.  Two
lemmas say what they come to, whatever the arrangement, by induction over the
entries met: `SweepIsSwept` (what is hidden is hidden by a record that is left, and
a record that is gone met fresher data of its order) and `ReconcileIsReconciled`
(each entry that is left was found or is as it was; each that is gone has one of
three reasons; each record is an old one or that of a fill).  `StateOK` then says
of every Black Market entry that it is genuine (`GenuineAt`): its age
is that of its observation when it was detected, the observation was within its
lifespan then, and its price is that of the last row of its order if that was
captured before the detection.
* `DataIsInTime`: what is scanned is within its lifespan, what is retained within
  that of the cache, and the two add up.
* `ItemsStayDismissed` rests on `StruckOK`: a dismissal is on record until its time
  is up, however often it is repeated.
* `EvictionsAreJustified` takes each reason back to a row: one with a lower price
  was captured since the detection of the entry, as an entry detected later would
  have been found at that price (`LowerIsUndercut`); and a record made by a fill on
  one route hides only entries at the price that was filled (`FillHides`).
* `DismissalsHold` rests on `Honoured`: the record of a marked card is kept until
  the mark is lifted, and no entry of its order, of whatever route, is newer data
  for it.  `FresherLifts` shows that what the code takes for fresher is one of the
  three things that lift a mark.  Two of them are not what "fresher" promises
  (section 6).

**Requests.**  `RequestsSpaced` rests on the type invariant and on what the
limiter has promised itself: while it sleeps, the time since the last request and
what is left of the sleep add up to enough.  The clock of the model stops at
`Horizon`, which `TimeAssumption` puts beyond the longest interval.
`BatchesSafe`: packing one more item keeps every batch within the three limits and
the items of all batches, one batch after the other, those that were packed
(`PackKeeps`, `SafeBatchesWell`, by induction over the items); the batches of a
pass are those of its items and change in no step of it.  `FlattenGlues` and the
lemmas after it say what `FlattenSeq` of the community modules computes.
`RefusalsCoolOff` has two invariants: the counter is what remains of the refusals
in a row when the patience is taken away as often as it goes (`Counted`), and a
pass that has reached its patience and goes on has cooled down (`CooledOff`).

**ScanAll.**  `CleanedIsNotCheaper`: the outlier filter never makes an offer
cheaper than it is, for any prices in any number of cities; it either drops it,
keeps it, or puts the median, of which `MedianIsAPrice` shows that it lies among
the prices, in the place of a lower one. `BestPriceIsOffered` carries this to
`_cheapest_royal_sell`.  Both need that a finite set of numbers has a least and a
greatest element, `MinOfNaturals` (by the well-foundedness of the naturals) and
`MaxOfFinite`.  `SalesAreCovered` is NetIsCovered for every dictionary: `SalesInv`
adds the type of the loaded rows and that routes lead between royal cities; flips,
arbitrage and fills are shown covered one by one, every other scan is shown to add
no sale of these kinds, and prices change only when `found` is empty of them.
`NoGoodsGoRound` follows: the two profits of a round trip would each have to exceed
what an uncrossed book leaves of the other.  Both assume `MinArbProfit # 0`: with a
threshold of zero a fill that gains nothing is promised.

The others rest on `GoodsInv`: as long as the prices of a pass stay, each
opportunity that was found is `Sound`, which says of each kind what its scan
established.
* `BetterGoodsCostMore`: the filler of an order is the cheapest of all qualities
  that may fill it (`FillerIsCheapest`), and those of a better order may fill a
  worse one.
* `CostsAreOffered`: one lemma for each way in which goods are priced.  The
  intricate ones are a batch of an enchantment material, where every branch of the
  clamped and slipped price is no less than the offer it starts from
  (`BatchPriceIsNotCheaper`), and the middle one of the fallback prices, which is
  there and is a price of some royal city (`MiddleCity`).

The assumptions of these modules state what the static data and the loader
guarantee: tiers, enchantments and kinds of items (`ItemAssumption`), recipes over
items (`RecipeAssumption`, `IngredientAssumption`, `IslandAssumption`), typed rows
and live prices, none of the latter when nothing was loaded (`ScanAssumption`).

**Induction.**  A recursive function in TLA+ is any function that satisfies its
equation, if there is one: before such a definition can be used, one has to be
shown to exist.  `SetInduction` is induction over the naturals for a set of them,
from their well-foundedness; `RunExists` and `RunsAgree` are about repeating a step
along a sequence (the step is the constant `Op`, for which the proof modules
substitute `Meet`, `Retain`, `Pack`), and the lemmas from `SumExists` to `SumsAddUp`
about sums over finite sets.

**Only model-checked.**  Liveness, which the prover does not treat:
`LockIsGranted`, `RotationProgresses`, `BufferDrains`, `DispatchEnds`, `PassEnds`.

## 5. What the models leave out

* `Scheduler`: the periodic jobs other than the volume refresh, which share no
  state with cycles; errors inside a single batch, which leave the batch loop
  running; `resume()` and `reschedule()`, which nothing calls.
* `MarketStore`: amounts, volumes, the minimum price filter, the region, and the
  longer retention of expensive Black Market orders (any subset of the old rows is
  pruned).  `black_market_snapshots` is never written: the branch is dead.
* `LiveOrderbook`: the broker connection, its reconnects, the gold price and the
  forwarding of private orders.
* `OpportunityCache`: filters of tier, price and city; live verification; two
  captures of an order at one tick.
* `Alerts`: scores, tier, budget and margin filters (any subset passes them);
  `DISCORD_ALERTS_ENABLED` is taken as on.
* `Requests`: the lock of the limiter, which the ingestion lock leaves
  uncontended; `collect_prices`, which only the command line uses, and
  `collect_full_universe_fast`, which nothing calls; telemetry.
* The engine: scores, names and their parsing, aliases, weights, and the
  alternatives of one enchantment material (tokens and shards of other names).
  The ceiling by enchantment is applied where prices are
  loaded: a dictionary is taken to satisfy it.  Slippage matters only to
  enchantment materials, as every other trade is of one unit.
* `ScanAll`: conversion to dictionaries, labels of freshness, and
  `save_opportunities`, whose two commits no property here is about.
* API routers that only query, the web UI, configuration,
  logging, monitoring, research and scripts keep no state a property is about.

## 6. Observations without a run

Met while modelling; either no text says what should hold, or the matter needs a
test and not a model.

* A paused APScheduler is never resumed by a later start
  (`workers/scheduler.py:617`): volume refresh and cleanup stay off.
* A stop within the two seconds of `!start` is lost (`alerts/bot.py:547`).
* "Keep last 48 hours" stands over a cleanup of 24
  (`workers/scheduler.py:521`), and `scan_all` loads 48 by default
  (`core/scanner_integration.py:550`), as does `main.py --scan`: rows that a scan
  would load are deleted.  No property forbids it, and the model has lookback and
  retention of any size.
* "For Black Market ... use buy order age" (`ingestion/collector.py:109`) never
  applies: the comparison is with the list of all cities the batch was requested
  for (566, 572).  A record of the Black Market with both prices carries the age of
  its sell price past the door and into its row, while the price of the buy order,
  which is what a flip is paid, may be of any age.  LegBounded is therefore about
  the price whose age was checked, and that leg has no bound.
* A cancelled ingestion releases its lock while its write goes on in a thread
  (`db/repository.py:89`), beside the requests and the writes of the next: of two
  ingestions only the tasks are kept apart.
* The upsert of the collector is unconditional (`db/repository.py:67`): an older
  batch written later replaces newer prices of the bucket.
* The buy price of a royal city can come from an older row and carry the newest
  row's age (`core/scanner_integration.py:159`).
* An emptied book keeps serving its last prices until it is dropped
  (`ingestion/nats_client.py:415`).
* The collector's URL is fixed when it is built (`ingestion/collector.py:55`)
  while both writers tag rows with the current server; the unique index
  leaves the server out (`db/models.py:129`).
* The alert key lacks the quality (`workers/scheduler.py:317`), as the setting says
  ("the exact same item and route", `core/config.py`): qualities of one route share
  an entry.  An opportunity that was never alerted is held back after another one of
  its key; and when one cycle alerts two qualities, the entry keeps the one written
  last (259), so that the other one can be repeated within the cooldown without a
  jump of its own.  NoRepeat and NoneMissed speak of one of those chosen last.
* What the filters of a cycle reject is retained by the second reconciliation
  (`workers/scheduler.py:376`).
* The test for a fill goes by when a row was captured (`core/reconciliation.py:86`);
  `data_age_seconds` is fetched beside it and not used.  A row captured now whose
  lower price was observed hours ago, before that of the alert, evicts a valid
  alert as filled.
* The breaker of `collect_prices` re-raises each 429 it counts and never reaches
  five (`ingestion/collector.py:382`).
* A stop request can be lost: a new cycle resets `_stop_requested` before it waits
  for the lock (`ingestion/collector.py:499`), and the ingestion that was to stop
  goes on, although `stop()` is to "stop any active ingestion cycle immediately"
  (`workers/scheduler.py:624`).
* "Until a fresher scan of that item arrives" a marked order is to stay away, but
  two things undo a mark that are no fresher data (`api/system.py:395`).  Any other
  price does, also one observed before that of the card.  And the mark carries the
  age of the card at its detection: the entry of another route to the same order
  that an earlier scan found carries a smaller age for the same observation, is taken
  for a fresher scan and pops the mark in the very sweep that was to hide the order.
  `Lifts` names both, so that DismissalHolds is about everything else.
* Partitions follow Python's `hash` of strings (`ingestion/collector.py`,
  `partition_items`), which differs between processes, though the docstring says
  deterministic: after a restart an item may wait for a second rotation.
* `save_opportunities` commits its deactivation before it inserts
  (`core/scanner_integration.py:1161`).
* The verification of a card imports a module that does not exist
  (`api/system.py:841`).
* The engine (`core/opportunity_engine.py`):
  a docstring says "0% sales tax" of a computation that subtracts the tax (1615,
  1688);
  "single-city ingredient sourcing and maximum 2 total cities" (2884) is neither: a
  plan buys each ingredient where it is cheapest (2941), and only the city of the raw
  resource decides where the product may be sold (2976, 2995), so that a refined
  ingredient may come from a third city;
  Caerleon "rejects falling back to Royal median" (1108) for an enchantment
  material and falls back to it with a tenth on top (1188), so that the material
  may be offered in a royal city only while Caerleon is shown (hence the last
  disjunct of CostIsOffered);
  crafting compares the ages of the product and of the oldest ingredient only;
  islands show the host as the place to buy in, though the price may be of another
  city;
  a consumable may promise a cleaned or pooled price above its listing;
  an inversion checks the age of the better item and never of the worse one, at
  whose price it is to be sold;
  scaling a limit by volume can raise those of the tight ladders.

## 7. Plan

Done: Scheduler with its abstract specification, LiveOrderbook,
OpportunityCache, Alerts, MarketStore, Requests, the opportunity engine with its
ladders and pricing, and proofs of every safety property the runs check.

Next, the model: the server switch in `MarketStore`, with "Next collection will
target this region" (`alerts/bot.py:468`) as the property; what a reader sees
between the two commits of `save_opportunities`; the caravan; the fallback from
the broker to polling.

Then, the proofs: an abstract specification of `MarketStore` (the newest honest
price of each bucket) that both writers implement.
