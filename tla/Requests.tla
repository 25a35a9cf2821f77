------------------------------- MODULE Requests -------------------------------
(***************************************************************************)
(* How the MarketCollector (app/ingestion/collector.py) asks the data       *)
(* project for prices and volumes: the batches of a pass, the retries of    *)
(* AQSHttpClient.get (app/services/http_client.py) and the spacing of       *)
(* DeterministicRateLimiter (app/services/rate_limiter.py).                 *)
(*                                                                          *)
(* A pass holds the ingestion lock (see Scheduler), so there is one at a    *)
(* time and nobody else uses the client: the lock of the limiter is never   *)
(* contended and is left out.  Time passes in ticks.                        *)
(***************************************************************************)
EXTENDS Integers, SequencesExt

CONSTANTS
    Catalogue,      \* the tradeable items in the order of the database
    Priority,       \* those of them that every partition polls first
    NumPartitions,
    Overhead,       \* length of a URL without items
    PriceLimits,    \* longest URL and most items of a batch of prices
    VolumeLimits,   \* the same for volumes
    MaxWeight,
    MaxRetries,
    Interval,       \* ticks between two requests of an undisturbed server
    Scale,          \* the slowdown factor is counted in Scale-ths
    MaxSlowdown,    \* and is at most this much
    Backoff,        \* the waits, with their jitter, before each retry
    Pacing,         \* after each batch
    CoolDown,       \* after Patience refused batches in a row
    Patience,
    Horizon         \* bound: the time since the last request is told up to it

ASSUME CatalogueAssumption ==
    Catalogue \in Seq(ToSet(Catalogue)) /\ Priority \in Seq(ToSet(Catalogue))
ASSUME TimeAssumption ==
    /\ Interval \in Nat /\ Pacing \in Nat /\ CoolDown \in Nat /\ Horizon \in Nat
    /\ Scale \in Nat \ {0} /\ MaxSlowdown \in Nat /\ MaxSlowdown >= Scale
    /\ Horizon * Scale >= Interval * MaxSlowdown /\ Horizon >= CoolDown
    /\ MaxRetries \in Nat /\ Patience \in Nat \ {0}
    /\ Backoff \in [0..MaxRetries -> SUBSET Nat]

VARIABLES
    pass,           \* what is collected: "none", "prices" or "volumes"
    goal,           \* the items of this pass
    done,           \* its batches that are settled
    rest,           \* those that are not, the current one first
    at,             \* where the collector waits
    left,           \* ticks it still sleeps
    attempt,        \* retries of the current batch
    consecutive_429s,
    refusals,       \* batches refused in a row, for the properties
    stop_requested,
    since,          \* ticks since the limiter's last_request_time
    slowdown        \* its slowdown_factor

batches == <<goal, done, rest>>
vars == <<pass, goal, done, rest, at, left, attempt, consecutive_429s, refusals,
          stop_requested, since, slowdown>>

----------------------------------------------------------------------------
(* Batches *)

Extra == [ARTEFACT |-> 2, CAPE |-> 3, AVALON |-> 3, MOUNT |-> 2, SHARD |-> 1]

(* estimate_item_weight; the marks of an item are what its name contains. *)
Weight(item) ==
    1 + MapThenSumSet(LAMBDA mark : Extra[mark], item.marks) + (IF item.length > 25 THEN 1 ELSE 0)

UrlLength(batch) == FoldLeft(LAMBDA n, item : n + item.length + 1, Overhead, batch)
BatchWeight(batch) == FoldLeft(LAMBDA n, item : n + Weight(item), 0, batch)

Safe(batch, limits) ==
    /\ UrlLength(batch) <= limits.url
    /\ BatchWeight(batch) <= MaxWeight
    /\ Len(batch) <= limits.items

(* Mutant: the item that does not fit any more is dropped. *)
PackedDropping(packed, item, limits) ==
    IF packed # <<>> /\ Safe(Append(Last(packed), item), limits)
    THEN [packed EXCEPT ![Len(packed)] = Append(@, item)]
    ELSE IF packed = <<>> THEN << <<item>> >> ELSE Append(packed, <<>>)

Packed(packed, item, limits) ==
    IF packed # <<>> /\ Safe(Append(Last(packed), item), limits)
    THEN [packed EXCEPT ![Len(packed)] = Append(@, item)]
    ELSE Append(packed, <<item>>)

(* build_safe_batches *)
SafeBatches(items, limits) ==
    LET packed[n \in 0..Len(items)] ==
            IF n = 0 THEN <<>> ELSE Packed(packed[n - 1], items[n], limits)
    IN  packed[Len(items)]

(* should_poll_category: mounts in the first quarter of an hour only. *)
Polled(item, firstQuarter) == item.category = "mounts" => firstQuarter

(* partition_items; Python's hash of a name is the same within one process.     *)
InPartition(item, p) == item.hash % NumPartitions = p

(* The items that are polled with every partition come first. *)
PartitionItems(p, firstQuarter) ==
    LET Due(i) == Polled(i, firstQuarter) /\ InPartition(i, p) /\ i \notin ToSet(Priority)
    IN  Priority \o FlattenSeq([n \in DOMAIN Catalogue |->
                        IF Due(Catalogue[n]) THEN <<Catalogue[n]>> ELSE <<>>])

----------------------------------------------------------------------------
(* The rate limiter *)

(* Mutant: the slowdown is forgotten. *)
EnoughUnslowed(ticks) == ticks >= Interval

(* So long after the last request the next one may be sent. *)
Enough(ticks) == ticks * Scale >= Interval * slowdown

Lesser(a, b) == IF a <= b THEN a ELSE b
Greater(a, b) == IF a >= b THEN a ELSE b

Slowed == Lesser((5 * slowdown) \div 4, MaxSlowdown)
Recovered == Greater((99 * slowdown) \div 100, Scale)

----------------------------------------------------------------------------

Init ==
    /\ pass = "none" /\ goal = <<>> /\ done = <<>> /\ rest = <<>>
    /\ at = "idle" /\ left = 0 /\ attempt = 0
    /\ consecutive_429s = 0 /\ refusals = 0
    /\ stop_requested = FALSE
    /\ since = Horizon /\ slowdown = Scale

(* A cycle resets the stop request before it queues for the ingestion lock. *)
Enter ==
    /\ stop_requested /\ stop_requested' = FALSE
    /\ UNCHANGED <<pass, batches, at, left, attempt, consecutive_429s, refusals, since, slowdown>>

RequestStop ==
    /\ stop_requested' = TRUE
    /\ UNCHANGED <<pass, batches, at, left, attempt, consecutive_429s, refusals, since, slowdown>>

Begin(what, items, limits) ==
    /\ pass = "none"
    /\ pass' = what /\ at' = "batch"
    /\ goal' = items /\ done' = <<>> /\ rest' = SafeBatches(items, limits)
    /\ consecutive_429s' = 0 /\ refusals' = 0
    /\ UNCHANGED <<left, attempt, stop_requested, since, slowdown>>

(* collect_partition, once it holds the lock. *)
BeginPrices ==
    \E p \in 0..NumPartitions - 1, firstQuarter \in BOOLEAN :
        Begin("prices", PartitionItems(p, firstQuarter), PriceLimits)

(* collect_volumes *)
BeginVolumes == Begin("volumes", Catalogue, VolumeLimits)

Leave ==
    /\ pass' = "none" /\ at' = "idle"
    /\ goal' = <<>> /\ done' = <<>> /\ rest' = <<>>
    /\ left' = 0 /\ attempt' = 0
    /\ consecutive_429s' = 0 /\ refusals' = 0

Finish ==
    /\ at = "batch" /\ (rest = <<>> \/ stop_requested)
    /\ Leave
    /\ UNCHANGED <<stop_requested, since, slowdown>>

(* The limiter reckons how long to wait, and no longer, and sleeps. *)
Acquire ==
    /\ left' \in 0..Horizon
    /\ Enough(since + left') /\ (left' > 0 => ~Enough(since + left' - 1))
    /\ at' = "spacing"

NextBatch ==
    /\ at = "batch" /\ rest # <<>> /\ ~stop_requested
    /\ Acquire /\ attempt' = 0
    /\ UNCHANGED <<pass, batches, consecutive_429s, refusals, stop_requested, since, slowdown>>

Send ==
    /\ at = "spacing" /\ left = 0
    /\ at' = "sent" /\ since' = 0
    /\ UNCHANGED <<pass, batches, left, attempt, consecutive_429s, refusals, stop_requested,
                   slowdown>>

Settle == done' = Append(done, Head(rest)) /\ rest' = Tail(rest) /\ UNCHANGED <<pass, goal>>

(* An empty answer and None count as an answer. *)
Proceed ==
    /\ Settle
    /\ at' = "pacing" /\ left' = Pacing /\ attempt' = 0
    /\ consecutive_429s' = 0 /\ refusals' = 0

Answered ==
    /\ at = "sent" /\ Proceed
    /\ slowdown' = Recovered
    /\ UNCHANGED <<stop_requested, since>>

(* A status that is not retried. *)
Rejected ==
    /\ at = "sent" /\ Proceed
    /\ UNCHANGED <<stop_requested, since, slowdown>>

(* The answer cannot be read, or its prices cannot be saved. *)
Broken ==
    /\ at = "sent" /\ Leave
    /\ slowdown' = Recovered
    /\ UNCHANGED <<stop_requested, since>>

(* What the client retries: 429, the statuses of an overloaded server, no      *)
(* connection.                                                                *)
Failures == {"429", "overload", "connection"}

Reported(failure) == slowdown' = IF failure = "429" THEN Slowed ELSE slowdown

Retry ==
    /\ at = "sent" /\ attempt < MaxRetries
    /\ \E failure \in Failures : Reported(failure)
    /\ at' = "backoff" /\ left' \in Backoff[attempt]
    /\ UNCHANGED <<pass, batches, attempt, consecutive_429s, refusals, stop_requested, since>>

(* Mutant: the breaker opens one refusal too late. *)
OpensLate == consecutive_429s + 1 > Patience

Opens == consecutive_429s + 1 >= Patience

(* The last retry met a 429, which is raised: prices go on with the next batch, *)
(* after a pause when it was not the first in a row.                          *)
SkipRefused ==
    /\ Settle
    /\ refusals' = refusals + 1 /\ attempt' = 0
    /\ consecutive_429s' = IF Opens THEN 0 ELSE consecutive_429s + 1
    /\ at' = IF Opens THEN "cooling" ELSE "batch"
    /\ left' = IF Opens THEN CoolDown ELSE 0

Refused ==
    /\ at = "sent" /\ attempt = MaxRetries
    /\ IF pass = "prices" THEN SkipRefused ELSE Leave
    /\ Reported("429")
    /\ UNCHANGED <<stop_requested, since>>

(* The last retry met another failure: the client returns None. *)
Unanswered ==
    /\ at = "sent" /\ attempt = MaxRetries /\ Proceed
    /\ UNCHANGED <<stop_requested, since, slowdown>>

(* Mutant: the failed attempt is not counted. *)
TryAgainUncounted ==
    /\ at = "backoff" /\ left = 0
    /\ Acquire
    /\ UNCHANGED <<pass, batches, attempt, consecutive_429s, refusals, stop_requested, since, slowdown>>

TryAgain ==
    /\ at = "backoff" /\ left = 0
    /\ Acquire /\ attempt' = attempt + 1
    /\ UNCHANGED <<pass, batches, consecutive_429s, refusals, stop_requested, since, slowdown>>

Resume ==
    /\ at \in {"pacing", "cooling"} /\ left = 0
    /\ at' = "batch"
    /\ UNCHANGED <<pass, batches, left, attempt, consecutive_429s, refusals, stop_requested, since,
                   slowdown>>

(* The task is cancelled where it waits. *)
Cancel ==
    /\ at \notin {"idle", "batch"}
    /\ Leave
    /\ UNCHANGED <<stop_requested, since, slowdown>>

Tick ==
    /\ left > 0 \/ since < Horizon
    /\ left' = Greater(0, left - 1)
    /\ since' = Lesser(since + 1, Horizon)
    /\ UNCHANGED <<pass, batches, at, attempt, consecutive_429s, refusals, stop_requested, slowdown>>

Collect ==
    \/ Finish \/ NextBatch \/ Send
    \/ Answered \/ Rejected \/ Broken \/ Retry \/ Refused \/ Unanswered
    \/ TryAgain \/ Resume

Next == Enter \/ RequestStop \/ BeginPrices \/ BeginVolumes \/ Collect \/ Cancel \/ Tick

(* Sleeps end, and the client's timeouts bound how long an answer takes. *)
Fairness == WF_vars(Collect) /\ WF_vars(Tick)

Spec == Init /\ [][Next]_vars /\ Fairness

----------------------------------------------------------------------------
(* Properties *)

TypeOK ==
    /\ pass \in {"none", "prices", "volumes"}
    /\ at \in {"idle", "batch", "spacing", "sent", "backoff", "pacing", "cooling"}
    /\ left \in Nat /\ attempt \in 0..MaxRetries
    /\ consecutive_429s \in 0..Patience - 1 /\ refusals \in Nat
    /\ stop_requested \in BOOLEAN
    /\ since \in 0..Horizon /\ slowdown \in Scale..MaxSlowdown

Sends == at = "spacing" /\ at' = "sent"

(* Whatever was cancelled, stopped, retried or begun anew in between, two       *)
(* requests are apart by the interval times the slowdown in force ("Guarantees  *)
(* min_interval * slowdown_factor spacing", app/services/rate_limiter.py:24).   *)
RequestsAreSpaced ==
    [][Sends => since * Scale >= Interval * slowdown]_vars

(* Each time two more batches in a row were refused, a pass leaves the server   *)
(* alone for a minute before it asks for the next.                             *)
RefusalsCoolDown ==
    [][Sends /\ attempt = 0 /\ refusals > 0 /\ refusals % Patience = 0 => since >= CoolDown]_vars

(* No request is cut longer than the limits, unless a single item is, none is   *)
(* sent that the one before it had room for, and the batches of a pass are its  *)
(* items, in order, each once.                                                *)
BatchesAreSafe ==
    LET all == done \o rest
        limits == IF pass = "prices" THEN PriceLimits ELSE VolumeLimits
    IN  /\ FlattenSeq(all) = goal
        /\ \A n \in DOMAIN all : Len(all[n]) > 1 => Safe(all[n], limits)
        /\ \A n \in 1..Len(all) - 1 : ~Safe(Append(all[n], Head(all[n + 1])), limits)

(* However the server behaves, a pass ends.  Nothing else frees the ingestion   *)
(* lock for the next one.                                                      *)
PassEnds == pass # "none" ~> pass = "none"
=============================================================================
