---------------------------- MODULE MarketStore ----------------------------
(***************************************************************************)
(* The rows of market_prices for one item, city and quality: written by    *)
(* the collector (db/repository.py) and by the flusher of the live book    *)
(* (ingestion/nats_client.py), pruned by the cleanup job and by the purge   *)
(* endpoint, and read by the scanner together with the live book           *)
(* (core/scanner_integration.py, _load_prices).                            *)
(*                                                                         *)
(* A price is represented by the time at which it was known to stand, the  *)
(* contents of sell_price_min_date and buy_price_max_date, and by None      *)
(* when there is no price.  Amounts, volumes and the region are left out.  *)
(***************************************************************************)
EXTENDS Integers, FiniteSets

CONSTANTS
    BlackMarket,      \* the city is the Black Market
    BucketTicks,      \* get_bucket: five minutes
    IngestCeiling,    \* is_market_data_fresh for ingestion: 24 or 48 hours
    Lookback,         \* _load_prices: 12 hours, 48 by default and from the command line
    Retention,        \* cleanup and purge: 24 hours
    BookTicks,        \* an empty live book is kept for 10 minutes or an hour
    Verified,         \* freshness tier "verified": 45 minutes
    MaxTime,          \* bound of the clock
    MaxRecords        \* bound of the records written

ASSUME StoreAssumption ==
    /\ BlackMarket \in BOOLEAN
    /\ BucketTicks \in Nat \ {0}
    /\ IngestCeiling \in Nat /\ Verified \in Nat /\ BookTicks \in Nat
    /\ MaxTime \in Nat /\ MaxRecords \in Nat
    /\ Retention \in Nat /\ Lookback \in Nat

Time == 0..MaxTime
None == -1
Quote == Time \cup {None}

VARIABLES
    now,
    sell, buy,        \* bucket -> time of the stored price
    age,              \* bucket -> data_age_seconds
    captured,         \* bucket -> captured_at, None where there is no row
    api,              \* the record the collector is about to save
    flush,            \* the record the flusher is about to save
    buffered,         \* order_buffer holds the key
    orders,           \* the sides the live book has orders of
    live,             \* the sides the live book has a price for
    updated,          \* last_updated of the live book, None if it is not listed
    records           \* number of records written so far

row == <<sell, buy, age, captured>>
book == <<orders, live, updated>>
vars == <<now, sell, buy, age, captured, api, flush, buffered, orders, live,
          updated, records>>

Sides == {"sell", "buy"}
Idle == [sell |-> None, buy |-> None, age |-> 0, captured |-> None]

(* get_bucket: a row is filed under the start of the interval of its capture. *)
Bucket(t) == t - (t % BucketTicks)

Init ==
    /\ now = 0
    /\ sell = [b \in Time |-> None]
    /\ buy = [b \in Time |-> None]
    /\ age = [b \in Time |-> 0]
    /\ captured = [b \in Time |-> None]
    /\ api = Idle
    /\ flush = Idle
    /\ buffered = FALSE
    /\ orders = {} /\ live = {}
    /\ updated = None
    /\ records = 0

Tick == now < MaxTime /\ now' = now + 1 /\ UNCHANGED <<row, api, flush, buffered, book, records>>

----------------------------------------------------------------------------
(* The collector *)

(* fetch_market_data: the age of the record is that of its sell price, and   *)
(* that of its buy price only where it has no other.  The test for the Black *)
(* Market compares the list of all cities the batch was requested for, and   *)
(* is never true.                                                            *)
DataAge(s, b) == IF s # None THEN now - s ELSE now - b

(* Mutant: every record passes the door of the database. *)
StorableAny(s, b) == IF BlackMarket THEN b # None ELSE s # None \/ b # None

(* What is stored: data within the ceiling, in the Black Market buy orders.  *)
Storable(s, b) ==
    /\ IF BlackMarket THEN b # None ELSE s # None \/ b # None
    /\ DataAge(s, b) <= IngestCeiling

(* A batch is answered with prices observed by players at any time before.   *)
Fetch ==
    /\ api.captured = None
    /\ records < MaxRecords /\ records' = records + 1
    /\ \E s, b \in Quote :
          /\ s <= now /\ b <= now
          /\ Storable(s, b)
          /\ api' = [sell |-> s, buy |-> b, age |-> DataAge(s, b), captured |-> now]
    /\ UNCHANGED <<now, row, flush, buffered, book>>

(* Mutant: the row is filed under the time of the write. *)
SaveSnapshotsLate ==
    LET b == Bucket(now) IN
    /\ api.captured # None
    /\ sell' = [sell EXCEPT ![b] = api.sell]
    /\ buy' = [buy EXCEPT ![b] = api.buy]
    /\ age' = [age EXCEPT ![b] = api.age]
    /\ captured' = [captured EXCEPT ![b] = api.captured]
    /\ api' = Idle
    /\ UNCHANGED <<now, flush, buffered, book, records>>

(* Mutant: the update of an existing row leaves out data_age_seconds. *)
SaveSnapshotsKeepsAge ==
    LET b == Bucket(api.captured) IN
    /\ api.captured # None
    /\ sell' = [sell EXCEPT ![b] = api.sell]
    /\ buy' = [buy EXCEPT ![b] = api.buy]
    /\ age' = [age EXCEPT ![b] = IF captured[b] = None THEN api.age ELSE @]
    /\ captured' = [captured EXCEPT ![b] = api.captured]
    /\ api' = Idle
    /\ UNCHANGED <<now, flush, buffered, book, records>>

(* save_snapshots in its thread: a row of the same bucket is replaced.  *)
SaveSnapshots ==
    LET b == Bucket(api.captured) IN
    /\ api.captured # None
    /\ sell' = [sell EXCEPT ![b] = api.sell]
    /\ buy' = [buy EXCEPT ![b] = api.buy]
    /\ age' = [age EXCEPT ![b] = api.age]
    /\ captured' = [captured EXCEPT ![b] = api.captured]
    /\ api' = Idle
    /\ UNCHANGED <<now, flush, buffered, book, records>>

(* The write fails: the batch is gone. *)
SaveFails ==
    /\ api.captured # None
    /\ api' = Idle
    /\ UNCHANGED <<now, row, flush, buffered, book, records>>

----------------------------------------------------------------------------
(* The live book and its flusher *)

(* An order of one side arrives, and the book is priced from its orders... *)
OrderArrives ==
    /\ \E side \in Sides : orders' = orders \cup {side}
    /\ live' = orders'
    /\ updated' = now
    /\ buffered' = TRUE
    /\ UNCHANGED <<now, row, api, flush, records>>

(* ...or one without an identity, which at most makes an empty book. *)
AnonymousArrives ==
    /\ updated' = IF updated = None THEN now ELSE updated
    /\ buffered' = TRUE
    /\ UNCHANGED <<now, row, api, flush, orders, live, records>>

(* The purger removes the last orders of some sides; a book left without     *)
(* orders is not priced again.                                               *)
OrdersExpire ==
    /\ \E gone \in (SUBSET orders) \ {{}} : orders' = orders \ gone
    /\ live' = IF orders' = {} THEN live ELSE orders'
    /\ UNCHANGED <<now, row, api, flush, buffered, updated, records>>

(* A book that has been without orders for long enough is dropped. *)
BookIsDropped ==
    /\ updated # None /\ orders = {}
    /\ now - updated > BookTicks
    /\ live' = {} /\ updated' = None
    /\ UNCHANGED <<now, row, api, flush, buffered, orders, records>>

(* The buffer is handed to a thread, which reads the book and stamps the     *)
(* prices it finds with the current time.                                    *)
TakeBuffer ==
    /\ buffered /\ flush.captured = None
    /\ records < MaxRecords /\ records' = records + 1
    /\ buffered' = FALSE
    /\ flush' = IF live = {} THEN Idle
                ELSE [sell |-> IF "sell" \in live THEN now ELSE None,
                      buy |-> IF "buy" \in live THEN now ELSE None,
                      age |-> 0, captured |-> now]
    /\ UNCHANGED <<now, row, api, book>>

Coalesce(new, old) == IF new # None THEN new ELSE old

(* The thread writes: a side the book does not have keeps its stored price.  *)
SaveFlush ==
    LET b == Bucket(flush.captured) IN
    /\ flush.captured # None
    /\ sell' = [sell EXCEPT ![b] = Coalesce(flush.sell, @)]
    /\ buy' = [buy EXCEPT ![b] = Coalesce(flush.buy, @)]
    /\ age' = [age EXCEPT ![b] = flush.age]
    /\ captured' = [captured EXCEPT ![b] = flush.captured]
    /\ flush' = Idle
    /\ UNCHANGED <<now, api, buffered, book, records>>

FlushFails ==
    /\ flush.captured # None
    /\ flush' = Idle
    /\ UNCHANGED <<now, row, api, buffered, book, records>>

----------------------------------------------------------------------------
(* Retention and restarts *)

Stored == {b \in Time : captured[b] # None}

Stale == {b \in Stored : captured[b] < now - Retention}

(* The cleanup job and the chunks of the purge delete old rows; expensive     *)
(* Black Market orders are kept longer.                                      *)
Prune ==
    /\ \E gone \in (SUBSET Stale) \ {{}} :
          /\ sell' = [b \in Time |-> IF b \in gone THEN None ELSE sell[b]]
          /\ buy' = [b \in Time |-> IF b \in gone THEN None ELSE buy[b]]
          /\ age' = [b \in Time |-> IF b \in gone THEN 0 ELSE age[b]]
          /\ captured' = [b \in Time |-> IF b \in gone THEN None ELSE captured[b]]
    /\ UNCHANGED <<now, api, flush, buffered, book, records>>

(* The process ends and starts again: only the table survives. *)
Restart ==
    /\ api' = Idle /\ flush' = Idle
    /\ buffered' = FALSE
    /\ orders' = {} /\ live' = {} /\ updated' = None
    /\ UNCHANGED <<now, row, records>>

Next ==
    \/ Tick
    \/ Fetch \/ SaveSnapshots \/ SaveFails
    \/ OrderArrives \/ AnonymousArrives \/ OrdersExpire \/ BookIsDropped
    \/ TakeBuffer \/ SaveFlush \/ FlushFails
    \/ Prune \/ Restart

Spec == Init /\ [][Next]_vars

----------------------------------------------------------------------------
(* _load_prices: what the scanner is given for the key *)

Loaded == {b \in Stored : captured[b] >= now - Lookback}
Newest(B) == CHOOSE b \in B : \A c \in B : c <= b

(* The newest row counts; only a missing buy price of a royal city is taken  *)
(* from older rows.                                                          *)
DbSell == IF Loaded = {} THEN None ELSE sell[Newest(Loaded)]
DbBuy ==
    LET B == {b \in Loaded : buy[b] # None} IN
    IF B = {} \/ (BlackMarket /\ Newest(Loaded) \notin B) THEN None ELSE buy[Newest(B)]
DbAge == age[Newest(Loaded)] + now - captured[Newest(Loaded)]

(* The live book is merged in: its price first, the smaller of the ages.     *)
Listed == updated # None
Known == Loaded # {} \/ Listed
ShownSell == IF "sell" \in live THEN now ELSE DbSell
ShownBuy == IF "buy" \in live THEN now ELSE DbBuy
ShownLeg == IF BlackMarket THEN ShownBuy ELSE ShownSell
ShownAge ==
    IF ~Listed THEN DbAge
    ELSE IF Loaded = {} \/ now - updated <= DbAge THEN now - updated ELSE DbAge

----------------------------------------------------------------------------
(* Every variable has its type and every row lies in the bucket of its       *)
(* capture, whoever wrote it and however late.                               *)
TypeOK ==
    /\ now \in Time
    /\ sell \in [Time -> Quote] /\ buy \in [Time -> Quote]
    /\ age \in [Time -> Time] /\ captured \in [Time -> Quote]
    /\ \A b \in Stored : b = Bucket(captured[b])
    /\ api \in [sell : Quote, buy : Quote, age : Time, captured : Quote]
    /\ flush \in [sell : Quote, buy : Quote, age : {0}, captured : Quote]
    /\ buffered \in BOOLEAN
    /\ orders \subseteq Sides /\ live \subseteq Sides
    /\ updated \in Quote
    /\ records \in 0..MaxRecords

(* The price whose age the door of the database looked at, in a royal city    *)
(* the one the scanner buys at.                                              *)
Checked(b) == IF sell[b] # None THEN sell[b] ELSE buy[b]

(* That price, taken from the table, stood at most lookback, ceiling and one *)
(* bucket ago, whatever the two writers merged into its row in any order     *)
(* (is_market_data_fresh at the door, the coalescing upsert of               *)
(* _process_buffer, the deletions, _load_prices).  The other price of a row, *)
(* which is what the Black Market pays, has no such bound.                   *)
LegBounded ==
    \A b \in Loaded : now - Checked(b) < Lookback + IngestCeiling + BucketTicks

(* data_age_seconds of a row is the age of one of its prices at its capture, *)
(* however often and by whomever the row has been updated (the two upserts   *)
(* set different columns).                                                   *)
AgeIsOfAPrice ==
    \A b \in Stored : captured[b] - age[b] \in {sell[b], buy[b]}

(* "verified: All leg prices verified fresh (<= 45m / 2700s) or live NATS":  *)
(* where the age the scanner is given passes for verified, the price of the  *)
(* leg stood within that time (the tag of _enrich_freshness_tier, from the   *)
(* ages of _load_prices).                                                    *)
VerifiedIsFresh ==
    Known /\ ShownAge <= Verified /\ ShownLeg # None => now - ShownLeg <= Verified
=============================================================================
