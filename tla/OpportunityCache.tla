-------------------------- MODULE OpportunityCache --------------------------
(***************************************************************************)
(* The opportunities the API serves from memory: _LATEST_OPPORTUNITIES_CACHE *)
(* and its readers and writers (app/api/system.py), the reconciliation of a  *)
(* scan with the cache (app/core/reconciliation.py) and its two uses in a    *)
(* cycle (app/workers/scheduler.py).  None of them awaits between reading    *)
(* and writing, so each is one step.  What a scan finds is any subset of     *)
(* what the market rows allow; prices are those of Black Market buy orders.  *)
(***************************************************************************)
EXTENDS Naturals, FiniteSets, SequencesExt

CONSTANTS
    Keys,           \* get_opportunity_key: category, item, route, quality
    ItemOf,         \* the item of each key
    OrderOf,        \* its item and quality: the buy order it sells to
    BlackMarket,    \* the keys that sell to the Black Market
    Prices,         \* buy_price_max; 0 when there is no order
    Effective,      \* the price an opportunity records, after slippage
    Lifespan,       \* get_max_allowed_bm_age_seconds of a key and a price
    RoyalRetention, \* seconds an opportunity of the Royal continent is kept
    FresherBy,      \* seconds by which data must be younger than a dismissed card
    Slack,          \* seconds after an opportunity a row must be captured
    Arrangements,   \* the orders in which a cache may list the keys
    DismissalTime,  \* seconds a dismissal outside the Black Market lasts
    MaxTime         \* bound of the clock

Items == {ItemOf[k] : k \in Keys}
Orders == {OrderOf[k] : k \in BlackMarket}
Recorded == {Effective[p] : p \in Prices}

ASSUME KeyAssumption ==
    /\ BlackMarket \subseteq Keys /\ DOMAIN ItemOf = Keys /\ DOMAIN OrderOf = Keys
    /\ \A a \in Arrangements : a \in Seq(Keys) /\ IsInjective(a) /\ Range(a) = Keys
ASSUME PriceAssumption ==
    /\ Prices \subseteq Nat /\ 0 \in Prices
    /\ Effective \in [Prices -> Nat] /\ \A p \in Prices : Effective[p] <= p
ASSUME AgeAssumption ==
    /\ Lifespan \in [Keys -> [Prices \cup Recorded -> Nat]]
    /\ {RoyalRetention, FresherBy, Slack, DismissalTime} \subseteq Nat
    /\ MaxTime \in Nat \ {0}

VARIABLES
    now,        \* datetime.utcnow()
    market,     \* last captured row of each Black Market order
    cache,      \* _LATEST_OPPORTUNITIES_CACHE
    scan_time,  \* _LATEST_SCAN_TIME; 0 after a clear
    order,      \* the order in which its entries are met
    filled,     \* state.filled_bm_orders
    dismissed,  \* state.dismissed_opportunities
    shown,      \* the cards of the last answer to GET /opportunities
    marked,     \* history: cards marked as filled, until a mark is lifted
    struck      \* history: when an item was last dismissed

vars == <<now, market, cache, scan_time, order, filled, dismissed, shown, marked, struck>>

Init ==
    /\ now = 1
    /\ market = [o \in Orders |-> [price |-> 0, seen |-> 0, captured |-> 0]]
    /\ cache = <<>>
    /\ scan_time = 0
    /\ order \in Arrangements
    /\ filled = <<>> /\ dismissed = <<>>
    /\ shown = <<>>
    /\ marked = <<>> /\ struck = <<>>

Put(f, x, v) == [y \in DOMAIN f \cup {x} |-> IF y = x THEN v ELSE f[y]]
Only(f, S) == [x \in DOMAIN f \cap S |-> f[x]]

----------------------------------------------------------------------------
(* is_opportunity_dismissed *)

HasRecord(k, records) == k \in BlackMarket /\ OrderOf[k] \in DOMAIN records

(* Mutant: data of the age of the dismissed card is fresher. *)
FresherIfAsOld(opp, record) ==
    \/ opp.age <= record.age
    \/ record.price > 0 /\ opp.price > 0 /\ opp.price # record.price

(* Data is taken to be newer than a dismissal when it is a minute younger than *)
(* the dismissed card was, or has another price.                              *)
Fresher(opp, record) ==
    \/ opp.age + FresherBy < record.age
    \/ record.price > 0 /\ opp.price > 0 /\ opp.price # record.price

ItemDismissed(k, until) == ItemOf[k] \in DOMAIN until /\ until[ItemOf[k]] > now

Hidden(k, opp, records, until) ==
    IF HasRecord(k, records)
    THEN ~Fresher(opp, records[OrderOf[k]])
    ELSE ItemDismissed(k, until)

(* The check takes the record of an order away when it meets fresher data. *)
Records(k, opp, records) ==
    IF HasRecord(k, records) /\ Fresher(opp, records[OrderOf[k]])
    THEN Only(records, DOMAIN records \ {OrderOf[k]})
    ELSE records

(* One step of a sweep: the entry of a key, if there is one, is met. *)
Meet(entries, until, sofar, k) ==
    IF k \notin DOMAIN entries THEN sofar
    ELSE [visible |-> IF Hidden(k, entries[k], sofar.records, until)
                      THEN sofar.visible ELSE sofar.visible \cup {k},
          records |-> Records(k, entries[k], sofar.records)]

(* The keys of a cache that are not hidden, met one after the other, and the  *)
(* records that are left.                                                     *)
Sweep(entries, records, until) ==
    LET met[n \in 0..Len(order)] ==
            IF n = 0 THEN [visible |-> {}, records |-> records]
            ELSE Meet(entries, until, met[n - 1], order[n])
    IN  met[Len(order)]

----------------------------------------------------------------------------
(* reconcile_opportunities_cache *)

(* Mutant: all opportunities are kept as long as royal ones. *)
OutlivedAsRoyal(k, opp) == now - opp.detected > RoyalRetention

Outlived(k, opp) ==
    now - opp.detected >
        IF k \in BlackMarket THEN Lifespan[k][opp.price] ELSE RoyalRetention

(* Mutant: any row captured later counts as a fill. *)
FulfilledByAnyRow(k, opp) ==
    /\ k \in BlackMarket /\ opp.price > 0
    /\ market[OrderOf[k]].captured > opp.detected + Slack

(* check_bm_order_fulfillment: it goes by when the row was captured, not by    *)
(* when its price was observed.                                               *)
Fulfilled(k, opp) ==
    /\ k \in BlackMarket /\ opp.price > 0
    /\ LET row == market[OrderOf[k]]
       IN  /\ row.captured > opp.detected + Slack
           /\ row.price < opp.price \/ row.price = 0

FillRecord(opp) == [age |-> 0, price |-> opp.price]

(* An existing entry that was not found again is kept unless it is dismissed, *)
(* too old or filled.                                                         *)
Retain(existing, incoming, sofar, k) ==
    LET opp == existing[k]
        left == Records(k, opp, sofar.records)
    IN  IF k \notin DOMAIN existing \/ k \in DOMAIN incoming THEN sofar
        ELSE IF Hidden(k, opp, sofar.records, dismissed) \/ Outlived(k, opp)
        THEN [entries |-> sofar.entries, records |-> left]
        ELSE IF Fulfilled(k, opp)
        THEN [entries |-> sofar.entries, records |-> Put(left, OrderOf[k], FillRecord(opp))]
        ELSE [entries |-> Put(sofar.entries, k, opp), records |-> left]

(* Incoming opportunities replace those of their key; the others are met in   *)
(* order.                                                                     *)
Reconcile(existing, incoming, records, sequence) ==
    LET met[n \in 0..Len(sequence)] ==
            IF n = 0 THEN [entries |-> incoming, records |-> records]
            ELSE Retain(existing, incoming, met[n - 1], sequence[n])
    IN  met[Len(sequence)]

----------------------------------------------------------------------------
(* History: what lifts a mark *)

(* Newer data for a marked card: another price, or a later observation.  The   *)
(* age of a card is that at its detection, so an entry of another route, found *)
(* by an earlier scan than the card, may seem younger on the same observation. *)
Lifts(opp, card) ==
    \/ opp.price # card.price
    \/ opp.seen > card.seen
    \/ opp.detected < card.detected

Unlifted(marks, entries) ==
    Only(marks, {o \in DOMAIN marks :
        \A k \in DOMAIN entries \cap BlackMarket :
            OrderOf[k] = o => ~Lifts(entries[k], marks[o])})

----------------------------------------------------------------------------
(* Scans *)

(* A key can be found when its order exists, pays something after slippage    *)
(* (a profit is asked for) and its price was observed within its lifespan;    *)
(* nothing is assumed about keys that do not sell to the Black Market.        *)
Findable ==
    {k \in Keys : k \in BlackMarket =>
        LET row == market[OrderOf[k]]
        IN  Effective[row.price] > 0 /\ now - row.seen <= Lifespan[k][row.price]}

(* Mutant: the age the collector stored with the row is dropped. *)
FoundByCapture(k) ==
    IF k \in BlackMarket
    THEN LET row == market[OrderOf[k]]
         IN  [price |-> Effective[row.price], age |-> now - row.captured,
              seen |-> row.seen, detected |-> now]
    ELSE [price |-> 0, age |-> 0, seen |-> now, detected |-> now]

(* The age of the data is the age stored with the row and the time since its  *)
(* capture.                                                                   *)
Found(k) ==
    IF k \in BlackMarket
    THEN LET row == market[OrderOf[k]]
         IN  [price |-> Effective[row.price], age |-> now - row.seen,
              seen |-> row.seen, detected |-> now]
    ELSE [price |-> 0, age |-> 0, seen |-> now, detected |-> now]

Finds(keys) == [k \in keys |-> Found(k)]

(* POST /scan *)
Scan(keys) ==
    LET result == Reconcile(cache, Finds(keys), filled, order)
    IN  /\ cache' = result.entries
        /\ scan_time' = now
        /\ filled' = result.records
        /\ order' \in Arrangements
        /\ marked' = Unlifted(marked, Finds(keys))
        /\ UNCHANGED <<now, market, dismissed, shown, struck>>

(* Mutant: the dismissals that are kept are the expired ones. *)
UnexpiredSwapped == Only(dismissed, {i \in DOMAIN dismissed : dismissed[i] <= now})

Unexpired == Only(dismissed, {i \in DOMAIN dismissed : dismissed[i] > now})

(* master_cycle: what the scan found is reconciled (set_latest_opportunities_ *)
(* cache), then what passed the filters of the alerts is reconciled again.    *)
CycleScan(keys, passed) ==
    LET first == Reconcile(cache, Finds(keys), filled, order)
        second == Reconcile(first.entries, Finds(passed), first.records, order')
    IN  /\ order' \in Arrangements
        /\ dismissed' = Unexpired
        /\ cache' = second.entries
        /\ scan_time' = now
        /\ filled' = second.records
        /\ marked' = Unlifted(marked, Finds(keys))
        /\ UNCHANGED <<now, market, shown, struck>>

----------------------------------------------------------------------------
(* Requests *)

(* GET /opportunities of some categories *)
Get(keys) ==
    LET result == Sweep(Only(cache, keys), filled, dismissed)
    IN  /\ shown' = Only(cache, result.visible)
        /\ filled' = result.records
        /\ UNCHANGED <<now, market, cache, scan_time, order, dismissed, marked, struck>>

(* POST /opportunities/dismiss with the card of a Black Market order *)
DismissOrder(k) ==
    LET card == shown[k]
        recorded == Put(filled, OrderOf[k], [age |-> card.age, price |-> card.price])
        result == Sweep(cache, recorded, dismissed)
    IN  /\ k \in DOMAIN shown \cap BlackMarket
        /\ cache' = Only(cache, result.visible)
        /\ filled' = result.records
        /\ marked' = Unlifted(Put(marked, OrderOf[k], card), cache)
        /\ UNCHANGED <<now, market, scan_time, order, dismissed, shown, struck>>

(* POST /opportunities/dismiss with any other card *)
DismissItem(k) ==
    /\ k \in DOMAIN shown \ BlackMarket
    /\ dismissed' = Put(dismissed, ItemOf[k], now + DismissalTime)
    /\ LET result == Sweep(cache, filled, dismissed')
       IN  /\ cache' = Only(cache, result.visible)
           /\ filled' = result.records
    /\ struck' = Put(struck, ItemOf[k], now)
    /\ UNCHANGED <<now, market, scan_time, order, shown, marked>>

(* POST /opportunities/clear *)
Clear ==
    /\ cache' = <<>>
    /\ scan_time' = 0
    /\ UNCHANGED <<now, market, order, filled, dismissed, shown, marked, struck>>

----------------------------------------------------------------------------
(* The market *)

(* The row of a buy order is captured now, with a price that was observed now  *)
(* or earlier (data_age_seconds), even before that of the last row.  The clock *)
(* is fine enough to tell two captures of an order apart.                      *)
Observe(o, price, seen) ==
    /\ market[o].captured < now
    /\ market' = [market EXCEPT ![o] = [price |-> price, seen |-> seen, captured |-> now]]
    /\ UNCHANGED <<now, cache, scan_time, order, filled, dismissed, shown, marked, struck>>

Tick ==
    /\ now < MaxTime
    /\ now' = now + 1
    /\ UNCHANGED <<market, cache, scan_time, order, filled, dismissed, shown, marked, struck>>

Next ==
    \/ \E keys \in SUBSET Findable : Scan(keys)
    \/ \E keys \in SUBSET Findable : \E passed \in SUBSET keys : CycleScan(keys, passed)
    \/ \E keys \in SUBSET Keys : Get(keys)
    \/ \E k \in Keys : DismissOrder(k) \/ DismissItem(k)
    \/ Clear
    \/ \E o \in Orders, price \in Prices, seen \in 0..now : Observe(o, price, seen)
    \/ Tick

Spec == Init /\ [][Next]_vars

----------------------------------------------------------------------------
(* Properties *)

IsOpportunity(opp) ==
    /\ opp.price \in Recorded /\ opp.age \in Nat
    /\ opp.seen \in 0..now /\ opp.detected \in 0..now
    /\ opp.seen + opp.age = opp.detected

(* Market, cache, answers, records and dismissals have their types, and the   *)
(* age of an entry is that of its observation when it was found.              *)
TypeOK ==
    /\ now \in 1..MaxTime
    /\ \A o \in Orders : market[o].price \in Prices
    /\ \A o \in Orders : market[o].seen <= market[o].captured /\ market[o].captured \in 0..now
    /\ DOMAIN cache \subseteq Keys /\ \A k \in DOMAIN cache : IsOpportunity(cache[k])
    /\ DOMAIN shown \subseteq Keys /\ \A k \in DOMAIN shown : IsOpportunity(shown[k])
    /\ scan_time \in 0..now /\ order \in Arrangements
    /\ DOMAIN filled \subseteq Orders
    /\ DOMAIN dismissed \subseteq Items

Served == \E keys \in SUBSET Keys : Get(keys)

(* A Black Market card marked as filled is not served again "until a fresher   *)
(* scan of that item arrives" (dismiss_opportunity): no card of its order is   *)
(* served before newer data, in the sense of Lifts, is found or met for it,    *)
(* whatever other routes, fills, requests and clears come between.             *)
DismissalHolds ==
    [][ \A k \in DOMAIN shown' \cap BlackMarket : OrderOf[k] \in DOMAIN marked => ~Served ]_vars

(* A dismissal outside the Black Market lasts its full time whatever is scanned *)
(* meanwhile ("15-minute temporary suppression").                              *)
ItemStaysDismissed ==
    [][ \A k \in DOMAIN shown' \ BlackMarket :
           ItemOf[k] \in DOMAIN struck /\ now < struck[ItemOf[k]] + DismissalTime
               => ~Served ]_vars

(* A row captured since the detection has a lower price or none: its price may *)
(* have been observed before that of the opportunity.                          *)
Undercut(k, opp) ==
    LET row == market[OrderOf[k]]
    IN  row.captured >= opp.detected /\ (row.price < opp.price \/ row.price = 0)

(* Reconciliation "prevents premature eviction of valid active alerts": an      *)
(* opportunity leaves the cache when it is cleared, dismissed or marked, found *)
(* filled, too old, or undercut by a row captured since it was detected.       *)
NoPrematureEviction ==
    [][ \A k \in DOMAIN cache \ DOMAIN cache' :
           \/ Clear
           \/ ItemDismissed(k, dismissed) \/ ItemDismissed(k, dismissed')
           \/ HasRecord(k, filled)
           \/ k \in BlackMarket /\ \E j \in BlackMarket : OrderOf[j] = OrderOf[k] /\ DismissOrder(j)
           \/ Outlived(k, cache[k])
           \/ k \in BlackMarket /\ Undercut(k, cache[k]) ]_vars

Scanned == \E keys \in SUBSET Findable :
               Scan(keys) \/ \E passed \in SUBSET keys : CycleScan(keys, passed)

DataInTime(opp, k) ==
    \E p \in Prices : /\ opp.price = Effective[p]
                      /\ now - opp.seen <= Lifespan[k][p] + Lifespan[k][Effective[p]]

(* A scan finds no order older than its lifespan and the cache keeps none       *)
(* longer than the lifespan of its projected price: data never outlives both.  *)
DataAgeBounded ==
    [][ \A k \in DOMAIN cache' \cap BlackMarket :
           ~DataInTime(cache'[k], k) => ~Scanned ]_vars
=============================================================================
