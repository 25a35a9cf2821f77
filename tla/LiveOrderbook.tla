---------------------------- MODULE LiveOrderbook ----------------------------
(***************************************************************************)
(* AlbionNatsClient (app/ingestion/nats_client.py): the books built from     *)
(* order messages and from POST /ingest/private, the purger, the buffer that *)
(* a flusher writes to market_prices from a worker thread, and the dismissal *)
(* of an item (app/api/system.py).  The connection to the broker is not      *)
(* modelled: orders may arrive at any time, as private ingestion allows.     *)
(***************************************************************************)
EXTENDS Orderbook

CONSTANTS
    Keys,           \* (item_id, city, quality)
    Items,          \* the keys of each item
    BlackMarket,    \* the keys whose city is the Black Market
    OrderIds, Prices, Amounts, Expiries, Volumes,
    MinVolume,      \* anti bait volume of each key
    RequestTtl,     \* _get_bm_ttl: [Keys -> [Prices -> Nat]]
    OfferTtl,       \* seconds a Black Market offer is kept
    EmptyTtl,       \* seconds an empty book is kept, for each key
    BucketLength,   \* seconds of a captured_at bucket
    NatsEnabled,    \* settings.enable_nats_ingestion
    MaxTime         \* bound of the clock

ASSUME KeyAssumption == BlackMarket \subseteq Keys /\ Items \subseteq SUBSET Keys
ASSUME TtlAssumption ==
    /\ RequestTtl \in [Keys -> [Prices -> Nat]]
    /\ EmptyTtl \in [Keys -> Nat]
    /\ OfferTtl \in Nat
ASSUME OrderAssumption ==
    /\ Prices \subseteq Nat /\ Amounts \subseteq Nat /\ Volumes \subseteq Nat
    /\ Never \notin Nat /\ Expiries \subseteq Nat \cup {Never}
    /\ MinVolume \in [Keys -> Nat]
ASSUME ClockAssumption == BucketLength \in Nat \ {0} /\ MaxTime \in Nat

VARIABLES
    now,            \* datetime.utcnow()
    phase,          \* of the client: new, running (flusher and purger), stopped
    books,          \* live_orderbook
    order_buffer,   \* the keys of order_buffer
    snapshot,       \* keys handed to the writer thread; {} when it is idle
    stored          \* newest market_prices row of each key

vars == <<now, phase, books, order_buffer, snapshot, stored>>

NoRow == [bucket |-> Never]
Bucket(t) == t \div BucketLength

Init ==
    /\ now = 0
    /\ phase = "new"
    /\ books = <<>>
    /\ order_buffer = {}
    /\ snapshot = {}
    /\ stored = [k \in Keys |-> NoRow]

----------------------------------------------------------------------------
(* Orders *)

EmptyBook ==
    [offers |-> <<>>, requests |-> <<>>, metrics |-> NoMetrics,
     volume |-> 0, last_updated |-> now]

BookOf(k) == IF k \in DOMAIN books THEN books[k] ELSE EmptyBook

Reprice(k, book) ==
    [book EXCEPT !.metrics = Metrics(book.offers, book.requests, MinVolume[k])]

Entry(price, amount, expires) ==
    [price |-> price, amount |-> amount, expires |-> expires, updated_at |-> now]

(* A dictionary in which x has the value v. *)
Put(f, x, v) == [y \in DOMAIN f \cup {x} |-> IF y = x THEN v ELSE f[y]]

(* order_message_handler and private_ingest: the order replaces what is known *)
(* under its id, and the key is buffered for the flusher.                     *)
ReceiveOffer(k, id, price, amount, expires) ==
    LET book == [BookOf(k) EXCEPT !.offers = Put(@, id, Entry(price, amount, expires)),
                                  !.last_updated = now]
    IN  /\ books' = Put(books, k, Reprice(k, book))
        /\ order_buffer' = order_buffer \cup {k}
        /\ UNCHANGED <<now, phase, snapshot, stored>>

ReceiveRequest(k, id, price, amount, expires) ==
    LET book == [BookOf(k) EXCEPT !.requests = Put(@, id, Entry(price, amount, expires)),
                                  !.last_updated = now]
    IN  /\ books' = Put(books, k, Reprice(k, book))
        /\ order_buffer' = order_buffer \cup {k}
        /\ UNCHANGED <<now, phase, snapshot, stored>>

(* An order without an id opens a book and is buffered, nothing more. *)
ReceiveAnonymous(k) ==
    /\ books' = Put(books, k, BookOf(k))
    /\ order_buffer' = order_buffer \cup {k}
    /\ UNCHANGED <<now, phase, snapshot, stored>>

(* Mutant: histories add up. *)
ReceiveHistoryAdds(k, volume) ==
    /\ k \in DOMAIN books
    /\ books' = [books EXCEPT ![k].volume = @ + volume]
    /\ UNCHANGED <<now, phase, order_buffer, snapshot, stored>>

(* history_message_handler: only a book that exists takes the volume. *)
ReceiveHistory(k, volume) ==
    /\ k \in DOMAIN books
    /\ books' = [books EXCEPT ![k].volume = volume]
    /\ UNCHANGED <<now, phase, order_buffer, snapshot, stored>>

(* POST /opportunities/dismiss drops every book of the item. *)
Dismiss(item) ==
    /\ books' = [k \in DOMAIN books \ item |-> books[k]]
    /\ UNCHANGED <<now, phase, order_buffer, snapshot, stored>>

----------------------------------------------------------------------------
(* One round of _expiration_purger *)

NotExpired(order) == order.expires = Never \/ order.expires > now

(* Mutant: requests are kept as long as offers. *)
KeepsRequestAsOffer(k, order) ==
    NotExpired(order) /\ (k \in BlackMarket => now - order.updated_at <= OfferTtl)

KeepsOffer(k, order) ==
    NotExpired(order) /\ (k \in BlackMarket => now - order.updated_at <= OfferTtl)

KeepsRequest(k, order) ==
    NotExpired(order) /\ now - order.updated_at <= RequestTtl[k][order.price]

KeptOffers(k) ==
    LET side == books[k].offers
    IN  [o \in {x \in DOMAIN side : KeepsOffer(k, side[x])} |-> side[o]]

KeptRequests(k) ==
    LET side == books[k].requests
    IN  [o \in {x \in DOMAIN side : KeepsRequest(k, side[x])} |-> side[o]]

Emptied(k) == KeptOffers(k) = <<>> /\ KeptRequests(k) = <<>>

KeptBook(k) ==
    [books[k] EXCEPT !.offers = KeptOffers(k), !.requests = KeptRequests(k)]

(* Mutant: the surviving orders are not priced again. *)
PurgedUnpriced(k) == KeptBook(k)

(* A book that still has orders is priced again; one that has none keeps the  *)
(* metrics of the orders it has just lost.                                    *)
Purged(k) == IF Emptied(k) THEN KeptBook(k) ELSE Reprice(k, KeptBook(k))

Abandoned(k) == Emptied(k) /\ now - books[k].last_updated > EmptyTtl[k]

Purge ==
    /\ phase = "running"
    /\ books' = [k \in {x \in DOMAIN books : ~Abandoned(x)} |-> Purged(k)]
    /\ UNCHANGED <<now, phase, order_buffer, snapshot, stored>>

----------------------------------------------------------------------------
(* _buffer_flusher and _process_buffer *)

(* Mutant: the buffer is not cleared. *)
HandOverKeeps ==
    /\ phase = "running"
    /\ snapshot = {} /\ order_buffer # {}
    /\ snapshot' = order_buffer
    /\ UNCHANGED <<now, phase, books, order_buffer, stored>>

(* Every two seconds the buffer is handed to a thread; the flusher awaits it. *)
HandOver ==
    /\ phase = "running"
    /\ snapshot = {} /\ order_buffer # {}
    /\ snapshot' = order_buffer
    /\ order_buffer' = {}
    /\ UNCHANGED <<now, phase, books, stored>>

(* Only books that are still there and have a price are written. *)
Writable(k) ==
    /\ k \in snapshot \cap DOMAIN books
    /\ books[k].metrics.true_sell > 0 \/ books[k].metrics.true_buy > 0

Coalesce(new, old) == IF new > 0 THEN new ELSE old

(* Mutant: the conflict clause takes the new values as they are. *)
OverwrittenRow(k) ==
    [bucket |-> Bucket(now), sell |-> books[k].metrics.true_sell,
     buy |-> books[k].metrics.true_buy, volume |-> books[k].volume]

(* INSERT, or ON CONFLICT on the same bucket: a price the book does not have   *)
(* leaves the row's price alone, the volume is only written by the insert.    *)
UpsertedRow(k) ==
    LET sell == books[k].metrics.true_sell
        buy == books[k].metrics.true_buy
        row == stored[k]
    IN  IF row.bucket = Bucket(now)
        THEN [row EXCEPT !.sell = Coalesce(sell, @), !.buy = Coalesce(buy, @)]
        ELSE [bucket |-> Bucket(now), sell |-> sell, buy |-> buy,
              volume |-> books[k].volume]

(* The thread reads each book once and commits all rows together. *)
WriteBatch ==
    /\ snapshot # {}
    /\ stored' = [k \in Keys |-> IF Writable(k) THEN UpsertedRow(k) ELSE stored[k]]
    /\ snapshot' = {}
    /\ UNCHANGED <<now, phase, books, order_buffer>>

(* "Error saving buffer to DB": rolled back, and the batch is gone. *)
WriteFails ==
    /\ snapshot # {}
    /\ snapshot' = {}
    /\ UNCHANGED <<now, phase, books, order_buffer, stored>>

----------------------------------------------------------------------------
(* start() of the lifespan; nothing runs when ingestion is disabled. *)
StartClient ==
    /\ NatsEnabled /\ phase = "new"
    /\ phase' = "running"
    /\ UNCHANGED <<now, books, order_buffer, snapshot, stored>>

(* stop() cancels both tasks; a thread that is writing runs on. *)
StopClient ==
    /\ phase = "running"
    /\ phase' = "stopped"
    /\ UNCHANGED <<now, books, order_buffer, snapshot, stored>>

Tick ==
    /\ now < MaxTime
    /\ now' = now + 1
    /\ UNCHANGED <<phase, books, order_buffer, snapshot, stored>>

Receive ==
    \E k \in Keys :
        \/ \E id \in OrderIds, p \in Prices, a \in Amounts, e \in Expiries :
              ReceiveOffer(k, id, p, a, e) \/ ReceiveRequest(k, id, p, a, e)
        \/ ReceiveAnonymous(k)
        \/ \E v \in Volumes : ReceiveHistory(k, v)

Write == WriteBatch \/ WriteFails

Next ==
    \/ Receive
    \/ \E item \in Items : Dismiss(item)
    \/ Purge \/ HandOver \/ Write
    \/ StartClient \/ StopClient \/ Tick

Spec == Init /\ [][Next]_vars

(* The flusher's loop and its thread always take their next step. *)
FairSpec == Spec /\ WF_vars(HandOver) /\ WF_vars(Write)

----------------------------------------------------------------------------
(* Properties *)

Order == [price : Prices, amount : Amounts, expires : Expiries, updated_at : Nat]

IsSide(side) ==
    /\ DOMAIN side \subseteq OrderIds /\ IsFiniteSet(DOMAIN side)
    /\ \A o \in DOMAIN side : side[o] \in Order

(* Books, buffer and rows have their types. *)
TypeOK ==
    /\ now \in Nat /\ phase \in {"new", "running", "stopped"}
    /\ DOMAIN books \subseteq Keys
    /\ \A k \in DOMAIN books :
          /\ IsSide(books[k].offers) /\ IsSide(books[k].requests)
          /\ books[k].volume \in Volumes \cup {0}
          /\ books[k].last_updated \in 0..now
    /\ order_buffer \subseteq Keys /\ snapshot \subseteq Keys
    /\ DOMAIN stored = Keys

(* The prices a book serves are those of its orders: whatever arrives, is      *)
(* updated, expires or is purged, a book that has an order was priced after    *)
(* the last change to its orders.                                              *)
MetricsExact ==
    \A k \in DOMAIN books :
        books[k].offers # <<>> \/ books[k].requests # <<>> =>
            books[k].metrics =
                Metrics(books[k].offers, books[k].requests, MinVolume[k])

(* Nothing loses a live order: one that disappears from a book, or with its    *)
(* book, without a dismissal of its item has expired, or is older than what    *)
(* its side, its price and its city are kept for.                              *)
LiveOffer(k, order) ==
    /\ order.expires # Never => order.expires > now
    /\ k \in BlackMarket => now <= order.updated_at + OfferTtl

LiveRequest(k, order) ==
    /\ order.expires # Never => order.expires > now
    /\ now <= order.updated_at + RequestTtl[k][order.price]

KeepsLiveOrders(k) ==
    /\ \A o \in DOMAIN books[k].offers :
          LiveOffer(k, books[k].offers[o]) =>
              k \in DOMAIN books' /\ o \in DOMAIN books'[k].offers
    /\ \A o \in DOMAIN books[k].requests :
          LiveRequest(k, books[k].requests[o]) =>
              k \in DOMAIN books' /\ o \in DOMAIN books'[k].requests

Dismissed(k) == \E item \in Items : k \in item /\ Dismiss(item)

LiveOrdersSurvive ==
    [][\A k \in DOMAIN books : Dismissed(k) \/ KeepsLiveOrders(k)]_vars

(* Anti bait: a new offer of fewer units than the anti bait volume cannot pull *)
(* the true sell price of a book that has that volume below its cheapest offer.*)
BaitIgnored ==
    [][ \A k \in DOMAIN books \cap DOMAIN books' :
           LET old == books[k].offers
               new == books'[k].offers
           IN  /\ DOMAIN old \subseteq DOMAIN new
               /\ \A o \in DOMAIN old : new[o] = old[o]
               /\ Depth(old) >= MinVolume[k]
               /\ Depth(new) - Depth(old) < MinVolume[k]
               => books'[k].metrics.true_sell >= TopSell(old) ]_vars

(* Filling a larger quantity never gets cheaper per unit, also where the book  *)
(* runs out and the deficit is extrapolated (get_vwap_for_quantity).           *)
CheaperPerUnit(v, q, w, r) == v * r * r < w * q * q

VwapGrowsWithQuantity ==
    \A k \in DOMAIN books :
        LET side == Unexpired(books[k].offers, now)
        IN  Valid(side) # {} =>
                \A q \in 1..Depth(side) + 2 :
                    ~CheaperPerUnit(Vwap(side, q + 1), q + 1, Vwap(side, q), q)

(* Within a bucket the feed never erases a price it has stored: a one sided    *)
(* update leaves the other side's price in the row.                            *)
StoredPricesStay ==
    [][ \A k \in Keys :
           stored[k] # NoRow /\ stored'[k].bucket = stored[k].bucket =>
               /\ stored[k].sell > 0 => stored'[k].sell > 0
               /\ stored[k].buy > 0 => stored'[k].buy > 0 ]_vars

(* "Private direct ingestion flushes immediately even if public NATS is        *)
(* offline": no key stays buffered while the client runs.                      *)
BufferDrains ==
    \A k \in Keys : (phase = "running" /\ k \in order_buffer) ~> k \notin order_buffer \/ phase # "running"
=============================================================================
