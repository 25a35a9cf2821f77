------------------------------ MODULE Orderbook ------------------------------
(***************************************************************************)
(* The arithmetic of one level 2 order book of AlbionNatsClient             *)
(* (app/ingestion/nats_client.py): _recalculate_lob_metrics and             *)
(* get_vwap_for_quantity.  A side of a book is a function from the ids of    *)
(* its orders to records with (at least) a price, an amount and an expiry.   *)
(* Prices are whole silver; a thin book has fewer than twenty units, so the  *)
(* rounding of its average to two digits never reaches the next silver.      *)
(***************************************************************************)
EXTENDS Naturals, FiniteSetsExt

CONSTANT Never      \* the expiry of an order that has none

(* Orders that count: "price > 0 and amount > 0". *)
Valid(side) == {o \in DOMAIN side : side[o].price > 0 /\ side[o].amount > 0}

PricesOf(side) == {side[o].price : o \in Valid(side)}

UnitsOf(side, S) == MapThenSumSet(LAMBDA o : side[o].amount, S)

Depth(side) == UnitsOf(side, Valid(side))

(* Units offered at a price or a better one; a buyer prefers low prices. *)
OfferedUpTo(side, p) == UnitsOf(side, {o \in Valid(side) : side[o].price <= p})
OfferedBelow(side, p) == UnitsOf(side, {o \in Valid(side) : side[o].price < p})
WantedFrom(side, p) == UnitsOf(side, {o \in Valid(side) : side[o].price >= p})

(* The average price of all units, for a book too thin to have a depth price. *)
Average(side) ==
    MapThenSumSet(LAMBDA o : side[o].price * side[o].amount, Valid(side)) \div Depth(side)

(* Mutant: the top of the book is taken for the true price. *)
TrueSellTopOfBook(side, minVolume) ==
    IF Valid(side) = {} THEN 0 ELSE Min(PricesOf(side))

(* true_sell_price: walking the offers from the cheapest, the price at which  *)
(* minVolume units have been seen.                                            *)
TrueSell(side, minVolume) ==
    IF Valid(side) = {} THEN 0
    ELSE IF Depth(side) < minVolume THEN Average(side)
    ELSE Min({p \in PricesOf(side) : OfferedUpTo(side, p) >= minVolume})

(* true_buy_price: the same walk over the requests from the dearest. *)
TrueBuy(side, minVolume) ==
    IF Valid(side) = {} THEN 0
    ELSE IF Depth(side) < minVolume THEN Average(side)
    ELSE Max({p \in PricesOf(side) : WantedFrom(side, p) >= minVolume})

TopSell(side) == IF Valid(side) = {} THEN 0 ELSE Min(PricesOf(side))
TopBuy(side) == IF Valid(side) = {} THEN 0 ELSE Max(PricesOf(side))

(* What _recalculate_lob_metrics stores in the book. *)
Metrics(offers, requests, minVolume) ==
    [true_sell |-> TrueSell(offers, minVolume), top_sell |-> TopSell(offers),
     sell_depth |-> Depth(offers),
     true_buy |-> TrueBuy(requests, minVolume), top_buy |-> TopBuy(requests),
     buy_depth |-> Depth(requests)]

NoMetrics ==
    [true_sell |-> 0, top_sell |-> 0, sell_depth |-> 0,
     true_buy |-> 0, top_buy |-> 0, buy_depth |-> 0]

----------------------------------------------------------------------------
(* get_vwap_for_quantity *)

(* Only orders that have not expired are walked. *)
Unexpired(side, now) ==
    [o \in {x \in DOMAIN side : side[x].expires = Never \/ side[x].expires > now} |-> side[o]]

Least(a, b) == IF a <= b THEN a ELSE b
Missing(wanted, have) == IF wanted > have THEN wanted - have ELSE 0

(* Units taken from the offers at price p when filling qty units. *)
TakenAt(side, p, qty) ==
    Least(OfferedUpTo(side, p) - OfferedBelow(side, p), Missing(qty, OfferedBelow(side, p)))

(* Silver paid for the units the book can deliver. *)
FillCost(side, qty) == MapThenSumSet(LAMBDA p : p * TakenAt(side, p, qty), PricesOf(side))

(* Mutant: the deficit is priced like the best offer. *)
VwapAtTop(side, qty) ==
    LET lacking == Missing(qty, Depth(side))
    IN  20 * qty * FillCost(side, qty) + lacking * TopSell(side) * (20 * qty + lacking)

(* The volume weighted average price of qty > 0 units, times 20 * qty * qty:  *)
(* each unit the book lacks is priced at the dearest offer plus five percent  *)
(* of the lacking share (the cap of 35 percent is never reached).             *)
Vwap(side, qty) ==
    LET lacking == Missing(qty, Depth(side))
    IN  20 * qty * FillCost(side, qty)
            + lacking * Max(PricesOf(side)) * (20 * qty + lacking)
=============================================================================
