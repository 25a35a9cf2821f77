------------------------------- MODULE Trading -------------------------------
(***************************************************************************)
(* The scans of OpportunityScanner (app/core/opportunity_engine.py) that     *)
(* move goods without changing them: flips to the Black Market, arbitrage    *)
(* between royal cities, market making and quality inversions.  Each treats  *)
(* every item on its own, so the goods are one item.  ScanAll runs them.     *)
(***************************************************************************)
EXTENDS Sourcing

CONSTANTS
    Item,           \* the item traded, one of Items
    ItemValue,      \* its value in the catalogue, 0 when it is not known
    Distance,       \* zones between two places
    MinBmProfit     \* settings.min_bm_profit

ASSUME TradeAssumption ==
    /\ Item \in Items
    /\ MinBmProfit \in Nat

AskOf(c, q) == Ask(Item, c, q)
BidOf(c, q) == Bid(Item, c, q)
AgeOf(c, q) == Age(Item, c, q)
VolumeOf(c, q) == Volume(Item, c, q)

Opportunity(kind, from, bought, to, sold, cost, price, net) ==
    [kind |-> kind, buy_city |-> from, buy_quality |-> bought, sell_city |-> to,
     quality |-> sold, buy_price |-> cost, sell_price |-> price, net |-> net]

----------------------------------------------------------------------------
(* scan_b_arbitrage *)

(* Mutant: only goods of the very quality fill an order. *)
FillersExact(q) == {x \in {q} \cap Qualities : Buyable(Item, x) # {}}

(* An order for quality q is filled with the cheapest item of q or better.     *)
Fillers(q) == {x \in Qualities : x >= q /\ Buyable(Item, x) # {}}
Filler(q) == Min({x \in Fillers(q) : \A y \in Fillers(q) : BestPrice(Item, x) <= BestPrice(Item, y)})

Lifetime(q) == BmAgeLimit(Item, BidOf(BlackMarket, q))

OrderBelieved(q) ==
    /\ BmPriceValid(BidOf(BlackMarket, q), ItemValue)
    /\ AgeOf(BlackMarket, q) <= Lifetime(q)

FlipNet(q) == Proceeds(BidOf(BlackMarket, q)) - 100 * BestPrice(Item, Filler(q))

(* The order outlives the trip, and both prices are of about the same time. *)
FlipInTime(q, c, x) ==
    /\ AgeOf(c, x) <= AgeLimitFor(Item, VolumeOf(c, x))
    /\ Lifetime(q) - AgeOf(BlackMarket, q) >= TravelBuffer(Distance[c, BlackMarket], TRUE)
    /\ Gap(AgeOf(BlackMarket, q), AgeOf(c, x)) <= LegDesync(Item.tier)

FlipPays(q, price) ==
    /\ BidOf(BlackMarket, q) <= 8 * price
    /\ FlipNet(q) >= 100 * Max({MinBmProfit, (12 * price) \div 100, 2000})
    /\ MarginAtLeast(FlipNet(q), price, DangerousMargin(price, MinMargin))
    /\ FlipNet(q) > 60 * price => AgeOf(BlackMarket, q) <= 2 * Hour

IsFlip(q) ==
    /\ IsGear(Item) /\ OrderBelieved(q) /\ Fillers(q) # {}
    /\ LET x == Filler(q)
       IN  /\ ~Thin(VolumeOf(BestCity(Item, x), x))
           /\ FlipInTime(q, BestCity(Item, x), x)
           /\ FlipPays(q, BestPrice(Item, x))

Flips ==
    {LET x == Filler(q)
     IN  Opportunity("flip", BestCity(Item, x), x, BlackMarket, q,
                     BestPrice(Item, x), BidOf(BlackMarket, q), FlipNet(q)) :
        q \in {x \in Qualities : IsFlip(x)}}

----------------------------------------------------------------------------
(* scan_arbitrage *)

IsSource(c, q) ==
    /\ AskOf(c, q) > 0 /\ AgeOf(c, q) <= AgeLimit(Item)
    /\ PriceValid(Item, AskOf(c, q), BidOf(c, q))

Sources(q) == {c \in RoyalCities : IsSource(c, q)}
SourcePrices(q) == Cleaned([c \in Sources(q) |-> AskOf(c, q)])

Destinations(q) == {c \in RoyalCities : BidOf(c, q) > 0}
DestinationPrices(q) == Cleaned([c \in Destinations(q) |-> BidOf(c, q)])

(* Mutant: the sides of the books are swapped, a route bids in its source and   *)
(* asks in its destination.                                                    *)
ArbitragePatient(src, dst, q) == Proceeds(AskOf(dst, q)) - 100 * BidOf(src, q)

ArbitrageNet(src, dst, q) == Proceeds(BidOf(dst, q)) - 100 * AskOf(src, q)

ArbitrageInTime(src, dst, q) ==
    LET limit == AgeLimitFor(Item, VolumeOf(dst, q))
    IN  /\ AgeOf(dst, q) <= limit
        /\ limit - AgeOf(dst, q) >= TravelBuffer(Distance[src, dst], FALSE)
        /\ Gap(AgeOf(dst, q), AgeOf(src, q)) <= LegDesync(Item.tier)

ArbitragePays(src, dst, q) ==
    LET net == ArbitrageNet(src, dst, q)
    IN  /\ net >= 100 * MinArbProfit
        /\ net <= 60 * AskOf(src, q)
        /\ MarginAtLeast(net, AskOf(src, q), MinMargin)
        /\ ReturnAtLeast(net, 100 * AskOf(src, q), MinRoi)

IsArbitrage(src, dst, q) ==
    /\ src \in Sources(q) /\ SourcePrices(q)[src] # 0
    /\ dst \in Destinations(q) \ {src} /\ DestinationPrices(q)[dst] # 0
    /\ ~Thin(VolumeOf(dst, q))
    /\ ArbitrageInTime(src, dst, q)
    /\ ArbitragePays(src, dst, q)

Arbitrages ==
    {Opportunity("arbitrage", r[1], r[3], r[2], r[3], AskOf(r[1], r[3]), BidOf(r[2], r[3]),
                 ArbitrageNet(r[1], r[2], r[3])) :
        r \in {x \in RoyalCities \X RoyalCities \X Qualities : IsArbitrage(x[1], x[2], x[3])}}

----------------------------------------------------------------------------
(* scan_market_making and, for Caerleon, scan_b_market_making: outbid the     *)
(* best request by one silver and undercut the cheapest offer by one.         *)

(* In thousandths of silver; both listings cost two and a half percent. *)
ListingFees(c, q) == 25 * (BidOf(c, q) + 1) + 25 * (AskOf(c, q) - 1)

MakingNet(c, q) ==
    1000 * (AskOf(c, q) - BidOf(c, q) - 2) - ListingFees(c, q) - 10 * Tax * (AskOf(c, q) - 1)

MakingCapital(c, q) == 1000 * (BidOf(c, q) + 1) + ListingFees(c, q)

IsMaking(c, q) ==
    /\ AskOf(c, q) > 0 /\ BidOf(c, q) > 0
    /\ AgeOf(c, q) <= MaxAge(Item, "market_making", 0)
    /\ PriceValid(Item, AskOf(c, q), BidOf(c, q))
    /\ ~Thin(VolumeOf(c, q))
    /\ 10 * (AskOf(c, q) - 1) <= 16 * (BidOf(c, q) + 1)
    /\ MakingNet(c, q) >= 2000 * 1000
    /\ 100 * (MakingNet(c, q) \div 1000) >= 3 * (MakingCapital(c, q) \div 1000)
    /\ 100 * (MakingNet(c, q) \div 1000) <= 45 * (MakingCapital(c, q) \div 1000)

Makings(cities) ==
    {Opportunity("making", r[1], r[2], r[1], r[2], BidOf(r[1], r[2]) + 1, AskOf(r[1], r[2]) - 1,
                 MakingNet(r[1], r[2]) \div 10) :
        r \in {x \in cities \X Qualities : IsMaking(x[1], x[2])}}

----------------------------------------------------------------------------
(* detect_quality_inversion: a better item listed below a worse one, to be     *)
(* listed in its place or sold to the request for it.                          *)

ThinPair(c, low, high) == Thin(VolumeOf(c, low)) \/ Thin(VolumeOf(c, high))

Undercuts(c, low, high) ==
    AskOf(c, low) > 0 /\ PriceValid(Item, AskOf(c, low), BidOf(c, low)) /\ AskOf(c, high) < AskOf(c, low)

(* Relisting pays two and a half percent besides the tax: in thousandths. *)
RelistNet(c, low, high) ==
    AskOf(c, low) * (975 - 10 * Tax) - 1000 * AskOf(c, high)

IsRelisting(c, low, high) ==
    LET net == RelistNet(c, low, high)
    IN  /\ Undercuts(c, low, high)
        /\ BidOf(c, low) > 0 => AskOf(c, low) <= 2 * BidOf(c, low)
        /\ 2 * AskOf(c, low) <= 3 * AskOf(c, high)
        /\ net >= 1000 * MinArbProfit /\ net <= 350 * AskOf(c, high)
        /\ MarginAtLeast(net \div 10, AskOf(c, high), MinMargin)

FillNet(c, low, high) == Proceeds(BidOf(c, low)) - 100 * AskOf(c, high)

IsInstantFill(c, low, high) ==
    LET shown == IF AskOf(c, low) > 0 THEN AskOf(c, low) ELSE BidOf(c, low)
        net == FillNet(c, low, high)
    IN  /\ ~Undercuts(c, low, high)
        /\ BidOf(c, low) > 0 /\ PriceValid(Item, shown, BidOf(c, low))
        /\ AskOf(c, high) < BidOf(c, low)
        /\ 2 * BidOf(c, low) <= 5 * AskOf(c, high)
        /\ net >= 100 * MinArbProfit
        /\ MarginAtLeast(net, AskOf(c, high), MinMargin)

(* Only the age of the better item is looked at. *)
IsInversion(c, low, high) ==
    /\ low < high
    /\ AskOf(c, high) > 0 /\ AgeOf(c, high) <= AgeLimit(Item)
    /\ PriceValid(Item, AskOf(c, high), BidOf(c, high))
    /\ ~ThinPair(c, low, high)
    /\ AskOf(c, low) > 0 => 2 * AskOf(c, low) <= 5 * AskOf(c, high)

Pairs == {r \in Places \X Qualities \X Qualities : IsInversion(r[1], r[2], r[3])}

Inversions ==
    {Opportunity("relisting", r[1], r[3], r[1], r[2], AskOf(r[1], r[3]), AskOf(r[1], r[2]),
                 RelistNet(r[1], r[2], r[3]) \div 10) :
        r \in {x \in Pairs : IsRelisting(x[1], x[2], x[3])}}
    \cup
    {Opportunity("fill", r[1], r[3], r[1], r[2], AskOf(r[1], r[3]), BidOf(r[1], r[2]),
                 FillNet(r[1], r[2], r[3])) :
        r \in {x \in Pairs : IsInstantFill(x[1], x[2], x[3])}}

=============================================================================
