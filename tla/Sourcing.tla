-------------------------------- MODULE Sourcing --------------------------------
(***************************************************************************)
(* Where the scans of OpportunityScanner (app/core/opportunity_engine.py)    *)
(* look prices up, and where they buy.  The dictionary of _load_prices holds *)
(* a row for some items, places and qualities; a missing row reads as the    *)
(* blank one.  All scans of a pass use the dictionary loaded at its start.   *)
(***************************************************************************)
EXTENDS Pricing, Sequences

CONSTANTS
    Items,          \* records: class, kind, tier, enchant, dragon, line, returned
    Royal,          \* ROYAL_SAFE_CITIES, in the order of the list
    Caerleon, Brecilien, BlackMarket,
    Qualities,      \* a range from 1
    RefiningCity,   \* the city that refines the materials of a line best
    MinVolume,      \* settings.anti_bait_min_volume
    MinMargin,      \* the scanner's least margin, in hundredths of a percent
    MinRoi,         \* its least return on the cost, in percent
    MinArbProfit    \* settings.min_arb_profit

RoyalCities == {Royal[i] : i \in DOMAIN Royal}
Places == RoyalCities \cup {Caerleon, Brecilien, BlackMarket}

ASSUME PlaceAssumption ==
    /\ Royal \in Seq(RoyalCities)
    /\ {Caerleon, Brecilien, BlackMarket} \cap RoyalCities = {}
(* What get_min_realistic_price tells apart in the name of an item. *)
ASSUME ItemAssumption ==
    \A i \in Items :
        /\ i.tier \in 1..8 /\ i.enchant \in 0..4
        /\ i.class = "enchant_material" => i.kind \in DOMAIN MaterialFloor
        /\ i.class = "material" => i.kind \in DOMAIN ResourceFloor
        /\ i.kind = "mount" => i.class \notin {"enchant_material", "artifact", "material"}
(* Flips are not asked for a return on their cost of their own: the margin of   *)
(* eight percent they have to reach exceeds the one every scanner is built with. *)
ASSUME ThresholdAssumption ==
    /\ Qualities \subseteq Nat /\ 1 \in Qualities
    /\ MinVolume \in Nat /\ MinMargin \in Nat /\ MinRoi \in 0..8 /\ MinArbProfit \in Nat

VARIABLE prices     \* the dictionary, a function of the triples it has a row for

RowOf(i, c, q) == IF <<i, c, q>> \in DOMAIN prices THEN prices[i, c, q] ELSE Blank

Ask(i, c, q) == RowOf(i, c, q).sell
Bid(i, c, q) == RowOf(i, c, q).buy
Age(i, c, q) == RowOf(i, c, q).age
Volume(i, c, q) == RowOf(i, c, q).volume

(* The rank of a city in the list. *)
Rank(c) == CHOOSE n \in DOMAIN Royal : Royal[n] = c
First(cities) == Royal[Min({Rank(c) : c \in cities})]

(* A reported volume that is too small to trust. *)
Thin(volume) == volume > 0 /\ volume < MinVolume

(* A listing pays two and a half percent besides the tax; hundredths of silver. *)
AfterListing(price) == (price * (975 - 10 * Tax)) \div 10

(* net, in hundredths of silver, is that many percent of a cost in hundredths. *)
ReturnAtLeast(net, cost, percent) == 100 * net >= percent * cost
ReturnAtMost(net, cost, percent) == 100 * net <= percent * cost

(* An offer that is there, fresh and not absurd. *)
Usable(i, c, q) ==
    /\ Ask(i, c, q) > 0
    /\ Age(i, c, q) <= AgeLimit(i)
    /\ PriceValid(i, Ask(i, c, q), Bid(i, c, q))

(* The limit of a busy market is another. *)
UsableInVolume(i, c, q) ==
    /\ Ask(i, c, q) > 0
    /\ Age(i, c, q) <= AgeLimitFor(i, Volume(i, c, q))
    /\ PriceValid(i, Ask(i, c, q), Bid(i, c, q))

----------------------------------------------------------------------------
(* _cheapest_royal_sell *)

RoyalPrices(i, q) == Cleaned(Asks([c \in RoyalCities |-> RowOf(i, c, q)], RoyalCities))

(* The royal cities one may buy quality q in: the cleaned price has to be sane. *)
Buyable(i, q) ==
    {c \in RoyalCities :
        /\ Ask(i, c, q) > 0 /\ RoyalPrices(i, q)[c] > 0
        /\ PriceValid(i, RoyalPrices(i, q)[c], Bid(i, c, q))
        /\ Age(i, c, q) <= AgeLimit(i)}

BestPrice(i, q) == Min({RoyalPrices(i, q)[c] : c \in Buyable(i, q)})
BestCity(i, q) == First({c \in Buyable(i, q) : RoyalPrices(i, q)[c] = BestPrice(i, q)})

----------------------------------------------------------------------------
(* _get_royal_median_sell: in each city the first quality that has a sane     *)
(* price, of any age.                                                         *)

Sane(i, c, q) ==
    {x \in Qualities :
        x >= q /\ Ask(i, c, x) > 0 /\ PriceValid(i, Ask(i, c, x), Bid(i, c, x))}

RoyalMedian(i, q) ==
    LET cities == {c \in RoyalCities : Sane(i, c, q) # {}}
    IN  IF cities = {} THEN 0
        ELSE Median([c \in cities |-> Ask(i, c, Min(Sane(i, c, q)))])

----------------------------------------------------------------------------
(* _calc_material_cost *)

Purchase(i, n, c, q, price, age) ==
    [item |-> i, quantity |-> n, city |-> c, quality |-> q, price |-> price, age |-> age]

(* A Caerleon offer below the floor is taken at the median of the royal cities. *)
Propped(i, c) ==
    /\ c = Caerleon /\ Ask(i, c, 1) > 0 /\ Age(i, c, 1) <= AgeLimit(i)
    /\ Ask(i, c, 1) < RealisticFloor(i) /\ RoyalMedian(i, 1) >= RealisticFloor(i)

(* One ingredient, for work in city c: there, else where it is refined, else in *)
(* the cheapest royal city; in Caerleon only there.                             *)
Source(i, n, c, localOnly) ==
    IF Usable(i, c, 1) THEN {Purchase(i, n, c, 1, Ask(i, c, 1), Age(i, c, 1))}
    ELSE IF Propped(i, c) THEN {Purchase(i, n, c, 1, RoyalMedian(i, 1), Age(i, c, 1))}
    ELSE IF c = Caerleon THEN {}
    ELSE IF i.line \in DOMAIN RefiningCity /\ Usable(i, RefiningCity[i.line], 1) THEN
        LET r == RefiningCity[i.line]
        IN  {Purchase(i, n, r, 1, Ask(i, r, 1), Age(i, r, 1))}
    ELSE IF ~localOnly /\ Buyable(i, 1) # {} THEN
        LET r == BestCity(i, 1)
        IN  {Purchase(i, n, r, 1, BestPrice(i, 1), Age(i, r, 1))}
    ELSE {}

(* A recipe is a function from ingredients to quantities. *)
Materials(recipe, c, localOnly) ==
    UNION {Source(i, recipe[i], c, localOnly) : i \in DOMAIN recipe}

Complete(recipe, bought) == {p.item : p \in bought} = DOMAIN recipe

LineCost(p) == p.price * p.quantity
Gross(bought) == MapThenSumSet(LineCost, bought)

(* What the workshop gives back is not paid for; hundredths of silver, and the *)
(* rate in hundredths of a percent.                                            *)
Net(bought, rate) ==
    LET Paid(p) == IF p.item.returned THEN (LineCost(p) * (10000 - rate)) \div 100
                   ELSE 100 * LineCost(p)
    IN  MapThenSumSet(Paid, bought)

Oldest(bought) == Max({p.age : p \in bought} \cup {0})

(* calculate_rrr of a production bonus, in hundredths of a percent. *)
ReturnRate(bonus) == 10000 - (2000000 + 100 + bonus) \div (2 * (100 + bonus))
=============================================================================
