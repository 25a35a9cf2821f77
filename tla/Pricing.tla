------------------------------- MODULE Pricing -------------------------------
(***************************************************************************)
(* What the scans of app/core/opportunity_engine.py ask of a price before   *)
(* they believe it.  An item is a record of Freshness with two more fields:  *)
(* its kind also tells raw from refined resources, mounts and, of gear and   *)
(* artifacts, the families that the keyword lists of the code tell apart:    *)
(* "rare" are those of every list (_HELL, _UNDEAD, _KEEPER, _MORGANA,        *)
(* _AVALON, _ROYAL), "fey" those of both price floors only (_FEY, _MISTS,    *)
(* _CRYSTAL), "shadow" those of the floor of gear only (_SHADOW, _DEMON,     *)
(* _GATHERER).  dragon tells the items of the dragon patch.                  *)
(* A row is what _load_prices knows of an item of one quality in one city;   *)
(* the blank row stands for a missing one, a scan treats both alike.         *)
(***************************************************************************)
EXTENDS Freshness

CONSTANT Tax    \* percent of a sale: 4 or, without premium, 8

ASSUME TaxAssumption == Tax \in 0..99

Blank == [sell |-> 0, buy |-> 0, volume |-> 0, age |-> 0, average |-> 0, depth |-> 0]

Rows == [sell : Nat, buy : Nat, volume : Nat, age : Nat, average : Nat, depth : Nat]

MIN_PRICE == 100
ABSOLUTE_MAX_PRICE == 500000000

----------------------------------------------------------------------------
(* get_min_realistic_price *)

ByTier(row, t) == row[IF t \in 4..8 THEN t - 3 ELSE 1]

(* Tenths by which each enchantment raises the floor. *)
GearFactor == <<10, 18, 35, 80, 200>>
ResourceFactor == <<10, 25, 70, 200, 600>>

MaterialFloor ==
    [RUNE |-> <<10, 30, 100, 300, 1000>>, SOUL |-> <<30, 100, 300, 1000, 3500>>,
     RELIC |-> <<100, 300, 1000, 4000, 15000>>, SHARD |-> <<300, 800, 2500, 6000, 15000>>]

ResourceFloor ==
    [raw |-> <<8, 25, 80, 250, 800>>, refined |-> <<15, 45, 150, 450, 1500>>]

IsGear(item) == item.class = "equipment" \/ item.kind = "mount"

RealisticFloor(item) ==
    CASE item.class = "enchant_material" -> ByTier(MaterialFloor[item.kind], item.tier)
      [] item.class = "artifact" ->
            ByTier(<<1000, 3500, 12000, 35000, 100000>>, item.tier)
                * (IF item.kind \in {"rare", "fey"} THEN 2 ELSE 1)
      [] IsGear(item) ->
            ((ByTier(<<1500, 4000, 12000, 35000, 100000>>, item.tier)
                * GearFactor[item.enchant + 1]) \div 10)
                * (IF item.kind \in {"rare", "fey", "shadow"} THEN 4 ELSE 1)
      [] item.class = "material" ->
            (ByTier(ResourceFloor[item.kind], item.tier) * ResourceFactor[item.enchant + 1]) \div 10
      [] OTHER -> 10

----------------------------------------------------------------------------
(* is_price_valid and is_bm_price_valid *)

RatioLimit(item) ==
    IF item.dragon \/ (item.tier = 8 /\ item.enchant >= 2) THEN 10 ELSE 5

Realistic(item, price) == price \in RealisticFloor(item)..ABSOLUTE_MAX_PRICE

PriceValid(item, sell, buy) ==
    /\ sell > 0 => Realistic(item, sell)
    /\ buy > 0 => Realistic(item, buy)
    /\ sell > 0 /\ buy > 0 =>
          sell <= RatioLimit(item) * buy /\ buy <= RatioLimit(item) * sell

(* value is the item's value in the catalogue, 0 when it is not known. *)
BmPriceValid(price, value) ==
    /\ price > MIN_PRICE /\ price <= ABSOLUTE_MAX_PRICE
    /\ value > 0 => price < 5000 * value

(* get_max_allowed_bm_age_seconds: how long a Black Market order is believed. *)
BmAgeLimit(item, price) ==
    LET enchanted == item.enchant \in 1..3
    IN  IF price >= 20000000 \/ item.enchant = 4 THEN 48 * Hour
        ELSE IF item.tier = 8 \/ (item.tier = 7 /\ enchanted) \/ price >= 800000
        THEN 24 * Hour
        ELSE IF \/ item.tier = 7 \/ price >= 200000
                \/ item.tier = 6 /\ (enchanted \/ item.kind = "rare" \/ item.class = "artifact")
        THEN 12 * Hour
        ELSE IF item.tier = 6 \/ (item.tier = 5 /\ item.enchant \in 2..3) \/ price >= 100000
        THEN 6 * Hour
        ELSE 3 * Hour

----------------------------------------------------------------------------
(* Prices of one item in several cities *)

(* pool_price_sanity: a price far below the average of the last day, where     *)
(* little is traded, is replaced by that average.                              *)
Pooled(price, average, volume) ==
    IF average > 0 /\ 4 * price < 3 * average /\ volume < 50 /\ price > 0
    THEN average ELSE price

Priced(asks) == {c \in DOMAIN asks : asks[c] > 0}

(* The price in the middle, or the upper one of the two in the middle. *)
Median(asks) ==
    LET half == Cardinality(Priced(asks)) \div 2
        Below(p) == {c \in Priced(asks) : asks[c] < p}
        UpTo(p) == {c \in Priced(asks) : asks[c] <= p}
    IN  CHOOSE p \in {asks[c] : c \in Priced(asks)} :
            Cardinality(Below(p)) <= half /\ half < Cardinality(UpTo(p))

Twins(asks) == Cardinality(Priced(asks)) = 2

Dearest(asks) == Max({asks[c] : c \in Priced(asks)})
Lowest(asks) == Min({asks[c] : c \in Priced(asks)})

(* Mutant: a price above three times the median is pulled down to it. *)
AgainstMedianPulled(price, median) ==
    IF price <= 0 THEN 0
    ELSE IF price > 3 * median \/ 100 * price < 55 * median THEN median
    ELSE price

AgainstMedian(price, median) ==
    IF price <= 0 \/ price > 3 * median THEN 0
    ELSE IF 100 * price < 55 * median THEN median
    ELSE price

(* cross_city_outlier_check: of two prices far apart the dearer one is used    *)
(* for both cities; of three and more those far off the median are dropped or  *)
(* raised to it.                                                               *)
Cleaned(asks) ==
    IF Priced(asks) = {} \/ (Twins(asks) /\ Dearest(asks) <= 2 * Lowest(asks)) THEN asks
    ELSE IF Twins(asks) THEN [c \in DOMAIN asks |-> Dearest(asks)]
    ELSE LET median == Median(asks)
         IN  [c \in DOMAIN asks |-> AgainstMedian(asks[c], median)]

(* The asks of an item in the cities of a list that show one. *)
Asks(rows, cities) ==
    [c \in {x \in cities : rows[x].sell > 0} |-> rows[c].sell]

----------------------------------------------------------------------------
(* Profits.  Amounts after tax are in hundredths of silver, margins in        *)
(* hundredths of a percent.  Every scanner of the program is built with a      *)
(* trade volume of one, for which there is no slippage: only the materials of   *)
(* an enchantment, bought by the batch, have some.                              *)

Proceeds(price) == price * (100 - Tax)

(* _dynamic_min_margin of a route through the red zones. *)
DangerousMargin(price, default) ==
    Max({default,
         IF price <= 150000 THEN 2000
         ELSE IF price <= 1000000 THEN 2000 - (price - 150000) \div 1063
         ELSE IF price <= 5000000 THEN 1200 - (price - 1000000) \div 10000
         ELSE 800})

(* net, in hundredths of silver, is a margin of at least m on the cost. *)
MarginAtLeast(net, cost, m) == net >= (cost * m + 99) \div 100

(* estimate_market_impact of a batch, in thousandths: it grows with the root of  *)
(* its share in what is traded in a day.                                       *)
Impact(n, volume) ==
    LET traded == IF volume > 0 THEN volume ELSE Max({10 * n, 1000})
    IN  CHOOSE r \in 0..1000 :
            /\ r * r * traded <= 24964 * n
            /\ r = 1000 \/ (r + 1) * (r + 1) * traded > 24964 * n

(* calculate_effective_price of a unit when a batch is bought. *)
Slipped(price, n, volume) ==
    IF n <= 1 THEN price ELSE (price * (1000 + Impact(n, volume))) \div 1000

(* calculate_safe_trade_limit for a slippage of three percent. *)
SafeLimit(volume, least) == Max({least, (volume * 36) \div 1000})
=============================================================================
