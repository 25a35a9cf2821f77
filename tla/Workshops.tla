------------------------------- MODULE Workshops -------------------------------
(***************************************************************************)
(* The scans of OpportunityScanner (app/core/opportunity_engine.py) that     *)
(* buy, work and sell: crafting, refining, enchanting and transmutation.     *)
(* Costs and profits are hundredths of silver, returns hundredths of a       *)
(* percent.                                                                  *)
(***************************************************************************)
EXTENDS Sourcing

CONSTANTS
    Recipes,            \* what is crafted: a function from items to recipes
    RefiningRecipes,    \* the same for refined resources
    Enchantable,        \* the enchanted gear that is scanned
    Transmutable,       \* the resources a transmutator may yield
    Bonus,              \* production bonus of a royal city for a line, in percent
    StationFee,         \* hundredths of silver a station takes for an item
    WorkValue,          \* an item's value as a scan without a catalogue reckons it, or 0
    MinCraftProfit,
    MinMaterialVolume,  \* settings.anti_bait_min_volume_materials
    CraftLocally, RefineLocally,    \* the switches for local sourcing only
    UseFocus

ASSUME RecipeAssumption ==
    /\ DOMAIN Recipes \subseteq Items /\ DOMAIN RefiningRecipes \subseteq Items
    /\ Enchantable \subseteq {i \in Items : i.tier >= 4 /\ i.enchant >= 1}
    /\ Transmutable \subseteq {i \in Items : i.line \in {"rock", "stoneblock"} => i.enchant = 0}

ASSUME IngredientAssumption == \A i \in DOMAIN Recipes : DOMAIN Recipes[i] \subseteq Items

(* A city's live book of a material, as far as there is one: the unit price of a *)
(* batch and the depth.  The scans do not yield, so it stays as it is.          *)
VARIABLE live

Rate(c, line) == ReturnRate(18 + Bonus[c, line] + (IF UseFocus THEN 59 ELSE 0))

(* Opportunities that compete carry the same group: one of them is kept, which  *)
(* one a score decides that weighs profit, age and volume and is left out here. *)
Product(kind, group, i, q, bought, workshop, c, price, net) ==
    [kind |-> kind, group |-> group, item |-> i, quality |-> q, bought |-> bought,
     workshop |-> workshop, sell_city |-> c, sell_price |-> price, net |-> net]

Kept(candidates) ==
    {k \in SUBSET candidates :
        \A o \in candidates : Cardinality({x \in k : x.group = o.group}) = 1}

----------------------------------------------------------------------------
(* scan_crafting *)

CraftingCities(i) ==
    {c \in RoyalCities : Complete(Recipes[i], Materials(Recipes[i], c, CraftLocally))}

(* Of the cities with all materials the one that gives most of them back. *)
CraftingCity(i) ==
    First({c \in CraftingCities(i) :
             \A d \in CraftingCities(i) : Bonus[d, i.line] <= Bonus[c, i.line]})

(* The finished item can be had for what it costs to make. *)
SoldReadyMade(i, cost) ==
    \E c \in RoyalCities : UsableInVolume(i, c, 1) /\ 100 * Ask(i, c, 1) <= cost

(* A royal city in which the product may be listed. *)
MaySell(i, c, cities, least) ==
    /\ Ask(i, c, 1) > 0
    /\ Cleaned(Asks([x \in cities |-> RowOf(i, x, 1)], cities))[c] # 0
    /\ UsableInVolume(i, c, 1)
    /\ ~(Volume(i, c, 1) > 0 /\ Volume(i, c, 1) < least)

Crafted(i, workshop, bought) ==
    LET cost == Net(bought, Rate(workshop, i.line)) + StationFee[i]
        net(c) == AfterListing(Ask(i, c, 1)) - cost
        Pays(c) ==
           /\ 100 * Ask(i, c, 1) > cost
           /\ net(c) <= 65 * Gross(bought) /\ ReturnAtMost(net(c), cost, 65)
           /\ net(c) >= 100 * MinCraftProfit
           /\ MarginAtLeast(net(c), Gross(bought), MinMargin)
           /\ ReturnAtLeast(net(c), cost, MinRoi)
    IN  {Product("craft", <<"craft", i>>, i, 1, bought, workshop, c, Ask(i, c, 1), net(c)) :
           c \in {x \in RoyalCities :
                   /\ ~SoldReadyMade(i, cost)
                   /\ MaySell(i, x, RoyalCities, MinVolume)
                   /\ Gap(Age(i, x, 1), Oldest(bought)) <= LegDesync(i.tier)
                   /\ Pays(x)}}

Craftings(i) ==
    IF CraftingCities(i) = {} THEN {}
    ELSE LET workshop == CraftingCity(i)
         IN  Crafted(i, workshop, Materials(Recipes[i], workshop, CraftLocally))

ScanCrafting == UNION {Craftings(i) : i \in DOMAIN Recipes}

----------------------------------------------------------------------------
(* scan_refining *)

RefiningCityOf(i) ==
    First({c \in RoyalCities : \A d \in RoyalCities : Bonus[d, i.line] <= Bonus[c, i.line]})

(* Everything from one city, *)
SingleSourced(recipe, c) ==
    {Purchase(i, recipe[i], c, 1, Ask(i, c, 1), Age(i, c, 1)) :
        i \in {x \in DOMAIN recipe : UsableInVolume(x, c, 1)}}

(* or each ingredient from where it is cheapest, the refining city first.       *)
Cheapest(i) ==
    {c \in RoyalCities :
        /\ UsableInVolume(i, c, 1)
        /\ \A d \in RoyalCities : UsableInVolume(i, d, 1) => Ask(i, c, 1) <= Ask(i, d, 1)}

MultiSourced(recipe, refining) ==
    {LET c == IF refining \in Cheapest(i) THEN refining ELSE First(Cheapest(i))
     IN  Purchase(i, recipe[i], c, 1, Ask(i, c, 1), Age(i, c, 1)) :
        i \in {x \in DOMAIN recipe : Cheapest(x) # {}}}

(* The city shown as the place to buy in is that of the raw resource. *)
BuyCity(bought, refining) ==
    LET raw == {p \in bought : p.item.kind = "raw"}
    IN  IF raw = {} THEN refining ELSE (CHOOSE p \in raw : TRUE).city

(* The plans: what is bought, and the city to buy in. *)
Sourcings(i) ==
    LET refining == RefiningCityOf(i)
        multi == MultiSourced(RefiningRecipes[i], refining)
        single(cities) == {<<SingleSourced(RefiningRecipes[i], c), c>> : c \in cities}
    IN  IF RefineLocally THEN single({refining})
        ELSE single(RoyalCities) \cup {<<multi, BuyCity(multi, refining)>>}

(* From the city to buy in over the refining city no third one is visited. *)
SellingCities(buyCity, refining) ==
    IF buyCity = refining THEN RoyalCities ELSE {refining, buyCity}

RefinedFrom(i, bought, buyCity) ==
    LET refining == RefiningCityOf(i)
        cities == SellingCities(buyCity, refining)
        cost == Net(bought, Rate(refining, i.line)) + StationFee[i]
        net(c) == AfterListing(Ask(i, c, 1)) - cost
        Pays(c) ==
            /\ net(c) <= 100 * Gross(bought)
            /\ net(c) >= MinCraftProfit     \* a hundred of them, or one
            /\ MarginAtLeast(net(c), Gross(bought), Min({MinMargin, 300}))
            /\ ReturnAtLeast(net(c), cost, MinRoi)
    IN  {Product("refine", <<"refine", i>>, i, 1, bought, refining, c, Ask(i, c, 1), net(c)) :
            c \in {x \in cities :
                    /\ MaySell(i, x, cities, MinMaterialVolume)
                    /\ Gap(Age(i, x, 1), Oldest(bought)) <= LegDesync(i.tier)
                    /\ Pays(x)}}

Refinings(i) ==
    UNION {RefinedFrom(i, s[1], s[2]) :
             s \in {x \in Sourcings(i) : Complete(RefiningRecipes[i], x[1])}}

ScanRefining == UNION {Refinings(i) : i \in DOMAIN RefiningRecipes}

----------------------------------------------------------------------------
(* _get_enchant_material_price *)

EnchantMaterial(tier, step) ==
    [class |-> "enchant_material", kind |-> <<"RUNE", "SOUL", "RELIC">>[step], tier |-> tier,
     enchant |-> 0, dragon |-> FALSE, line |-> "enchanting", returned |-> TRUE]

(* _get_enchant_qty *)
EnchantQuantity(i) ==
    CASE i.line = "mainhand" -> 288
      [] i.line = "twohand" -> 384
      [] i.line \in {"armor", "bag"} -> 192
      [] OTHER -> 96

(* ENCHANT_MATERIAL_BOUNDS, from tier 4 to tier 8. *)
LowerBound ==
    [RUNE |-> <<5, 15, 50, 200, 800>>, SOUL |-> <<10, 40, 150, 600, 2500>>,
     RELIC |-> <<50, 200, 800, 3000, 10000>>]
UpperBound ==
    [RUNE |-> <<200, 500, 2000, 8000, 50000>>, SOUL |-> <<400, 1500, 6000, 25000, 150000>>,
     RELIC |-> <<2000, 8000, 30000, 150000, 600000>>]

InBounds(m, price) ==
    price \in LowerBound[m.kind][m.tier - 3]..UpperBound[m.kind][m.tier - 3]

Clamped(m, price) ==
    Max({LowerBound[m.kind][m.tier - 3], Min({UpperBound[m.kind][m.tier - 3], price})})

Rounded(amount, per) == (2 * amount + per) \div (2 * per)

(* Mutant: the whole batch is had at the price of the cheapest offer, less the  *)
(* allowance for its size.                                                     *)
BatchPriceOnTop(m, row, n) == Clamped(m, Rounded(row.sell * (100 - 4 * (n \div 96)), 100))

(* What a unit costs when n are bought, above the offer that shows: the offers   *)
(* behind it are dearer, as is the average of the day.                          *)
BatchPrice(m, row, n) ==
    LET dearer == IF row.average > row.sell THEN 100 * row.average ELSE 120 * row.sell
        share == Min({8500, 2125 * (n \div 96)})
    IN  Clamped(m,
          IF row.depth > 0 /\ row.depth < n
          THEN Rounded(row.depth * row.sell + ((n - row.depth) * dearer) \div 100, n)
          ELSE IF 10 * row.sell < 9 * row.average
          THEN Rounded(row.sell * (10000 - share) + row.average * share, 10000)
          ELSE Rounded(row.sell * (100 + 4 * (n \div 96)), 100))

Offered(m, c, limit) ==
    /\ Ask(m, c, 1) > 0 /\ InBounds(m, Ask(m, c, 1))
    /\ PriceValid(m, Ask(m, c, 1), Bid(m, c, 1))
    /\ Age(m, c, 1) <= limit

FullDay(m, c) ==
    Max({AgeLimitFor(m, Volume(m, c, 1)), IF c = Caerleon THEN 24 * Hour ELSE 0})

RoyalOffers(m) == {c \in RoyalCities : Offered(m, c, AgeLimitFor(m, Volume(m, c, 1)))}

Quote(price, age, volume) == [price |-> price, age |-> age, volume |-> volume]

LiveQuotes(m, c) ==
    IF <<m, c>> \in DOMAIN live /\ InBounds(m, live[<<m, c>>].price)
    THEN {Quote(live[<<m, c>>].price, 0, live[<<m, c>>].depth)} ELSE {}

Quoted(m, c, n) == Quote(BatchPrice(m, RowOf(m, c, 1), n), Age(m, c, 1), Volume(m, c, 1))

(* From the live book, else from the city, else the middle one of the royal     *)
(* cities, in Caerleon a tenth dearer.                                          *)
Material(m, n, c) ==
    IF LiveQuotes(m, c) # {} THEN LiveQuotes(m, c)
    ELSE IF Offered(m, c, FullDay(m, c)) THEN {Quoted(m, c, n)}
    ELSE IF RoyalOffers(m) = {} THEN {}
    ELSE LET unit == [x \in RoyalOffers(m) |-> Quoted(m, x, n).price]
             before(x) ==
                {y \in RoyalOffers(m) :
                    unit[y] < unit[x] \/ (unit[y] = unit[x] /\ Rank(y) < Rank(x))}
             there == CHOOSE x \in RoyalOffers(m) :
                        Cardinality(before(x)) = Cardinality(RoyalOffers(m)) \div 2
             quoted == Quoted(m, there, n)
         IN  {Quote(IF c = Caerleon THEN Rounded(11 * quoted.price, 10) ELSE quoted.price,
                    quoted.age, quoted.volume)}

(* A batch of it, bought with the slippage of its size. *)
Bought(m, n, c, quotes) ==
    {Purchase(m, n, c, 1, Slipped(x.price, n, x.volume), x.age) : x \in quotes}

----------------------------------------------------------------------------
(* scan_b_enchanting and scan_enchanting *)

Plain(i, e) == [i EXCEPT !.enchant = e]

(* The cheapest item of quality q or better in a city. *)
Bases(i, c, q) ==
    LET usable == {x \in Qualities : x >= q /\ Usable(i, c, x)}
        cheapest == {x \in usable : \A y \in usable : Ask(i, c, x) <= Ask(i, c, y)}
    IN  {Purchase(i, 1, c, x, Ask(i, c, x), Age(i, c, x)) :
            x \in {y \in cheapest : y = Min(cheapest)}}

(* The materials of some steps, one after the other, bought in Caerleon.        *)
UsedFor(i, steps) ==
    LET n == EnchantQuantity(i)
        Used(m) == Bought(m, n, Caerleon, Material(m, n, Caerleon))
    IN  UNION {Used(EnchantMaterial(i.tier, s)) : s \in steps}

WorkedForOrder(i, q, base, used) ==
    LET bid == Bid(i, BlackMarket, q)
        cost == Gross(base \cup used)
        net == Proceeds(bid) - 100 * cost
    IN  IF /\ net >= 100 * Max({MinCraftProfit, 2000})
           /\ MarginAtLeast(net, cost, MinMargin)
           /\ ReturnAtLeast(net, 100 * cost, MinRoi)
        THEN {Product("enchant_order", <<"enchant_order", i, q>>, i, q, base \cup used,
                      Caerleon, BlackMarket, bid, net)}
        ELSE {}

(* Bought and worked in Caerleon from any lower enchantment, for an order of    *)
(* the Black Market.                                                            *)
EnchantedForOrder(i, q, e) ==
    LET base == Bases(Plain(i, e), Caerleon, q)
        used == UsedFor(i, (e + 1)..i.enchant)
    IN  IF base # {} /\ Cardinality(used) = i.enchant - e
        THEN WorkedForOrder(i, q, base, used) ELSE {}

Ordered(i, q) ==
    /\ BmPriceValid(Bid(i, BlackMarket, q), WorkValue[i])
    /\ Age(i, BlackMarket, q) <= BmAgeLimit(i, Bid(i, BlackMarket, q))

ScanBEnchanting ==
    UNION {EnchantedForOrder(r[1], r[2], r[3]) :
             r \in {x \in Enchantable \X Qualities \X (0..2) :
                      x[3] < x[1].enchant /\ x[1].enchant <= 3 /\ Ordered(x[1], x[2])}}

(* A base far below the median of the royal cities is taken at the median. *)
Anchored(p, q) ==
    LET median == RoyalMedian(p.item, q)
    IN  IF 5 * p.price < 2 * median THEN [p EXCEPT !.price = median] ELSE p

WorkedInCity(i, c, q, base, quotes) ==
    LET m == EnchantMaterial(i.tier, i.enchant)
        used == Bought(m, EnchantQuantity(i), c, quotes)
        cost == Gross(base \cup used)
        net == AfterListing(Ask(i, c, q)) - 100 * cost
    IN  IF /\ base # {} /\ used # {}
           /\ \A x \in quotes : x.age <= AgeLimitFor(m, x.volume)
           /\ \A p \in base \cup used :
                 Gap(Age(i, c, q), p.age) <= LegDesyncFor(i.tier, i.enchant)
           /\ net >= 100 * MinCraftProfit
           /\ ReturnAtMost(net, 100 * cost, 50)
           /\ MarginAtLeast(net, cost, MinMargin)
           /\ ReturnAtLeast(net, 100 * cost, MinRoi)
           /\ Bid(i, c, q) > 0 => 2 * Ask(i, c, q) <= 5 * Bid(i, c, q)
        THEN {Product("enchant", <<"enchant", i, c>>, i, q, base \cup used, c, c, Ask(i, c, q), net)}
        ELSE {}

(* One step of enchantment in one royal city, listed there. *)
EnchantedInCity(i, c, q) ==
    WorkedInCity(i, c, q,
                 {Anchored(p, q) : p \in Bases(Plain(i, i.enchant - 1), c, q)},
                 Material(EnchantMaterial(i.tier, i.enchant), EnchantQuantity(i), c))

ScanEnchanting ==
    UNION {EnchantedInCity(r[1], r[2], r[3]) :
             r \in {x \in Enchantable \X RoyalCities \X Qualities :
                      x[1].enchant <= 3 /\ Usable(x[1], x[2], x[3])}}

----------------------------------------------------------------------------
(* scan_transmutation *)

(* From a lower tier, twice as dear with each enchantment. *)
TierFee(i) == <<781, 1250, 2500, 5000>>[i.tier - 4] * 2 ^ i.enchant

EnchantFee ==
    << <<1500, 3000, 6000, 24012>>, <<2000, 4000, 8000, 32014>>, <<3000, 6000, 19800, 79234>>,
       <<4800, 15126, 49916, 199673>>, <<14401, 45378, 149748, 748755>> >>

(* What may be turned into i, and for what fee. *)
Origins(i) ==
    (IF i.tier > 4 THEN {<<[i EXCEPT !.tier = i.tier - 1], TierFee(i)>>} ELSE {})
    \cup
    (IF i.enchant > 0 THEN {<<Plain(i, i.enchant - 1), EnchantFee[i.tier - 3][i.enchant]>>} ELSE {})

Transmuted(i, origin, fee, c) ==
    LET cost == Ask(origin, c, 1) + fee
        net == AfterListing(Ask(i, c, 1)) - 100 * cost
        batch == SafeLimit(Volume(i, c, 1), 10)
    IN  IF /\ Usable(origin, c, 1) /\ Usable(i, c, 1)
           /\ net > 0 /\ net * batch >= 100 * MinArbProfit
           /\ ReturnAtLeast(net, 100 * cost, Max({MinRoi, 5})) /\ ReturnAtMost(net, 100 * cost, 60)
           /\ 10 * net >= 35 * Ask(i, c, 1) /\ net <= 45 * Ask(i, c, 1)
           /\ net >= 3000
           /\ Bid(i, c, 1) > 0 => 2 * Ask(i, c, 1) <= 5 * Bid(i, c, 1)
        THEN {Product("transmute", <<"transmute", i, origin, c>>, i, 1,
                      {Purchase(origin, 1, c, 1, Ask(origin, c, 1), Age(origin, c, 1))},
                      c, c, Ask(i, c, 1), net)}
        ELSE {}

ScanTransmutation ==
    UNION {Transmuted(r[1], r[2][1], r[2][2], r[3]) :
             r \in UNION {{i} \X Origins(i) \X RoyalCities : i \in Transmutable}}
=============================================================================
