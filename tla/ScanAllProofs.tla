---------------------------- MODULE ScanAllProofs ----------------------------
(***************************************************************************)
(* Theorems about ScanAll and the prices its scans reckon with, for every    *)
(* dictionary of prices, any number of cities, qualities and offers, every   *)
(* tax and all thresholds.  Whatever the outlier filter does to an offer     *)
(* that it does not drop, it does not make it cheaper, and the cheapest      *)
(* royal city is one that has such an offer; on this rests what is shown of  *)
(* the scans that sell to a listed request, given that a profit is asked     *)
(* for.  What goods are made of is reckoned at no less than an offer as      *)
(* well, by a lemma for each way to price an ingredient: medians, floors,    *)
(* slippage, the depth of a batch, the live book.  Sets of prices have to be *)
(* shown to have a least, a greatest and a middle element, which TLA+ leaves *)
(* to the axioms.                                                            *)
(***************************************************************************)
EXTENDS ScanAll, FiniteSetTheorems, WellFoundedInduction, TLAPS

----------------------------------------------------------------------------
(* Prices *)

(* Every set of numbers has a least element (Min of the filter and of the     *)
(* choice of a city).                                                         *)
LEMMA MinOfNaturals ==
    ASSUME NEW S, S \subseteq Nat, S # {}
    PROVE  Min(S) \in S /\ \A x \in S : Min(S) <= x
<1>1. \E x \in S : \A y \in S : ~(<<y, x>> \in OpToRel(<, Nat))
  BY NatLessThanWellFounded, WFMin
<1>2. PICK x \in S : \A y \in S : ~(<<y, x>> \in OpToRel(<, Nat))
  BY <1>1
<1>3. \A y \in S : x <= y
  <2> TAKE y \in S
  <2>1. ~(<<y, x>> \in OpToRel(<, Nat))
    BY <1>2
  <2>2. <<y, x>> \in Nat \X Nat
    OBVIOUS
  <2>3. ~(<<y, x>>[1] < <<y, x>>[2])
    BY <2>1, <2>2, Zenon DEF OpToRel
  <2> QED
    BY <2>3
<1> QED
  BY <1>3 DEF Min

(* A finite one has a greatest (Max of the filter): if every element had a     *)
(* greater one, the sets of greater elements would shrink for ever.           *)
LEMMA MaxOfFinite ==
    ASSUME NEW S, S \subseteq Nat, S # {}, IsFiniteSet(S)
    PROVE  Max(S) \in S /\ \A x \in S : x <= Max(S)
<1> DEFINE Above(x) == {y \in S : x < y}
           Sizes == {Cardinality(Above(x)) : x \in S}
<1>1. \A x \in S : IsFiniteSet(Above(x)) /\ Cardinality(Above(x)) \in Nat
  BY FS_Subset, FS_CardinalityType
<1>2. PICK x \in S : \A y \in S : Cardinality(Above(x)) <= Cardinality(Above(y))
  <2>1. Sizes \subseteq Nat /\ Sizes # {}
    BY <1>1
  <2>2. Min(Sizes) \in Sizes /\ \A n \in Sizes : Min(Sizes) <= n
    BY <2>1, MinOfNaturals
  <2> QED
    BY <2>2
<1>3. \A y \in S : y <= x
  <2> SUFFICES ASSUME NEW y \in S, ~(y <= x) PROVE FALSE
    OBVIOUS
  <2>0. x \in Nat /\ y \in Nat /\ x < y /\ ~(y < y)
    OBVIOUS
  <2>1. Above(y) \in SUBSET Above(x) /\ y \in Above(x) /\ y \notin Above(y)
    <3>1. \A z \in S : y < z => x < z
      BY <2>0
    <3> QED
      BY <2>0, <3>1
  <2>2. Cardinality(Above(y)) <= Cardinality(Above(x))
        /\ (Cardinality(Above(x)) = Cardinality(Above(y)) => Above(x) = Above(y))
    BY <1>1, <2>1, FS_Subset
  <2>3. Cardinality(Above(x)) \in Nat /\ Cardinality(Above(y)) \in Nat
    BY <1>1
  <2>4. Cardinality(Above(x)) = Cardinality(Above(y))
    BY <1>2, <2>2, <2>3
  <2> QED
    BY <2>1, <2>2, <2>4
<1> QED
  BY <1>3 DEF Max

----------------------------------------------------------------------------
(* The values of asks over finitely many cities are finitely many. *)
LEMMA FiniteValues ==
    ASSUME NEW asks, NEW P \in SUBSET DOMAIN asks, IsFiniteSet(P)
    PROVE  IsFiniteSet({asks[c] : c \in P})
<1> DEFINE f == [c \in P |-> asks[c]]
<1>1. f \in Surjection(P, {asks[c] : c \in P})
  BY DEF Surjection
<1> QED
  BY <1>1, FS_Surjection

(* The middle of cross_city_outlier_check exists and is one of the prices: the  *)
(* least price that more than half of the cities do not exceed has less than   *)
(* that below it, those up to the next lower price.                            *)
LEMMA MedianIsAPrice ==
    ASSUME NEW asks, IsFiniteSet(DOMAIN asks), \A c \in DOMAIN asks : asks[c] \in Nat,
           Priced(asks) # {}
    PROVE  Median(asks) \in Nat
<1> DEFINE P == Priced(asks)
           half == Cardinality(P) \div 2
           V == {asks[c] : c \in P}
           Below(p) == {c \in P : asks[c] < p}
           UpTo(p) == {c \in P : asks[c] <= p}
           Enough == {p \in V : half < Cardinality(UpTo(p))}
<1>1. /\ P \in SUBSET DOMAIN asks /\ IsFiniteSet(P)
      /\ Cardinality(P) \in Nat /\ Cardinality(P) # 0
  BY FS_Subset, FS_CardinalityType, FS_EmptySet DEF Priced
<1>2. V \subseteq Nat /\ V # {} /\ IsFiniteSet(V)
  BY <1>1, FiniteValues
<1>3. half \in Nat /\ half < Cardinality(P)
  BY <1>1
<1>4. \A p \in V : Cardinality(UpTo(p)) \in Nat /\ Cardinality(Below(p)) \in Nat
  BY <1>1, FS_Subset, FS_CardinalityType
<1>5. Max(V) \in Enough
  <2>1. Max(V) \in V /\ \A x \in V : x <= Max(V)
    BY <1>2, MaxOfFinite
  <2>2. UpTo(Max(V)) = P
    BY <2>1
  <2> QED
    BY <2>1, <2>2, <1>3
<1>6. Enough \subseteq Nat /\ Enough # {}
  BY <1>2, <1>5
<1>7. Min(Enough) \in Enough /\ \A x \in Enough : Min(Enough) <= x
  BY <1>6, MinOfNaturals
<1>8. Cardinality(Below(Min(Enough))) <= half
  <2> DEFINE B == Below(Min(Enough))
             W == {asks[c] : c \in B}
  <2>1. CASE B = {}
    <3>1. Cardinality(B) = 0
      BY <2>1, FS_EmptySet, Zenon
    <3> HIDE DEF B
    <3> QED
      BY <3>1, <1>3 DEF B
  <2>2. CASE B # {}
    <3>1. B \in SUBSET P /\ IsFiniteSet(B)
      BY <1>1, FS_Subset
    <3>2. W \subseteq V /\ W \subseteq Nat /\ W # {} /\ IsFiniteSet(W)
      BY <2>2, <3>1, <1>1, <1>2, FiniteValues
    <3>3. Max(W) \in W /\ \A x \in W : x <= Max(W)
      BY <3>2, MaxOfFinite
    <3>4. Max(W) < Min(Enough) /\ Max(W) \in V /\ Max(W) \in Nat /\ Min(Enough) \in Nat
      BY <3>2, <3>3, <1>6, <1>7
    <3>5. UpTo(Max(W)) = B
      <4>1. ASSUME NEW c \in P PROVE asks[c] <= Max(W) <=> asks[c] < Min(Enough)
        <5>1. asks[c] \in Nat
          BY <1>1
        <5>2. asks[c] < Min(Enough) => asks[c] \in W
          OBVIOUS
        <5>3. asks[c] < Min(Enough) => asks[c] <= Max(W)
          BY <5>2, <3>3
        <5> HIDE DEF W, Enough
        <5> QED
          BY <5>1, <5>3, <3>4
      <4> QED
        BY <4>1
    <3>6. Max(W) \notin Enough
      <4>1. ~(Min(Enough) <= Max(W))
        BY <3>4
      <4> QED
        BY <4>1, <1>7
    <3>7. ~(half < Cardinality(B))
      BY <3>4, <3>5, <3>6
    <3>8. Cardinality(B) \in Nat
      BY <3>1, FS_CardinalityType
    <3> QED
      BY <3>7, <3>8, <1>3
  <2> QED
    BY <2>1, <2>2
<1>9. /\ Min(Enough) \in V
      /\ Cardinality(Below(Min(Enough))) <= half /\ half < Cardinality(UpTo(Min(Enough)))
  BY <1>7, <1>8
<1>10. Median(asks) = CHOOSE p \in V :
           Cardinality(Below(p)) <= half /\ half < Cardinality(UpTo(p))
  BY Zenon DEF Median
<1>11. Median(asks) \in V
  BY <1>9, <1>10, Zenon
<1> QED
  BY <1>2, <1>11

(* cross_city_outlier_check drops a price or leaves at least what it was. *)
LEMMA CleanedIsNotCheaper ==
    ASSUME NEW asks, IsFiniteSet(DOMAIN asks), \A c \in DOMAIN asks : asks[c] \in Nat,
           NEW c \in DOMAIN asks
    PROVE  /\ Cleaned(asks)[c] \in Nat
           /\ Cleaned(asks)[c] = 0 \/ asks[c] <= Cleaned(asks)[c]
<1> DEFINE V == {asks[x] : x \in Priced(asks)}
<1>1. CASE Priced(asks) = {} \/ (Twins(asks) /\ Dearest(asks) <= 2 * Lowest(asks))
  BY <1>1 DEF Cleaned
<1>2. CASE ~(Priced(asks) = {} \/ (Twins(asks) /\ Dearest(asks) <= 2 * Lowest(asks))) /\ Twins(asks)
  <2>1. V \subseteq Nat /\ V # {} /\ IsFiniteSet(V)
    <3>1. Priced(asks) \in SUBSET DOMAIN asks /\ IsFiniteSet(Priced(asks))
      BY FS_Subset DEF Priced
    <3> QED
      BY <1>2, <3>1, FiniteValues
  <2>2. Dearest(asks) \in V /\ \A x \in V : x <= Dearest(asks)
    BY <2>1, MaxOfFinite DEF Dearest
  <2>3. asks[c] <= Dearest(asks)
    <3>1. CASE c \in Priced(asks)
      BY <3>1, <2>2
    <3>2. CASE c \notin Priced(asks)
      BY <3>2, <2>1, <2>2 DEF Priced
    <3> QED
      BY <3>1, <3>2
  <2>4. Cleaned(asks)[c] = Dearest(asks)
    BY <1>2 DEF Cleaned
  <2> QED
    BY <2>1, <2>2, <2>3, <2>4
<1>3. CASE Priced(asks) # {} /\ ~Twins(asks)
  <2>1. Median(asks) \in Nat /\ asks[c] \in Nat
    BY <1>3, MedianIsAPrice
  <2>2. Cleaned(asks)[c] = AgainstMedian(asks[c], Median(asks))
    BY <1>3 DEF Cleaned
  <2> QED
    BY <2>1, <2>2 DEF AgainstMedian
<1> QED
  BY <1>1, <1>2, <1>3

----------------------------------------------------------------------------
(* Every row of the dictionary of _load_prices is one. *)
PricesTyped == \A k \in DOMAIN prices : prices[k] \in Rows

(* So what a scan reads of it are numbers, also where there is no row. *)
LEMMA OffersAreNumbers ==
    ASSUME PricesTyped, NEW i, NEW c, NEW q
    PROVE  /\ RowOf(i, c, q) \in Rows
           /\ Ask(i, c, q) \in Nat /\ Bid(i, c, q) \in Nat
<1>1. Blank \in Rows
  BY DEF Blank, Rows
<1>2. RowOf(i, c, q) \in Rows
  BY <1>1 DEF RowOf, PricesTyped
<1> QED
  BY <1>2 DEF Rows, Ask, Bid

(* The royal cities are finitely many, *)
LEMMA RoyalCitiesAreFinite == IsFiniteSet(RoyalCities)
<1>1. Royal \in Seq(RoyalCities)
  BY PlaceAssumption
<1>2. Len(Royal) \in Nat /\ Royal \in [1..Len(Royal) -> RoyalCities]
  BY <1>1
<1>3. Royal \in Surjection(1..Len(Royal), RoyalCities)
  BY <1>2 DEF Surjection, RoyalCities
<1>4. IsFiniteSet(1..Len(Royal))
  BY <1>2, FS_Interval
<1> QED
  BY <1>3, <1>4, FS_Surjection

(* and the first of some of them in the order of the list is one of them. *)
LEMMA FirstIsThere ==
    ASSUME NEW S, S \subseteq RoyalCities, S # {}
    PROVE  First(S) \in S
<1> DEFINE R == {Rank(c) : c \in S}
<1>1. \A c \in RoyalCities : Rank(c) \in DOMAIN Royal /\ Royal[Rank(c)] = c
  BY DEF Rank, RoyalCities
<1>2. DOMAIN Royal \subseteq Nat
  BY PlaceAssumption
<1>3. R \subseteq Nat /\ R # {}
  BY <1>1, <1>2
<1>4. Min(R) \in R
  BY <1>3, MinOfNaturals
<1>5. PICK c \in S : Min(R) = Rank(c)
  BY <1>4
<1>6. First(S) = Royal[Min(R)]
  BY Zenon DEF First
<1> QED
  BY <1>1, <1>5, <1>6

(* _cheapest_royal_sell names a city with an offer, and a price that is no less  *)
(* than the offer: the filter may have raised it, to the median or to the other  *)
(* city's, and the comparison of the cities was between filtered prices.        *)
LEMMA BestPriceIsOffered ==
    ASSUME PricesTyped, NEW i, NEW q, Buyable(i, q) # {}
    PROVE  /\ BestCity(i, q) \in RoyalCities
           /\ BestPrice(i, q) \in Nat
           /\ 0 < Ask(i, BestCity(i, q), q)
           /\ Ask(i, BestCity(i, q), q) <= BestPrice(i, q)
<1> DEFINE rows == [c \in RoyalCities |-> RowOf(i, c, q)]
           asks == Asks(rows, RoyalCities)
           V == {RoyalPrices(i, q)[c] : c \in Buyable(i, q)}
           T == {c \in Buyable(i, q) : RoyalPrices(i, q)[c] = BestPrice(i, q)}
<1>1. \A c \in RoyalCities : rows[c].sell = Ask(i, c, q) /\ Ask(i, c, q) \in Nat
  BY OffersAreNumbers DEF Ask
<1>2. /\ DOMAIN asks = {x \in RoyalCities : Ask(i, x, q) > 0}
      /\ \A c \in DOMAIN asks : asks[c] = Ask(i, c, q) /\ asks[c] \in Nat
  BY <1>1 DEF Asks
<1>3. IsFiniteSet(DOMAIN asks)
  BY <1>2, RoyalCitiesAreFinite, FS_Subset
<1>4. RoyalPrices(i, q) = Cleaned(asks)
  BY Zenon DEF RoyalPrices
<1>5. Buyable(i, q) \subseteq DOMAIN asks /\ Buyable(i, q) \subseteq RoyalCities
  BY <1>2 DEF Buyable
<1>6. \A c \in Buyable(i, q) :
         /\ RoyalPrices(i, q)[c] \in Nat
         /\ Ask(i, c, q) > 0 /\ Ask(i, c, q) <= RoyalPrices(i, q)[c]
  <2> TAKE c \in Buyable(i, q)
  <2> HIDE DEF asks, rows
  <2>1. c \in DOMAIN asks /\ asks[c] = Ask(i, c, q)
    BY <1>2, <1>5
  <2>2. /\ Cleaned(asks)[c] \in Nat
        /\ Cleaned(asks)[c] = 0 \/ asks[c] <= Cleaned(asks)[c]
    BY <1>2, <1>3, <2>1, CleanedIsNotCheaper
  <2>3. RoyalPrices(i, q)[c] > 0 /\ Ask(i, c, q) > 0
    BY DEF Buyable
  <2> QED
    BY <1>4, <2>1, <2>2, <2>3
<1>7. V \subseteq Nat /\ V # {}
  BY <1>6
<1>8. BestPrice(i, q) \in V
  BY <1>7, MinOfNaturals DEF BestPrice
<1>9. T \subseteq RoyalCities /\ T # {}
  BY <1>5, <1>8
<1>10. BestCity(i, q) \in T
  BY <1>9, FirstIsThere, Zenon DEF BestCity
<1> QED
  BY <1>5, <1>6, <1>7, <1>8, <1>10

----------------------------------------------------------------------------
(* Sales *)

(* The three kinds of opportunities that NetIsCovered is about. *)
Sales == {"flip", "arbitrage", "fill"}

(* What is left of a request after the tax is a number, and no more than it. *)
LEMMA ProceedsOfRequest ==
    ASSUME NEW price \in Nat
    PROVE  Proceeds(price) \in Nat /\ Proceeds(price) <= 100 * price
<1>1. Tax \in 0..99
  BY TaxAssumption
<1>2. 100 - Tax \in Nat /\ 100 - Tax <= 100
  BY <1>1
<1>3. \A k \in Nat : k <= 100 => price * k \in Nat /\ price * k <= 100 * price
  OBVIOUS
<1> QED
  BY <1>2, <1>3 DEF Proceeds

(* The greatest of the three thresholds of a flip is no less than the last. *)
LEMMA GreatestOfThree ==
    ASSUME NEW a \in Nat, NEW b \in Nat, NEW c \in Nat
    PROVE  Max({a, b, c}) \in Nat /\ c <= Max({a, b, c})
<1>1. \E x \in {a, b, c} : \A y \in {a, b, c} : x >= y
  <2>1. CASE a >= b /\ a >= c
    BY <2>1
  <2>2. CASE b >= a /\ b >= c
    BY <2>2
  <2>3. CASE c >= a /\ c >= b
    BY <2>3
  <2> QED
    BY <2>1, <2>2, <2>3
<1>2. Max({a, b, c}) \in {a, b, c} /\ \A y \in {a, b, c} : Max({a, b, c}) >= y
  BY <1>1, Zenon DEF Max
<1>3. Max({a, b, c}) >= c
  BY <1>2, Zenon
<1> QED
  BY <1>2, <1>3

(* scan_b_arbitrage finds the cheapest of the goods that fill an order. *)
LEMMA FillerIsCheapest ==
    ASSUME PricesTyped, NEW q, Fillers(q) # {}
    PROVE  /\ Filler(q) \in Fillers(q)
           /\ \A y \in Fillers(q) :
                 /\ BestPrice(Item, y) \in Nat
                 /\ BestPrice(Item, Filler(q)) <= BestPrice(Item, y)
<1> DEFINE cheapest == {y \in Fillers(q) : \A z \in Fillers(q) : BestPrice(Item, y) <= BestPrice(Item, z)}
           costs == {BestPrice(Item, y) : y \in Fillers(q)}
<1>1. \A y \in Fillers(q) : BestPrice(Item, y) \in Nat
  BY BestPriceIsOffered DEF Fillers
<1>2. costs \subseteq Nat /\ costs # {}
  BY <1>1
<1>3. Min(costs) \in costs /\ \A n \in costs : Min(costs) <= n
  BY <1>2, MinOfNaturals
<1>4. PICK y \in Fillers(q) : BestPrice(Item, y) = Min(costs)
  BY <1>3
<1>5. y \in cheapest
  BY <1>3, <1>4
<1>6. cheapest \subseteq Nat
  BY ThresholdAssumption DEF Fillers
<1>7. Min(cheapest) \in cheapest
  BY <1>5, <1>6, MinOfNaturals
<1>8. Filler(q) = Min(cheapest)
  BY Zenon DEF Filler
<1> QED
  BY <1>1, <1>7, <1>8

(* scan_b_arbitrage: the filler is of the quality wanted or better, offered at   *)
(* no more than what the profit was reckoned with, and the least profit is       *)
(* two thousand.                                                                *)
LEMMA FlipsAreCovered ==
    ASSUME PricesTyped, NEW o \in Flips
    PROVE  o.kind = "flip" /\ Covered(o)
<1>1. PICK q \in Qualities : IsFlip(q) /\
        o = Opportunity("flip", BestCity(Item, Filler(q)), Filler(q), BlackMarket, q,
                        BestPrice(Item, Filler(q)), BidOf(BlackMarket, q), FlipNet(q))
  BY DEF Flips
<1> DEFINE x == Filler(q)
           price == BestPrice(Item, x)
           floor == {MinBmProfit, (12 * price) \div 100, 2000}
<1>2. Fillers(q) # {} /\ FlipPays(q, price)
  BY <1>1 DEF IsFlip
<1>3. x \in Fillers(q)
  BY <1>2, FillerIsCheapest
<1>4. x \in Nat /\ q \in Nat /\ x >= q /\ Buyable(Item, x) # {}
  BY <1>3, ThresholdAssumption DEF Fillers
<1>5. /\ price \in Nat
      /\ 0 < Ask(Item, BestCity(Item, x), x) /\ Ask(Item, BestCity(Item, x), x) <= price
  BY <1>4, BestPriceIsOffered
<1>6. Ask(Item, BestCity(Item, x), x) \in Nat /\ Bid(Item, BlackMarket, q) \in Nat
  BY OffersAreNumbers
<1>7. Proceeds(BidOf(BlackMarket, q)) \in Nat
  BY <1>6, ProceedsOfRequest DEF BidOf
<1>8. FlipNet(q) = Proceeds(BidOf(BlackMarket, q)) - 100 * price
  BY Zenon DEF FlipNet
<1>9. FlipNet(q) > 0
  <2>1. MinBmProfit \in Nat /\ (12 * price) \div 100 \in Nat
    BY <1>5, TradeAssumption
  <2>2. Max(floor) \in Nat /\ 2000 <= Max(floor)
    BY <2>1, GreatestOfThree
  <2>3. FlipNet(q) >= 100 * Max(floor)
    BY <1>2 DEF FlipPays
  <2> HIDE DEF floor
  <2> QED
    BY <2>2, <2>3, <1>5, <1>7, <1>8
<1>10. /\ o.kind = "flip" /\ o.net = FlipNet(q) /\ o.buy_quality = x /\ o.quality = q
       /\ o.buy_city = BestCity(Item, x) /\ o.sell_city = BlackMarket
  BY <1>1 DEF Opportunity
<1>11. Realised(o) = Proceeds(BidOf(BlackMarket, q)) - 100 * Ask(Item, BestCity(Item, x), x)
  BY <1>10 DEF Realised, AskOf
<1> HIDE DEF x, price
<1>12. FlipNet(q) <= Realised(o)
  BY <1>5, <1>6, <1>7, <1>8, <1>11
<1> QED
  BY <1>4, <1>5, <1>9, <1>10, <1>12 DEF Covered, AskOf

(* scan_arbitrage: both prices are those that were loaded. *)
LEMMA ArbitragesAreCovered ==
    ASSUME PricesTyped, MinArbProfit # 0, NEW o \in Arbitrages
    PROVE  /\ o.kind = "arbitrage" /\ Covered(o)
           /\ o.buy_city \in RoyalCities /\ o.sell_city \in RoyalCities
           /\ o.quality \in Qualities /\ o.buy_quality = o.quality /\ o.net \in Int
<1>1. PICK src \in RoyalCities, dst \in RoyalCities, q \in Qualities :
        IsArbitrage(src, dst, q) /\
        o = Opportunity("arbitrage", src, q, dst, q, AskOf(src, q), BidOf(dst, q),
                        ArbitrageNet(src, dst, q))
  BY DEF Arbitrages
<1>2. AskOf(src, q) > 0
  BY <1>1 DEF IsArbitrage, Sources, IsSource
<1>3. AskOf(src, q) \in Nat /\ BidOf(dst, q) \in Nat
  BY OffersAreNumbers DEF AskOf, BidOf
<1>4. ArbitrageNet(src, dst, q) >= 100 * MinArbProfit
  BY <1>1 DEF IsArbitrage, ArbitragePays
<1>5. /\ ArbitrageNet(src, dst, q) = Proceeds(BidOf(dst, q)) - 100 * AskOf(src, q)
      /\ Proceeds(BidOf(dst, q)) \in Nat
  BY <1>3, ProceedsOfRequest DEF ArbitrageNet
<1>6. ArbitrageNet(src, dst, q) \in Int /\ ArbitrageNet(src, dst, q) > 0
  BY <1>3, <1>4, <1>5, ThresholdAssumption
<1>7. /\ o.kind = "arbitrage" /\ o.net = ArbitrageNet(src, dst, q)
      /\ o.buy_quality = q /\ o.quality = q /\ o.buy_city = src /\ o.sell_city = dst
  BY <1>1 DEF Opportunity
<1>8. Realised(o) = ArbitrageNet(src, dst, q)
  BY <1>5, <1>7 DEF Realised
<1>9. q \in Nat
  BY ThresholdAssumption
<1> QED
  BY <1>2, <1>6, <1>7, <1>8, <1>9 DEF Covered

(* detect_quality_inversion: goods sold to the request for a worse quality. *)
LEMMA FillsAreCovered ==
    ASSUME PricesTyped, MinArbProfit # 0, NEW o \in Inversions
    PROVE  o.kind = "relisting" \/ (o.kind = "fill" /\ Covered(o))
<1>1. CASE \E r \in Pairs :
        o = Opportunity("relisting", r[1], r[3], r[1], r[2], AskOf(r[1], r[3]), AskOf(r[1], r[2]),
                        RelistNet(r[1], r[2], r[3]) \div 10)
  BY <1>1 DEF Opportunity
<1>2. CASE \E r \in Pairs : IsInstantFill(r[1], r[2], r[3]) /\
        o = Opportunity("fill", r[1], r[3], r[1], r[2], AskOf(r[1], r[3]), BidOf(r[1], r[2]),
                        FillNet(r[1], r[2], r[3]))
  <2>1. PICK r \in Pairs : IsInstantFill(r[1], r[2], r[3]) /\
        o = Opportunity("fill", r[1], r[3], r[1], r[2], AskOf(r[1], r[3]), BidOf(r[1], r[2]),
                        FillNet(r[1], r[2], r[3]))
    BY <1>2
  <2> DEFINE c == r[1]
             low == r[2]
             high == r[3]
  <2>2. low \in Qualities /\ high \in Qualities /\ IsInversion(c, low, high)
    BY DEF Pairs
  <2>3. low \in Nat /\ high \in Nat /\ low < high /\ AskOf(c, high) > 0
    BY <2>2, ThresholdAssumption DEF IsInversion
  <2>4. AskOf(c, high) \in Nat /\ BidOf(c, low) \in Nat
    BY OffersAreNumbers DEF AskOf, BidOf
  <2>5. /\ FillNet(c, low, high) = Proceeds(BidOf(c, low)) - 100 * AskOf(c, high)
        /\ Proceeds(BidOf(c, low)) \in Nat
    BY <2>4, ProceedsOfRequest DEF FillNet
  <2>6. FillNet(c, low, high) >= 100 * MinArbProfit
    BY <2>1 DEF IsInstantFill
  <2>7. /\ o.kind = "fill" /\ o.net = FillNet(c, low, high)
        /\ o.buy_quality = high /\ o.quality = low /\ o.buy_city = c /\ o.sell_city = c
    BY <2>1 DEF Opportunity
  <2> HIDE DEF c, low, high
  <2>8. FillNet(c, low, high) \in Int /\ FillNet(c, low, high) > 0
    BY <2>4, <2>5, <2>6, ThresholdAssumption
  <2>9. Realised(o) = FillNet(c, low, high)
    BY <2>5, <2>7 DEF Realised
  <2> QED
    BY <2>3, <2>7, <2>8, <2>9 DEF Covered
<1> QED
  BY <1>1, <1>2 DEF Inversions

----------------------------------------------------------------------------
(* None of the workshops makes a sale to a listed request of the three kinds. *)
LEMMA WorkshopKinds ==
    /\ \A o \in ScanCrafting : o.kind \notin Sales
    /\ \A o \in ScanRefining : o.kind \notin Sales
    /\ \A o \in ScanBEnchanting : o.kind \notin Sales
    /\ \A o \in ScanEnchanting : o.kind \notin Sales
    /\ \A o \in ScanTransmutation : o.kind \notin Sales
<1>1. ASSUME NEW i, NEW o \in Craftings(i) PROVE o.kind = "craft"
  BY DEF Craftings, Crafted, Product
<1>2. ASSUME NEW i, NEW b, NEW city, NEW o \in RefinedFrom(i, b, city) PROVE o.kind = "refine"
  BY DEF RefinedFrom, Product
<1>3. ASSUME NEW i, NEW q, NEW e, NEW o \in EnchantedForOrder(i, q, e) PROVE o.kind = "enchant_order"
  BY DEF EnchantedForOrder, WorkedForOrder, Product
<1>4. ASSUME NEW i, NEW c, NEW q, NEW o \in EnchantedInCity(i, c, q) PROVE o.kind = "enchant"
  BY DEF EnchantedInCity, WorkedInCity, Product
<1>5. ASSUME NEW i, NEW x, NEW fee, NEW c, NEW o \in Transmuted(i, x, fee, c) PROVE o.kind = "transmute"
  BY DEF Transmuted, Product
<1>6. \A o \in ScanCrafting : o.kind = "craft"
  BY <1>1 DEF ScanCrafting
<1>7. \A o \in ScanRefining : o.kind = "refine"
  BY <1>2 DEF ScanRefining, Refinings
<1>8. \A o \in ScanBEnchanting : o.kind = "enchant_order"
  BY <1>3 DEF ScanBEnchanting
<1>9. \A o \in ScanEnchanting : o.kind = "enchant"
  BY <1>4 DEF ScanEnchanting
<1>10. \A o \in ScanTransmutation : o.kind = "transmute"
  BY <1>5 DEF ScanTransmutation
<1> QED
  BY <1>6, <1>7, <1>8, <1>9, <1>10 DEF Sales

(* Nor does livestock, *)
LEMMA SlaughteredKind ==
    ASSUME NEW animal, NEW host, NEW o \in Slaughtered(animal, host)
    PROVE  o.kind = "livestock" /\ \E p \in Brought(animal.baby, 1, host) : o.bought = {p}
<1> DEFINE cost(p) == Max({0, p.price * (100 - animal.offspring)}) + animal.days * Upkeep(animal, host)
           net(p, c) == Harvest(animal.meat, animal.meat_yield, host, c) - cost(p)
           sells(p, c) == SellsIn(animal.meat, c) /\ Anchors(animal.meat, c) /\ net(p, c) > 0
<1>1. Slaughtered(animal, host) =
        UNION {{Product("livestock", <<"livestock", animal.meat, host>>, animal.meat, 1, {p},
                        IslandOf(host), c, Ask(animal.meat, c, 1), net(p, c)) :
                   c \in {x \in RoyalCities : sells(p, x)}} :
               p \in Brought(animal.baby, 1, host)}
  BY Zenon DEF Slaughtered
<1> HIDE DEF net, sells
<1> QED
  BY <1>1 DEF Product

(* nor a mount, *)
LEMMA RaisedKind ==
    ASSUME NEW mount, NEW host, NEW o \in Raised(mount, host)
    PROVE  /\ o.kind = "mount"
           /\ \A p \in o.bought : \E i, n : p \in Brought(i, n, host)
<1> DEFINE saddle == UNION {Brought(i, mount.saddle[i], host) : i \in DOMAIN mount.saddle}
           bought == Brought(mount.baby, 1, host) \cup saddle
           feed == mount.feed * mount.days * FeedPrice(mount.diet, host)
           net(c) == AfterListing(Ask(mount.item, c, 1)) - 100 * (Gross(bought) + feed)
           sells(c) == SellsIn(mount.item, c) /\ Anchors(mount.item, c) /\ net(c) > 0
           none == Brought(mount.baby, 1, host) = {} \/ ~Complete(mount.saddle, saddle)
<1>1. Raised(mount, host) =
        IF none THEN {}
        ELSE {Product("mount", <<"mount", mount.item, host>>, mount.item, 1, bought,
                      IslandOf(host), c, Ask(mount.item, c, 1), net(c)) :
                 c \in {x \in RoyalCities : sells(x)}}
  BY Zenon DEF Raised
<1>2. \A p \in bought : \E i, n : p \in Brought(i, n, host)
  BY Zenon
<1> HIDE DEF net, sells, none, bought
<1>3. o.kind = "mount" /\ o.bought = bought
  BY <1>1 DEF Product
<1> QED
  BY <1>2, <1>3

(* nor a meal or potion, *)
LEMMA BrewedKind ==
    ASSUME NEW i, NEW kitchen, NEW o \in Brewed(i, kitchen)
    PROVE  o.kind = "brew" /\ o.bought = Materials(Brews[i], kitchen[2], FALSE)
<1> DEFINE bought == Materials(Brews[i], kitchen[2], FALSE)
           cost == Net(bought, kitchen[3]) + kitchen[4]
           net(c) == AfterListing(AnchoredPrice(i, c) * BatchSize(i)) - cost
           sells(c) == /\ Complete(Brews[i], bought) /\ SellsAnchored(i, c)
                       /\ BatchPays(net(c), Gross(bought), cost)
<1>1. Brewed(i, kitchen) =
        {Product("brew", <<"brew", i>>, i, 1, bought, kitchen[1], c, AnchoredPrice(i, c), net(c)) :
            c \in {x \in SellingPlaces : sells(x)}}
  BY Zenon DEF Brewed, BrewedOf
<1> HIDE DEF net, sells, bought
<1>2. o.kind = "brew" /\ o.bought = bought
  BY <1>1 DEF Product
<1> QED
  BY <1>2 DEF bought

(* nor anything else that grows on an island or is made there. *)
LEMMA IslandKinds ==
    /\ \A o \in ScanIsland : o.kind \notin Sales
    /\ \A o \in ScanConsumables : o.kind \notin Sales
<1>1. ASSUME NEW x, NEW host, NEW o \in Planted(x, host) PROVE o.kind = "plant"
  BY DEF Planted, Product
<1>2. ASSUME NEW x, NEW host, NEW o \in Milked(x, host) PROVE o.kind = "produce"
  BY DEF Milked, Product
<1>3. ASSUME NEW x, NEW host, NEW o \in BrewedAtHome(x, host) PROVE o.kind = "home_brew"
  BY DEF BrewedAtHome, HomeBrews, Product
<1>4. \A o \in ScanIsland :
         o.kind \in {"plant", "livestock", "produce", "mount", "home_brew"}
  <2> DEFINE plants == UNION {Planted(r[1], r[2]) : r \in Plants \X Hosts}
             animals == UNION {Slaughtered(r[1], r[2]) \cup Milked(r[1], r[2]) : r \in Animals \X Hosts}
             mounts == UNION {Raised(r[1], r[2]) : r \in Mounts \X Hosts}
             brews == UNION {BrewedAtHome(r[1], r[2]) : r \in (DOMAIN Brews) \X Hosts}
  <2>1. ScanIsland = plants \cup animals \cup mounts \cup brews
    BY Zenon DEF ScanIsland
  <2>2. \A o \in plants : o.kind = "plant"
    BY <1>1
  <2>3. \A o \in animals : o.kind \in {"livestock", "produce"}
    BY <1>2, SlaughteredKind
  <2>4. \A o \in mounts : o.kind = "mount"
    BY RaisedKind
  <2>5. \A o \in brews : o.kind = "home_brew"
    BY <1>3
  <2> HIDE DEF plants, animals, mounts, brews
  <2> QED
    BY <2>1, <2>2, <2>3, <2>4, <2>5
<1>5. \A o \in ScanConsumables : o.kind = "brew"
  <2>1. \A i, kitchen : \A o \in Brewed(i, kitchen) : o.kind = "brew"
    BY BrewedKind, Zenon
  <2> QED
    BY <2>1, Zenon DEF ScanConsumables
<1> QED
  BY <1>4, <1>5 DEF Sales

(* scan_market_making lists on both sides. *)
LEMMA MakingKinds ==
    ASSUME NEW cities
    PROVE  \A o \in Makings(cities) : o.kind \notin Sales
BY DEF Makings, Opportunity, Sales

(* What a scan keeps of competing opportunities are some of them. *)
LEMMA KeptAreCandidates ==
    ASSUME NEW candidates, NEW best \in Kept(candidates)
    PROVE  best \subseteq candidates
BY DEF Kept

----------------------------------------------------------------------------
(* Routes of scan_arbitrage lead from one royal city to another, in one quality. *)
RoutesAreRoyal ==
    \A o \in found :
        o.kind = "arbitrage" =>
            /\ o.buy_city \in RoyalCities /\ o.sell_city \in RoyalCities
            /\ o.quality \in Qualities /\ o.buy_quality = o.quality /\ o.net \in Int

SalesInv == PricesTyped /\ NetIsCovered /\ RoutesAreRoyal

(* A scan that adds only sound sales keeps the invariant. *)
LEMMA RunKeepsSales ==
    ASSUME SalesInv, NEW scan, NEW S, Run(scan, S),
           \A o \in S : o.kind \in Sales =>
               /\ Covered(o)
               /\ o.kind = "arbitrage" =>
                     /\ o.buy_city \in RoyalCities /\ o.sell_city \in RoyalCities
                     /\ o.quality \in Qualities /\ o.buy_quality = o.quality /\ o.net \in Int
    PROVE  SalesInv'
<1>1. prices' = prices /\ found' = found \cup S
  BY DEF Run
<1>2. PricesTyped'
  BY <1>1 DEF SalesInv, PricesTyped
<1>3. \A o : Covered(o)' <=> Covered(o)
  BY <1>1 DEF Covered, Realised, AskOf, BidOf, Ask, Bid, RowOf
<1>4. NetIsCovered'
  BY <1>1, <1>3 DEF SalesInv, NetIsCovered, Sales
<1>5. RoutesAreRoyal'
  BY <1>1 DEF SalesInv, RoutesAreRoyal, Sales
<1> QED
  BY <1>2, <1>4, <1>5 DEF SalesInv

(* A run that finds no sales, and the choice of one, keep the invariant.        *)
LEMMA RunOfOthersKeepsSales ==
    ASSUME SalesInv, NEW scan, NEW S, Run(scan, S), \A o \in S : o.kind \notin Sales
    PROVE  SalesInv'
BY RunKeepsSales

(* The same of a run that keeps the best of what it found, if that is no sale.  *)
LEMMA ChoiceOfOthersKeepsSales ==
    ASSUME SalesInv, NEW scan, NEW S, RunAndChoose(scan, S), \A o \in S : o.kind \notin Sales
    PROVE  SalesInv'
<1>1. PICK best \in Kept(S) : Run(scan, best)
  BY DEF RunAndChoose
<1> QED
  BY <1>1, KeptAreCandidates, RunOfOthersKeepsSales

(* The invariant holds at the start, and every step of a pass keeps it: the      *)
(* prices change only when nothing that refers to them is left.                 *)
LEMMA SalesStep ==
    ASSUME MinArbProfit # 0, SalesInv, [Next]_vars
    PROVE  SalesInv'
<1>1. CASE LoadPrices
  <2>1. \A o \in found : o.kind \notin Sales
    <3>1. prices = Nothing
      BY <1>1 DEF LoadPrices
    <3>2. \A i, c, q : RowOf(i, c, q) = Blank
      BY <3>1, Zenon DEF Nothing, RowOf
    <3>3. \A i, c, q : Ask(i, c, q) = 0
      BY <3>2 DEF Ask, Blank
    <3> QED
      BY <3>3 DEF SalesInv, NetIsCovered, Covered, AskOf, Sales
  <2>2. found' = found /\ PricesTyped'
    BY <1>1, ScanAssumption DEF LoadPrices, PricesTyped
  <2> QED
    BY <2>1, <2>2 DEF SalesInv, NetIsCovered, RoutesAreRoyal, Sales
<1>2. CASE Return
  BY <1>2 DEF Return, Nothing, SalesInv, NetIsCovered, RoutesAreRoyal, PricesTyped
<1>3. CASE Flip
  <2>1. PricesTyped
    BY DEF SalesInv
  <2>2. \A o \in Flips : o.kind = "flip" /\ Covered(o)
    BY <2>1, FlipsAreCovered
  <2> QED
    BY <1>3, <2>2, RunKeepsSales DEF Flip
<1>4. CASE Arbitrage
  <2>1. PricesTyped
    BY DEF SalesInv
  <2>2. \A o \in Arbitrages :
          /\ Covered(o)
          /\ o.buy_city \in RoyalCities /\ o.sell_city \in RoyalCities
          /\ o.quality \in Qualities /\ o.buy_quality = o.quality /\ o.net \in Int
    BY <2>1, ArbitragesAreCovered
  <2> QED
    BY <1>4, <2>2, RunKeepsSales DEF Arbitrage
<1>5. CASE Invert
  <2>1. PricesTyped
    BY DEF SalesInv
  <2>2. \A o \in Inversions : o.kind = "relisting" \/ (o.kind = "fill" /\ Covered(o))
    BY <2>1, FillsAreCovered
  <2> QED
    BY <1>5, <2>2, RunKeepsSales DEF Invert, Sales
<1>6. CASE Make \/ MakeCaerleon
  BY <1>6, MakingKinds, RunOfOthersKeepsSales DEF Make, MakeCaerleon
<1>7. CASE Transmute
  BY <1>7, WorkshopKinds, RunOfOthersKeepsSales DEF Transmute
<1>8. CASE BEnchant
  BY <1>8, WorkshopKinds, ChoiceOfOthersKeepsSales DEF BEnchant
<1>9. CASE Craft
  BY <1>9, WorkshopKinds, ChoiceOfOthersKeepsSales DEF Craft
<1>10. CASE Refine
  BY <1>10, WorkshopKinds, ChoiceOfOthersKeepsSales DEF Refine
<1>11. CASE Enchant
  BY <1>11, WorkshopKinds, ChoiceOfOthersKeepsSales DEF Enchant
<1>12. CASE Island
  BY <1>12, IslandKinds, ChoiceOfOthersKeepsSales DEF Island
<1>13. CASE Consume
  BY <1>13, IslandKinds, ChoiceOfOthersKeepsSales DEF Consume
<1>14. CASE UNCHANGED vars
  BY <1>14 DEF vars, SalesInv, PricesTyped, NetIsCovered, RoutesAreRoyal, Covered, Realised,
      AskOf, BidOf, Ask, Bid, RowOf
<1> QED
  BY <1>1, <1>2, <1>3, <1>4, <1>5, <1>6, <1>7, <1>8, <1>9, <1>10, <1>11, <1>12, <1>13, <1>14
  DEF Next

(* No sale to a request promises more than the loaded prices yield, in goods of  *)
(* less than the quality wanted, or no profit at all.                           *)
THEOREM SalesAreCovered ==
    ASSUME MinArbProfit # 0
    PROVE  Spec => []NetIsCovered
<1>1. Init => SalesInv
  BY DEF Init, Nothing, SalesInv, PricesTyped, NetIsCovered, RoutesAreRoyal
<1>2. SalesInv /\ [Next]_vars => SalesInv'
  BY SalesStep
<1>3. SalesInv => NetIsCovered
  BY DEF SalesInv
<1> QED
  BY <1>1, <1>2, <1>3, PTL DEF Spec

(* The scan of arbitrage, which weighs every ordered pair of cities apart, never *)
(* sends goods both ways, unless some city's own book is crossed: of two profits *)
(* each would have to be larger than the other.                                *)
THEOREM NoGoodsGoRound ==
    ASSUME MinArbProfit # 0
    PROVE  Spec => []NoRoundTrip
<1>1. Init => SalesInv
  BY DEF Init, Nothing, SalesInv, PricesTyped, NetIsCovered, RoutesAreRoyal
<1>2. SalesInv /\ [Next]_vars => SalesInv'
  BY SalesStep
<1>3. SalesInv => NoRoundTrip
  <2> SUFFICES ASSUME SalesInv, Uncrossed, NEW o \in found, NEW p \in found,
                      o.kind = "arbitrage", p.kind = "arbitrage", o.quality = p.quality,
                      o.buy_city = p.sell_city, o.sell_city = p.buy_city
               PROVE  FALSE
    BY DEF NoRoundTrip
  <2> DEFINE a == o.buy_city
             b == p.buy_city
             q == o.quality
  <2>1. /\ a \in RoyalCities /\ b \in RoyalCities /\ q \in Qualities
        /\ o.buy_quality = q /\ p.buy_quality = q
    BY DEF SalesInv, RoutesAreRoyal
  <2>2. Covered(o) /\ Covered(p)
    BY DEF SalesInv, NetIsCovered
  <2>3. /\ AskOf(a, q) \in Nat /\ AskOf(b, q) \in Nat
        /\ BidOf(a, q) \in Nat /\ BidOf(b, q) \in Nat
    BY OffersAreNumbers DEF SalesInv, AskOf, BidOf
  <2>4. /\ Proceeds(BidOf(a, q)) \in Nat /\ Proceeds(BidOf(a, q)) <= 100 * BidOf(a, q)
        /\ Proceeds(BidOf(b, q)) \in Nat /\ Proceeds(BidOf(b, q)) <= 100 * BidOf(b, q)
    BY <2>3, ProceedsOfRequest
  <2>5. /\ Realised(o) = Proceeds(BidOf(b, q)) - 100 * AskOf(a, q)
        /\ Realised(p) = Proceeds(BidOf(a, q)) - 100 * AskOf(b, q)
    BY <2>1 DEF Realised
  <2>6. /\ AskOf(a, q) > 0 /\ AskOf(b, q) > 0
        /\ 0 < o.net /\ o.net <= Realised(o) /\ 0 < p.net /\ p.net <= Realised(p)
    BY <2>1, <2>2 DEF Covered
  <2>7. BidOf(a, q) <= AskOf(a, q) /\ BidOf(b, q) <= AskOf(b, q)
    BY <2>1, <2>6 DEF Uncrossed
  <2>8. 0 < Realised(o) /\ 0 < Realised(p)
    <3>1. o.net \in Int /\ p.net \in Int
      BY DEF SalesInv, RoutesAreRoyal
    <3> QED
      BY <2>3, <2>4, <2>5, <2>6, <3>1
  <2> QED
    BY <2>3, <2>4, <2>5, <2>6, <2>7, <2>8
<1> QED
  BY <1>1, <1>2, <1>3, PTL DEF Spec
----------------------------------------------------------------------------
(* Goods that are bought *)

(* A purchase at no less than an offer is an offered one. *)
LEMMA PurchaseOfOffer ==
    ASSUME PricesTyped, NEW i, NEW n, NEW shown, NEW q \in Qualities, NEW price \in Nat, NEW age,
           NEW cities, NEW c \in cities, 0 < Ask(i, c, q), Ask(i, c, q) <= price
    PROVE  OfferedIn(Purchase(i, n, shown, q, price, age), cities)
<1>1. Ask(i, c, q) \in 1..price /\ q \in Nat
  BY OffersAreNumbers, ThresholdAssumption
<1> QED
  BY <1>1 DEF OfferedIn, Purchase

(* get_min_realistic_price is a number. *)
LEMMA FloorIsANumber ==
    ASSUME NEW i \in Items
    PROVE  RealisticFloor(i) \in Int
<1>1. /\ i.tier \in 1..8 /\ i.enchant \in 0..4
      /\ i.class = "enchant_material" => i.kind \in {"RUNE", "SOUL", "RELIC", "SHARD"}
      /\ i.class = "material" => i.kind \in {"raw", "refined"}
      /\ i.class \in {"enchant_material", "artifact", "material"} => ~IsGear(i)
  BY ItemAssumption DEF MaterialFloor, ResourceFloor, IsGear
<1>2. ASSUME NEW row \in [1..5 -> Int] PROVE ByTier(row, i.tier) \in Int
  <2>1. i.tier \in 4..8 => i.tier - 3 \in 1..5
    BY <1>1
  <2>2. 1 \in 1..5
    OBVIOUS
  <2> QED
    BY <2>1, <2>2 DEF ByTier
<1>3. \A a, b, c, d, e \in Int : <<a, b, c, d, e>> \in [1..5 -> Int]
  OBVIOUS
<1> DEFINE material == ByTier(MaterialFloor[i.kind], i.tier)
           artifact == ByTier(<<1000, 3500, 12000, 35000, 100000>>, i.tier)
                         * (IF i.kind \in {"rare", "fey"} THEN 2 ELSE 1)
           gear == ((ByTier(<<1500, 4000, 12000, 35000, 100000>>, i.tier)
                       * GearFactor[i.enchant + 1]) \div 10) * (IF i.kind \in {"rare", "fey", "shadow"} THEN 4 ELSE 1)
           resource == (ByTier(ResourceFloor[i.kind], i.tier) * ResourceFactor[i.enchant + 1]) \div 10
<1>0. RealisticFloor(i) =
        CASE i.class = "enchant_material" -> material
          [] i.class = "artifact" -> artifact
          [] IsGear(i) -> gear
          [] i.class = "material" -> resource
          [] OTHER -> 10
  BY DEF RealisticFloor
<1>4. CASE i.class = "enchant_material"
  <2>1. MaterialFloor[i.kind] \in [1..5 -> Int]
    <3>1. CASE i.kind = "RUNE"
      BY <1>3, <3>1 DEF MaterialFloor
    <3>2. CASE i.kind = "SOUL"
      BY <1>3, <3>2 DEF MaterialFloor
    <3>3. CASE i.kind = "RELIC"
      BY <1>3, <3>3 DEF MaterialFloor
    <3>4. CASE i.kind = "SHARD"
      BY <1>3, <3>4 DEF MaterialFloor
    <3> QED
      BY <1>1, <1>4, <3>1, <3>2, <3>3, <3>4
  <2>2. ~IsGear(i)
    BY <1>1, <1>4
  <2>3. RealisticFloor(i) = material
    <3> HIDE DEF material, artifact, gear, resource
    <3> QED
      BY <1>4, <1>0, <2>2
  <2> QED
    BY <1>2, <2>1, <2>3
<1>5. CASE i.class = "artifact"
  <2>1. ByTier(<<1000, 3500, 12000, 35000, 100000>>, i.tier) \in Int
    BY <1>2, <1>3
  <2>2. i.class # "enchant_material" /\ ~IsGear(i)
    BY <1>1, <1>5
  <2>3. RealisticFloor(i) = artifact
    <3> HIDE DEF material, artifact, gear, resource
    <3> QED
      BY <1>5, <1>0, <2>2
  <2>4. \A a \in Int : a * (IF i.kind \in {"rare", "fey"} THEN 2 ELSE 1) \in Int
    OBVIOUS
  <2> QED
    BY <2>1, <2>3, <2>4
<1>6. CASE i.class \notin {"enchant_material", "artifact"} /\ IsGear(i)
  <2>1. ByTier(<<1500, 4000, 12000, 35000, 100000>>, i.tier) \in Int
    BY <1>2, <1>3
  <2>2. GearFactor[i.enchant + 1] \in Int
    BY <1>1 DEF GearFactor
  <2>3. i.class # "enchant_material" /\ i.class # "artifact" /\ i.class # "material"
    BY <1>1, <1>6
  <2>4. RealisticFloor(i) = gear
    <3> HIDE DEF material, artifact, gear, resource
    <3> QED
      BY <1>6, <1>0, <2>3
  <2>5. \A a, b \in Int : (a * b) \div 10 \in Int
    OBVIOUS
  <2>6. \A a \in Int : a * (IF i.kind \in {"rare", "fey", "shadow"} THEN 4 ELSE 1) \in Int
    OBVIOUS
  <2> QED
    BY <2>1, <2>2, <2>4, <2>5, <2>6
<1>7. CASE i.class \notin {"enchant_material", "artifact"} /\ ~IsGear(i) /\ i.class = "material"
  <2>2. ResourceFloor[i.kind] \in [1..5 -> Int]
    <3>1. CASE i.kind = "raw"
      BY <1>3, <3>1 DEF ResourceFloor
    <3>2. CASE i.kind = "refined"
      BY <1>3, <3>2 DEF ResourceFloor
    <3> QED
      BY <1>1, <1>7, <3>1, <3>2
  <2>3. ByTier(ResourceFloor[i.kind], i.tier) \in Int
    BY <1>2, <2>2
  <2>4. ResourceFactor[i.enchant + 1] \in Int
    BY <1>1 DEF ResourceFactor
  <2>5. i.class # "enchant_material" /\ i.class # "artifact"
    BY <1>7
  <2>6. RealisticFloor(i) = resource
    <3> HIDE DEF material, artifact, gear, resource
    <3> QED
      BY <1>7, <1>0, <2>5
  <2>7. \A a, b \in Int : (a * b) \div 10 \in Int
    OBVIOUS
  <2> QED
    BY <2>3, <2>4, <2>6, <2>7
<1>8. CASE i.class \notin {"enchant_material", "artifact", "material"} /\ ~IsGear(i)
  <2>1. i.class # "enchant_material" /\ i.class # "artifact" /\ i.class # "material"
    BY <1>8
  <2>2. RealisticFloor(i) = 10
    <3> HIDE DEF material, artifact, gear, resource
    <3> QED
      BY <1>8, <1>0, <2>1
  <2> QED
    BY <2>2
<1> QED
  BY <1>4, <1>5, <1>6, <1>7, <1>8

(* _get_royal_median_sell is a number, zero where there is no sane price. *)
LEMMA RoyalMedianIsANumber ==
    ASSUME PricesTyped, NEW i, NEW q
    PROVE  RoyalMedian(i, q) \in Nat
<1> DEFINE cities == {c \in RoyalCities : Sane(i, c, q) # {}}
           asks == [c \in cities |-> Ask(i, c, Min(Sane(i, c, q)))]
<1>1. \A c, x : Ask(i, c, x) \in Nat
  BY OffersAreNumbers
<1>2. IsFiniteSet(cities)
  BY RoyalCitiesAreFinite, FS_Subset
<1>3. ASSUME NEW c \in cities PROVE Ask(i, c, Min(Sane(i, c, q))) > 0
  <2>1. Sane(i, c, q) \subseteq Nat /\ Sane(i, c, q) # {}
    BY ThresholdAssumption DEF Sane
  <2>2. Min(Sane(i, c, q)) \in Sane(i, c, q)
    BY <2>1, MinOfNaturals
  <2> QED
    BY <2>2 DEF Sane
<1>4. DOMAIN asks = cities /\ \A c \in cities : asks[c] \in Nat /\ asks[c] > 0
  BY <1>1, <1>3
<1>5. RoyalMedian(i, q) = IF cities = {} THEN 0 ELSE Median(asks)
  BY Zenon DEF RoyalMedian
<1> HIDE DEF asks, cities
<1>6. cities # {} => Priced(asks) # {}
  BY <1>4 DEF Priced
<1>7. cities # {} => Median(asks) \in Nat
  BY <1>2, <1>4, <1>6, MedianIsAPrice
<1> QED
  BY <1>5, <1>7

(* _calc_material_cost buys where the goods are offered, also where it reckons    *)
(* with a median because the offer is below the floor.                          *)
LEMMA SourceIsOffered ==
    ASSUME PricesTyped, NEW i \in Items, NEW n, NEW c, NEW localOnly,
           NEW p \in Source(i, n, c, localOnly)
    PROVE  OfferedIn(p, {p.city})
<1>0. 1 \in Qualities /\ \A d, x : Ask(i, d, x) \in Nat
  BY ThresholdAssumption, OffersAreNumbers
<1>1. CASE Usable(i, c, 1)
  <2>1. p = Purchase(i, n, c, 1, Ask(i, c, 1), Age(i, c, 1))
    BY <1>1 DEF Source
  <2>2. p.city = c /\ 0 < Ask(i, c, 1)
    BY <1>1, <2>1 DEF Purchase, Usable
  <2> QED
    BY <1>0, <2>1, <2>2, PurchaseOfOffer
<1>2. CASE ~Usable(i, c, 1) /\ Propped(i, c)
  <2>1. p = Purchase(i, n, c, 1, RoyalMedian(i, 1), Age(i, c, 1))
    BY <1>2 DEF Source
  <2>2. p.city = c
    BY <2>1 DEF Purchase
  <2>3. 0 < Ask(i, c, 1) /\ Ask(i, c, 1) < RealisticFloor(i) /\ RoyalMedian(i, 1) >= RealisticFloor(i)
    BY <1>2 DEF Propped
  <2>4. RoyalMedian(i, 1) \in Nat /\ Ask(i, c, 1) <= RoyalMedian(i, 1)
    BY <1>0, <2>3, FloorIsANumber, RoyalMedianIsANumber
  <2> QED
    BY <1>0, <2>1, <2>2, <2>3, <2>4, PurchaseOfOffer
<1>3. CASE /\ ~Usable(i, c, 1) /\ ~Propped(i, c) /\ c # Caerleon
           /\ i.line \in DOMAIN RefiningCity /\ Usable(i, RefiningCity[i.line], 1)
  <2> DEFINE r == RefiningCity[i.line]
  <2>1. p = Purchase(i, n, r, 1, Ask(i, r, 1), Age(i, r, 1))
    BY <1>3 DEF Source
  <2>2. p.city = r /\ 0 < Ask(i, r, 1)
    BY <1>3, <2>1 DEF Purchase, Usable
  <2> QED
    BY <1>0, <2>1, <2>2, PurchaseOfOffer
<1>4. CASE /\ ~Usable(i, c, 1) /\ ~Propped(i, c) /\ c # Caerleon
           /\ ~(i.line \in DOMAIN RefiningCity /\ Usable(i, RefiningCity[i.line], 1))
           /\ ~localOnly /\ Buyable(i, 1) # {}
  <2> DEFINE r == BestCity(i, 1)
  <2>1. p = Purchase(i, n, r, 1, BestPrice(i, 1), Age(i, r, 1))
    BY <1>4 DEF Source
  <2>2. p.city = r
    BY <2>1 DEF Purchase
  <2>3. BestPrice(i, 1) \in Nat /\ 0 < Ask(i, r, 1) /\ Ask(i, r, 1) <= BestPrice(i, 1)
    BY <1>4, BestPriceIsOffered
  <2> QED
    BY <1>0, <2>1, <2>2, <2>3, PurchaseOfOffer
<1> QED
  BY <1>1, <1>2, <1>3, <1>4 DEF Source

(* So what a recipe is made of is offered where it is shown to be bought. *)
LEMMA MaterialsAreOffered ==
    ASSUME PricesTyped, NEW recipe, DOMAIN recipe \subseteq Items, NEW c, NEW localOnly,
           NEW p \in Materials(recipe, c, localOnly)
    PROVE  OfferedIn(p, {p.city})
BY SourceIsOffered DEF Materials

(* scan_refining pays what is asked in the city it buys in. *)
LEMMA SingleSourcedIsOffered ==
    ASSUME PricesTyped, NEW recipe, NEW c, NEW p \in SingleSourced(recipe, c)
    PROVE  p.city = c /\ OfferedIn(p, {p.city})
<1>1. PICK i \in DOMAIN recipe : /\ UsableInVolume(i, c, 1)
                                 /\ p = Purchase(i, recipe[i], c, 1, Ask(i, c, 1), Age(i, c, 1))
  BY DEF SingleSourced
<1>2. p.city = c /\ 0 < Ask(i, c, 1) /\ Ask(i, c, 1) \in Nat /\ 1 \in Qualities
  BY <1>1, OffersAreNumbers, ThresholdAssumption DEF Purchase, UsableInVolume
<1>3. c \in {c} /\ Ask(i, c, 1) <= Ask(i, c, 1)
  BY <1>2
<1>4. OfferedIn(p, {c})
  BY <1>1, <1>2, <1>3, PurchaseOfOffer, Zenon
<1> QED
  BY <1>2, <1>4

(* The same of the plan that buys each ingredient in the city that is cheapest for it. *)
LEMMA MultiSourcedIsOffered ==
    ASSUME PricesTyped, NEW recipe, NEW refining, NEW p \in MultiSourced(recipe, refining)
    PROVE  OfferedIn(p, {p.city})
<1> DEFINE there(i) == IF refining \in Cheapest(i) THEN refining ELSE First(Cheapest(i))
<1>1. PICK i \in DOMAIN recipe :
         /\ Cheapest(i) # {}
         /\ p = Purchase(i, recipe[i], there(i), 1, Ask(i, there(i), 1), Age(i, there(i), 1))
  BY DEF MultiSourced
<1>2. there(i) \in Cheapest(i)
  BY <1>1, FirstIsThere DEF Cheapest
<1>3. 0 < Ask(i, there(i), 1)
  BY <1>2 DEF Cheapest, UsableInVolume
<1> HIDE DEF there
<1>4. p.city = there(i) /\ Ask(i, there(i), 1) \in Nat /\ 1 \in Qualities
  BY <1>1, OffersAreNumbers, ThresholdAssumption DEF Purchase
<1> QED
  BY <1>1, <1>3, <1>4, PurchaseOfOffer

(* Of finitely many things in a strict order half, rounded down, lie before one.  *)
LEMMA MiddleExists ==
    ASSUME NEW S, IsFiniteSet(S), S # {}, NEW R,
           \A x \in S : <<x, x>> \notin R,
           \A x, y, z \in S : <<x, y>> \in R /\ <<y, z>> \in R => <<x, z>> \in R,
           \A x, y \in S : x # y => <<x, y>> \in R \/ <<y, x>> \in R
    PROVE  \E x \in S : Cardinality({y \in S : <<y, x>> \in R}) = Cardinality(S) \div 2
<1> DEFINE B == [x \in S |-> {y \in S : <<y, x>> \in R}]
           size == [x \in S |-> Cardinality(B[x])]
           half == Cardinality(S) \div 2
           Enough == {x \in S : half <= size[x]}
<1>1. \A x, y \in S : y \in B[x] <=> <<y, x>> \in R
  OBVIOUS
<1>2. /\ \A x \in S : B[x] \in SUBSET S /\ IsFiniteSet(B[x])
      /\ \A x \in S : size[x] = Cardinality(B[x]) /\ size[x] \in Nat
      /\ DOMAIN size = S
  <2>1. \A x \in S : B[x] \in SUBSET S
    OBVIOUS
  <2> HIDE DEF B
  <2> QED
    BY <2>1, FS_Subset, FS_CardinalityType
<1> HIDE DEF B, size
<1>3. \A x, y \in S : x \in B[y] => B[x] \in SUBSET B[y] /\ x \notin B[x] /\ size[x] < size[y]
  <2> SUFFICES ASSUME NEW x \in S, NEW y \in S, x \in B[y]
               PROVE  B[x] \in SUBSET B[y] /\ x \notin B[x] /\ size[x] < size[y]
    OBVIOUS
  <2>1. x \notin B[x]
    BY <1>1
  <2>2. B[x] \in SUBSET B[y]
    BY <1>1, <1>2
  <2>3. Cardinality(B[x]) <= Cardinality(B[y])
        /\ (Cardinality(B[y]) = Cardinality(B[x]) => B[y] = B[x])
    BY <1>2, <2>2, FS_Subset
  <2>4. size[x] <= size[y] /\ size[x] # size[y]
    BY <1>2, <2>1, <2>3
  <2> QED
    BY <1>2, <2>1, <2>2, <2>4
<1>4. ASSUME NEW T \in SUBSET S, T # {}
      PROVE  \E x \in T : \A y \in T : y = x \/ y \in B[x]
  <2> DEFINE sizes == {size[x] : x \in T}
  <2>1. IsFiniteSet(T)
    BY FS_Subset
  <2>2. IsFiniteSet(sizes) /\ sizes \subseteq Nat /\ sizes # {}
    BY <1>2, <1>4, <2>1, FiniteValues
  <2>3. Max(sizes) \in sizes /\ \A n \in sizes : n <= Max(sizes)
    BY <2>2, MaxOfFinite
  <2>4. PICK x \in T : size[x] = Max(sizes)
    BY <2>3
  <2>5. \A y \in T : size[y] <= size[x]
    BY <2>3, <2>4
  <2>6. ASSUME NEW y \in T PROVE y = x \/ y \in B[x]
    <3>1. ~(size[x] < size[y])
      BY <1>2, <2>5
    <3>2. x \notin B[y]
      BY <1>3, <3>1
    <3> QED
      BY <1>1, <3>2
  <2> QED
    BY <2>6
<1>5. Cardinality(S) \in Nat /\ Cardinality(S) > 0
  BY FS_CardinalityType, FS_EmptySet
<1>6. half \in Nat /\ half <= Cardinality(S) - 1
  BY <1>5
<1> HIDE DEF half
<1>7. Enough # {}
  <2>1. PICK x \in S : \A y \in S : y = x \/ y \in B[x]
    BY <1>4
  <2>2. B[x] = S \ {x}
    BY <1>1, <1>2, <2>1
  <2>3. size[x] = Cardinality(S) - 1
    BY <1>2, <2>2, FS_RemoveElement
  <2> QED
    BY <1>6, <2>3
<1>8. PICK x \in Enough : \A y \in Enough : size[x] <= size[y]
  <2> DEFINE sizes == {size[x] : x \in Enough}
  <2>1. sizes \subseteq Nat /\ sizes # {}
    BY <1>2, <1>7
  <2>2. Min(sizes) \in sizes /\ \A n \in sizes : Min(sizes) <= n
    BY <2>1, MinOfNaturals
  <2>3. PICK x \in Enough : size[x] = Min(sizes)
    BY <2>2
  <2> QED
    BY <2>2, <2>3
<1>9. size[x] = half
  <2> SUFFICES ASSUME size[x] # half PROVE FALSE
    OBVIOUS
  <2>1. x \in S /\ size[x] > half
    BY <1>2, <1>6
  <2>2. B[x] # {}
    <3>1. B[x] = {} => size[x] = 0
      BY <1>2, <2>1, FS_EmptySet
    <3> QED
      BY <1>6, <2>1, <3>1
  <2>3. PICK y \in B[x] : \A z \in B[x] : z = y \/ z \in B[y]
    BY <1>2, <1>4, <2>1, <2>2
  <2>4. y \in S /\ B[y] \in SUBSET B[x] /\ y \notin B[y] /\ size[y] < size[x]
    BY <1>2, <1>3, <2>1
  <2>5. B[x] = B[y] \cup {y}
    BY <2>3, <2>4
  <2>6. size[x] = size[y] + 1
    BY <1>2, <2>1, <2>4, <2>5, FS_AddElement
  <2>7. half <= size[y]
    BY <1>2, <1>6, <2>1, <2>4, <2>6
  <2>8. size[x] <= size[y]
    BY <1>8, <2>4, <2>7
  <2> QED
    BY <1>2, <2>1, <2>4, <2>8
<1>10. Cardinality({y \in S : <<y, x>> \in R}) = size[x] /\ x \in S
  BY DEF B, size
<1> QED
  BY <1>9, <1>10 DEF half

(* A set of numbers up to a bound, zero included, has one that is the bound or    *)
(* whose successor is not in it.                                               *)
LEMMA LastOfSome ==
    ASSUME NEW bound \in Nat, NEW T \in SUBSET (0..bound), 0 \in T
    PROVE  \E r \in T : r = bound \/ r + 1 \notin T
<1>1. T \subseteq Nat /\ IsFiniteSet(T)
  <2>1. IsFiniteSet(0..bound)
    BY FS_Interval
  <2>2. IsFiniteSet(T)
    BY <2>1, FS_Subset
  <2> QED
    BY <2>2
<1>2. Max(T) \in T /\ \A r \in T : r <= Max(T)
  BY <1>1, MaxOfFinite
<1>3. Max(T) + 1 \notin T
  <2>1. Max(T) \in Nat
    BY <1>1, <1>2
  <2>2. \A m \in Nat : ~(m + 1 <= m)
    OBVIOUS
  <2> QED
    BY <1>2, <2>1, <2>2, Zenon
<1> QED
  BY <1>2, <1>3

(* estimate_market_impact is a share of a thousand, *)
LEMMA ImpactIsANumber ==
    ASSUME NEW n \in Nat, NEW volume \in Nat
    PROVE  Impact(n, volume) \in Nat
<1> DEFINE traded == IF volume > 0 THEN volume ELSE Max({10 * n, 1000})
           weight == [r \in Nat |-> r * r * traded]
           limit == 24964 * n
           top == 1000
           fits == {r \in 0..top : weight[r] <= limit}
<1>1. Max({10 * n, 1000}) \in Nat
  <2>1. \E x \in {10 * n, 1000} : \A y \in {10 * n, 1000} : x >= y
    OBVIOUS
  <2>2. Max({10 * n, 1000}) \in {10 * n, 1000}
    BY <2>1, Zenon DEF Max
  <2> QED
    BY <2>2
<1>2. traded \in Nat /\ limit \in Nat
  BY <1>1
<1>3. Impact(n, volume) = CHOOSE r \in 0..top :
            /\ r * r * traded <= limit
            /\ r = top \/ (r + 1) * (r + 1) * traded > limit
  BY DEF Impact
<1>4. top \in Nat
  OBVIOUS
<1> HIDE DEF traded, limit, top
<1>5. \A r \in Nat : weight[r] = r * r * traded /\ weight[r] \in Nat
  BY <1>2
<1>6. weight[0] = 0
  BY <1>2
<1> HIDE DEF weight
<1>7. PICK r \in fits : r = top \/ r + 1 \notin fits
  <2>1. 0 \in fits
    BY <1>2, <1>4, <1>6
  <2> QED
    BY <1>4, <2>1, LastOfSome
<1>8. r \in 0..top /\ weight[r] <= limit /\ (r = top \/ weight[r + 1] > limit)
  BY <1>2, <1>4, <1>5, <1>7
<1>9. /\ r * r * traded <= limit
      /\ r = top \/ (r + 1) * (r + 1) * traded > limit
  <2>1. r \in Nat /\ r + 1 \in Nat
    BY <1>8
  <2>2. weight[r] = r * r * traded /\ weight[r + 1] = (r + 1) * (r + 1) * traded
    BY <1>5, <2>1
  <2> QED
    BY <1>8, <2>2, Zenon
<1>10. Impact(n, volume) \in 0..top
  BY <1>3, <1>8, <1>9, Zenon
<1> QED
  BY <1>10

(* so what is bought by the batch does not become cheaper by it. *)
LEMMA SlippedIsNotCheaper ==
    ASSUME NEW price \in Nat, NEW n \in Nat, NEW volume \in Nat
    PROVE  Slipped(price, n, volume) \in Nat /\ price <= Slipped(price, n, volume)
<1>1. Impact(n, volume) \in Nat
  BY ImpactIsANumber
<1>2. ASSUME NEW k \in Nat
      PROVE  (price * (1000 + k)) \div 1000 \in Nat /\ price <= (price * (1000 + k)) \div 1000
  <2>1. price * (1000 + k) = 1000 * price + price * k /\ price * k \in Nat
    OBVIOUS
  <2> DEFINE more == price * k
  <2>2. more \in Nat
    BY <2>1
  <2> HIDE DEF more
  <2>3. (1000 * price + more) \div 1000 \in Nat /\ price <= (1000 * price + more) \div 1000
    BY <2>2
  <2> QED
    BY <2>1, <2>3 DEF more
<1> QED
  BY <1>1, <1>2 DEF Slipped

(* The sizes of the batches of _get_enchant_qty, and the parts Rounded divides by. *)
Batches == {96, 192, 288, 384}
Parts == Batches \cup {10, 100, 10000}

(* _get_enchant_qty asks for one of the four batches. *)
LEMMA BatchesAreEnchanted ==
    ASSUME NEW i
    PROVE  EnchantQuantity(i) \in Batches
BY DEF EnchantQuantity, Batches

(* Rounding an amount of units does not make the unit cheaper than a whole price  *)
(* that the amount pays for.                                                   *)
LEMMA RoundedIsNotLess ==
    ASSUME NEW amount \in Nat, NEW per \in Parts, NEW price \in Nat, price * per <= amount
    PROVE  Rounded(amount, per) \in Nat /\ price <= Rounded(amount, per)
<1>1. CASE per = 96
  BY <1>1 DEF Rounded
<1>2. CASE per = 192
  BY <1>2 DEF Rounded
<1>3. CASE per = 288
  BY <1>3 DEF Rounded
<1>4. CASE per = 384
  BY <1>4 DEF Rounded
<1>5. CASE per = 10
  BY <1>5 DEF Rounded
<1>6. CASE per = 100
  BY <1>6 DEF Rounded
<1>7. CASE per = 10000
  BY <1>7 DEF Rounded
<1> QED
  BY <1>1, <1>2, <1>3, <1>4, <1>5, <1>6, <1>7 DEF Parts, Batches

(* The runes, souls and relics of the tiers that can be enchanted. *)
IsEnchantMaterial(m) == m.kind \in {"RUNE", "SOUL", "RELIC"} /\ m.tier \in 4..8

(* ENCHANT_MATERIAL_BOUNDS has a range for each of the materials. *)
LEMMA BoundsAreNumbers ==
    ASSUME NEW m, IsEnchantMaterial(m)
    PROVE  LowerBound[m.kind][m.tier - 3] \in Nat /\ UpperBound[m.kind][m.tier - 3] \in Nat
<1>1. m.tier - 3 \in 1..5
  BY DEF IsEnchantMaterial
<1>2. \A a, b, c, d, e \in Nat, n \in 1..5 : <<a, b, c, d, e>>[n] \in Nat
  OBVIOUS
<1>3. CASE m.kind = "RUNE"
  BY <1>1, <1>2, <1>3 DEF LowerBound, UpperBound
<1>4. CASE m.kind = "SOUL"
  BY <1>1, <1>2, <1>4 DEF LowerBound, UpperBound
<1>5. CASE m.kind = "RELIC"
  BY <1>1, <1>2, <1>5 DEF LowerBound, UpperBound
<1> QED
  BY <1>3, <1>4, <1>5 DEF IsEnchantMaterial

(* The bounds of a material do not bring a price down below an offer between them. *)
LEMMA ClampedIsNotCheaper ==
    ASSUME NEW m, IsEnchantMaterial(m), NEW offer, InBounds(m, offer), NEW price \in Nat, offer <= price
    PROVE  Clamped(m, price) \in Nat /\ offer <= Clamped(m, price)
<1> DEFINE low == LowerBound[m.kind][m.tier - 3]
           up == UpperBound[m.kind][m.tier - 3]
           least == Min({up, price})
<1>1. low \in Nat /\ up \in Nat
  BY BoundsAreNumbers
<1>2. Clamped(m, price) = Max({low, least}) /\ offer \in low..up
  BY DEF Clamped, InBounds
<1> HIDE DEF low, up
<1>3. least \in {up, price} /\ least \in Nat
  <2>1. {up, price} \subseteq Nat /\ {up, price} # {}
    BY <1>1
  <2> QED
    BY <2>1, MinOfNaturals
<1>4. offer <= least
  BY <1>1, <1>2, <1>3
<1> HIDE DEF least
<1>5. Max({low, least}) \in {low, least} /\ least <= Max({low, least})
  <2>1. \E x \in {low, least} : \A y \in {low, least} : x >= y
    BY <1>1, <1>3
  <2>2. Max({low, least}) \in {low, least} /\ \A y \in {low, least} : Max({low, least}) >= y
    BY <2>1, Zenon DEF Max
  <2>3. Max({low, least}) >= least
    BY <2>2, Zenon
  <2> QED
    BY <1>1, <1>3, <2>2, <2>3
<1> QED
  BY <1>1, <1>2, <1>3, <1>4, <1>5

(* What dearer units cost more is no less for any number of them. *)
LEMMA MoreOfDearer ==
    ASSUME NEW k \in Nat, NEW x \in Nat, NEW y \in Nat, x <= y
    PROVE  k * x \in Nat /\ k * y \in Nat /\ k * x <= k * y
<1>1. PICK d \in Nat : y = x + d
  <2>1. y - x \in Nat /\ y = x + (y - x)
    OBVIOUS
  <2> QED
    BY <2>1
<1>2. k * y = k * x + k * d /\ k * d \in Nat /\ k * x \in Nat
  BY <1>1
<1> QED
  BY <1>2

(* _calculate_depth_adjusted_unit_price: a batch costs no less by the unit than    *)
(* the offer that shows, be it blended with the offers behind it, blended with   *)
(* the average of the day or scaled.                                           *)
LEMMA BatchPriceIsNotCheaper ==
    ASSUME NEW m, IsEnchantMaterial(m), NEW row \in Rows, NEW n \in Batches, InBounds(m, row.sell)
    PROVE  BatchPrice(m, row, n) \in Nat /\ row.sell <= BatchPrice(m, row, n)
<1> DEFINE sell == row.sell
           average == row.average
           depth == row.depth
           dearer == IF average > sell THEN 100 * average ELSE 120 * sell
           share == Min({8500, 2125 * (n \div 96)})
           behind == depth * sell + ((n - depth) * dearer) \div 100
           blended == sell * (10000 - share) + average * share
           scaled == sell * (100 + 4 * (n \div 96))
<1>1. sell \in Nat /\ average \in Nat /\ depth \in Nat
  BY DEF Rows
<1>2. n \in Nat /\ n \in Parts /\ n \div 96 \in Nat /\ 100 \in Parts /\ 10000 \in Parts
  BY DEF Batches, Parts
<1>3. share \in Nat /\ share <= 8500
  <2>1. ASSUME NEW k \in Nat PROVE Min({8500, k}) \in Nat /\ Min({8500, k}) <= 8500
    <3>1. {8500, k} \subseteq Nat /\ {8500, k} # {}
      OBVIOUS
    <3>2. Min({8500, k}) \in {8500, k} /\ \A x \in {8500, k} : Min({8500, k}) <= x
      BY <3>1, MinOfNaturals
    <3> QED
      BY <3>1, <3>2
  <2>2. 2125 * (n \div 96) \in Nat
    BY <1>2
  <2> QED
    BY <2>1, <2>2
<1>4. dearer \in Nat /\ 100 * sell <= dearer
  BY <1>1
<1>5. BatchPrice(m, row, n) =
        Clamped(m, IF depth > 0 /\ depth < n THEN Rounded(behind, n)
                   ELSE IF 10 * sell < 9 * average THEN Rounded(blended, 10000)
                   ELSE Rounded(scaled, 100))
  BY DEF BatchPrice
<1>6. InBounds(m, sell)
  OBVIOUS
<1> HIDE DEF sell, average, depth, dearer, share
<1>7. CASE depth > 0 /\ depth < n
  <2>1. n - depth \in Nat
    BY <1>1, <1>2, <1>7
  <2>2. /\ (n - depth) * (100 * sell) \in Nat /\ (n - depth) * dearer \in Nat
        /\ (n - depth) * (100 * sell) <= (n - depth) * dearer
    BY <1>1, <1>4, <2>1, MoreOfDearer
  <2>3. (n - depth) * (100 * sell) = 100 * ((n - depth) * sell) /\ (n - depth) * sell \in Nat
    BY <1>1, <2>1
  <2>4. ((n - depth) * dearer) \div 100 \in Nat /\ (n - depth) * sell <= ((n - depth) * dearer) \div 100
    BY <2>2, <2>3
  <2>5. depth * sell + (n - depth) * sell = sell * n /\ depth * sell \in Nat
    BY <1>1, <1>2, <2>1
  <2>6. behind \in Nat /\ sell * n <= behind
    BY <2>3, <2>4, <2>5
  <2> HIDE DEF behind
  <2>7. Rounded(behind, n) \in Nat /\ sell <= Rounded(behind, n)
    <3>1. sell \in Nat /\ n \in Parts /\ behind \in Nat /\ sell * n <= behind
      BY <1>1, <1>2, <2>6
    <3> QED
      BY <3>1, RoundedIsNotLess
  <2>8. BatchPrice(m, row, n) = Clamped(m, Rounded(behind, n))
    BY <1>5, <1>7 DEF behind
  <2> QED
    BY <1>6, <2>7, <2>8, ClampedIsNotCheaper DEF sell
<1>8. CASE ~(depth > 0 /\ depth < n) /\ 10 * sell < 9 * average
  <2>1. sell <= average
    BY <1>1, <1>8
  <2>2. share * sell \in Nat /\ share * average \in Nat /\ share * sell <= share * average
    BY <1>1, <1>3, <2>1, MoreOfDearer
  <2>3. /\ sell * (10000 - share) + share * sell = sell * 10000
        /\ average * share = share * average
        /\ sell * (10000 - share) \in Nat
    BY <1>1, <1>3
  <2>4. blended \in Nat /\ sell * 10000 <= blended
    BY <2>2, <2>3
  <2>5. Rounded(blended, 10000) \in Nat /\ sell <= Rounded(blended, 10000)
    BY <1>1, <1>2, <2>4, RoundedIsNotLess
  <2>6. BatchPrice(m, row, n) = Clamped(m, Rounded(blended, 10000))
    BY <1>5, <1>8
  <2> QED
    BY <1>6, <2>5, <2>6, ClampedIsNotCheaper DEF sell
<1>9. CASE ~(depth > 0 /\ depth < n) /\ ~(10 * sell < 9 * average)
  <2>1. 100 <= 100 + 4 * (n \div 96) /\ 100 + 4 * (n \div 96) \in Nat
    BY <1>2
  <2>2. scaled \in Nat /\ sell * 100 <= scaled
    BY <1>1, <2>1, MoreOfDearer
  <2> HIDE DEF scaled
  <2>3. Rounded(scaled, 100) \in Nat /\ sell <= Rounded(scaled, 100)
    BY <1>1, <1>2, <2>2, RoundedIsNotLess
  <2>4. BatchPrice(m, row, n) = Clamped(m, Rounded(scaled, 100))
    BY <1>5, <1>9 DEF scaled
  <2> QED
    BY <1>6, <2>3, <2>4, ClampedIsNotCheaper DEF sell
<1> QED
  BY <1>7, <1>8, <1>9
----------------------------------------------------------------------------
(* The live books, as far as they are there. *)
LiveTyped == \A k \in DOMAIN live : live[k] \in [price : Nat, depth : Nat]

(* What a material is quoted at is offered: in the live book of the city, on its   *)
(* market, or on that of a royal city.                                         *)
QuoteIsOffered(m, c, x) ==
    \/ <<m, c>> \in DOMAIN live /\ live[<<m, c>>].price <= x.price
    \/ \E d \in {c} \cup RoyalCities : 0 < Ask(m, d, 1) /\ Ask(m, d, 1) <= x.price

(* A quoted batch costs no less than the offer it is priced from. *)
LEMMA QuotedIsOffered ==
    ASSUME PricesTyped, NEW m, IsEnchantMaterial(m), NEW n \in Batches, NEW c, NEW limit,
           Offered(m, c, limit)
    PROVE  /\ Quoted(m, c, n).price \in Nat /\ Quoted(m, c, n).volume \in Nat
           /\ 0 < Ask(m, c, 1) /\ Ask(m, c, 1) <= Quoted(m, c, n).price
<1>1. /\ RowOf(m, c, 1) \in Rows /\ RowOf(m, c, 1).sell = Ask(m, c, 1)
      /\ Volume(m, c, 1) \in Nat
  <2>1. RowOf(m, c, 1) \in Rows
    BY OffersAreNumbers
  <2> QED
    BY <2>1 DEF Ask, Volume, Rows
<1>2. 0 < Ask(m, c, 1) /\ InBounds(m, Ask(m, c, 1))
  BY <1>1 DEF Offered, Rows
<1>3. /\ BatchPrice(m, RowOf(m, c, 1), n) \in Nat
      /\ Ask(m, c, 1) <= BatchPrice(m, RowOf(m, c, 1), n)
  BY <1>1, <1>2, BatchPriceIsNotCheaper
<1>4. /\ Quoted(m, c, n).price = BatchPrice(m, RowOf(m, c, 1), n)
      /\ Quoted(m, c, n).volume = Volume(m, c, 1)
  BY DEF Quoted, Quote
<1> QED
  BY <1>1, <1>2, <1>3, <1>4

(* The middle one of the royal cities that offer a material is one of them. *)
LEMMA MiddleCity ==
    ASSUME NEW S \in SUBSET RoyalCities, S # {}, NEW unit, \A x \in S : unit[x] \in Nat
    PROVE  \E x \in S :
             Cardinality({y \in S : unit[y] < unit[x] \/ (unit[y] = unit[x] /\ Rank(y) < Rank(x))})
               = Cardinality(S) \div 2
<1> DEFINE R == {r \in S \X S : \/ unit[r[1]] < unit[r[2]]
                                \/ unit[r[1]] = unit[r[2]] /\ Rank(r[1]) < Rank(r[2])}
           rank == [c \in S |-> Rank(c)]
           price == [c \in S |-> unit[c]]
<1>1. \A c \in RoyalCities : Rank(c) \in DOMAIN Royal /\ Royal[Rank(c)] = c
  BY DEF Rank, RoyalCities
<1>2. DOMAIN Royal \subseteq Nat
  BY PlaceAssumption
<1>3. \A x \in S : rank[x] = Rank(x) /\ rank[x] \in Nat /\ Royal[rank[x]] = x
                   /\ price[x] = unit[x] /\ price[x] \in Nat
  BY <1>1, <1>2
<1> HIDE DEF rank, price
<1>4. \A x, y \in S : <<x, y>> \in R <=>
         price[x] < price[y] \/ (price[x] = price[y] /\ rank[x] < rank[y])
  BY <1>3
<1> HIDE DEF R
<1>5. IsFiniteSet(S)
  BY RoyalCitiesAreFinite, FS_Subset
<1>6. \A x \in S : <<x, x>> \notin R
  BY <1>3, <1>4
<1>7. \A x, y, z \in S : <<x, y>> \in R /\ <<y, z>> \in R => <<x, z>> \in R
  <2> SUFFICES ASSUME NEW x \in S, NEW y \in S, NEW z \in S, <<x, y>> \in R, <<y, z>> \in R
               PROVE  <<x, z>> \in R
    OBVIOUS
  <2>1. /\ price[x] < price[y] \/ (price[x] = price[y] /\ rank[x] < rank[y])
        /\ price[y] < price[z] \/ (price[y] = price[z] /\ rank[y] < rank[z])
    BY <1>4
  <2>2. price[x] < price[z] \/ (price[x] = price[z] /\ rank[x] < rank[z])
    BY <1>3, <2>1
  <2> QED
    BY <1>4, <2>2
<1>8. \A x, y \in S : x # y => <<x, y>> \in R \/ <<y, x>> \in R
  <2> SUFFICES ASSUME NEW x \in S, NEW y \in S, x # y PROVE <<x, y>> \in R \/ <<y, x>> \in R
    OBVIOUS
  <2>1. rank[x] # rank[y]
    BY <1>3
  <2> QED
    BY <1>3, <1>4, <2>1
<1>9. PICK x \in S : Cardinality({y \in S : <<y, x>> \in R}) = Cardinality(S) \div 2
  BY <1>5, <1>6, <1>7, <1>8, MiddleExists
<1>10. {y \in S : <<y, x>> \in R} =
         {y \in S : unit[y] < unit[x] \/ (unit[y] = unit[x] /\ Rank(y) < Rank(x))}
  BY <1>3, <1>4
<1> QED
  BY <1>9, <1>10

(* _get_enchant_material_price, by the case: live book, city, royal median. *)
LEMMA MaterialIsOffered ==
    ASSUME PricesTyped, LiveTyped, NEW m, IsEnchantMaterial(m), NEW n \in Batches, NEW c,
           NEW x \in Material(m, n, c)
    PROVE  x.price \in Nat /\ x.volume \in Nat /\ QuoteIsOffered(m, c, x)
<1>1. CASE LiveQuotes(m, c) # {}
  <2>1. /\ <<m, c>> \in DOMAIN live
        /\ x = Quote(live[<<m, c>>].price, 0, live[<<m, c>>].depth)
    BY <1>1 DEF Material, LiveQuotes
  <2>2. live[<<m, c>>].price \in Nat /\ live[<<m, c>>].depth \in Nat
    BY <2>1 DEF LiveTyped
  <2>3. x.price = live[<<m, c>>].price /\ x.volume = live[<<m, c>>].depth
    BY <2>1 DEF Quote
  <2> QED
    BY <2>1, <2>2, <2>3 DEF QuoteIsOffered
<1>2. CASE LiveQuotes(m, c) = {} /\ Offered(m, c, FullDay(m, c))
  <2>1. x = Quoted(m, c, n)
    BY <1>2 DEF Material
  <2> QED
    BY <1>2, <2>1, QuotedIsOffered DEF QuoteIsOffered
<1>3. CASE LiveQuotes(m, c) = {} /\ ~Offered(m, c, FullDay(m, c))
  <2> DEFINE S == RoyalOffers(m)
             unit == [y \in S |-> Quoted(m, y, n).price]
             before(y) == {z \in S : unit[z] < unit[y] \/ (unit[z] = unit[y] /\ Rank(z) < Rank(y))}
             there == CHOOSE y \in S : Cardinality(before(y)) = Cardinality(S) \div 2
  <2>1. S # {}
    BY <1>3 DEF Material
  <2>2. \A y \in S : /\ Quoted(m, y, n).price \in Nat /\ Quoted(m, y, n).volume \in Nat
                     /\ 0 < Ask(m, y, 1) /\ Ask(m, y, 1) <= Quoted(m, y, n).price
    BY QuotedIsOffered DEF RoyalOffers
  <2>3. S \in SUBSET RoyalCities /\ \A y \in S : unit[y] \in Nat
    BY <2>2 DEF RoyalOffers
  <2>4. x = Quote(IF c = Caerleon THEN Rounded(11 * Quoted(m, there, n).price, 10)
                  ELSE Quoted(m, there, n).price,
                  Quoted(m, there, n).age, Quoted(m, there, n).volume)
    BY <1>3, <2>1 DEF Material
  <2> HIDE DEF unit
  <2>5. there \in S
    <3>1. \E y \in S : Cardinality(before(y)) = Cardinality(S) \div 2
      BY <2>1, <2>3, MiddleCity
    <3> QED
      BY <3>1
  <2> HIDE DEF there, S
  <2>6. x.price = (IF c = Caerleon THEN Rounded(11 * Quoted(m, there, n).price, 10)
                   ELSE Quoted(m, there, n).price)
        /\ x.volume = Quoted(m, there, n).volume
    BY <2>4 DEF Quote
  <2>7. \A p \in Nat : Rounded(11 * p, 10) \in Nat /\ p <= Rounded(11 * p, 10)
    BY DEF Rounded
  <2>8. /\ x.price \in Nat /\ x.volume \in Nat
        /\ Quoted(m, there, n).price <= x.price
    BY <2>2, <2>5, <2>6, <2>7
  <2>9. there \in RoyalCities /\ 0 < Ask(m, there, 1) /\ Ask(m, there, 1) <= x.price
    <3>1. Ask(m, there, 1) \in Nat
      BY OffersAreNumbers
    <3> QED
      BY <2>2, <2>3, <2>5, <2>8, <3>1
  <2> QED
    BY <2>8, <2>9 DEF QuoteIsOffered
<1> QED
  BY <1>1, <1>2, <1>3

(* A step of enchantment takes a material with a range of prices. *)
LEMMA EnchantMaterials ==
    ASSUME NEW tier \in 4..8, NEW step \in 1..3
    PROVE  /\ IsEnchantMaterial(EnchantMaterial(tier, step))
           /\ EnchantMaterial(tier, step).class = "enchant_material"
<1>1. <<"RUNE", "SOUL", "RELIC">>[step] \in {"RUNE", "SOUL", "RELIC"}
  <2>1. step = 1 \/ step = 2 \/ step = 3
    OBVIOUS
  <2> QED
    BY <2>1
<1> QED
  BY <1>1 DEF IsEnchantMaterial, EnchantMaterial

(* What is paid for enchantment materials is offered, with the slippage on top. *)
Sourced(p) ==
    \/ InLiveBook(p) \/ OfferedIn(p, {p.city})
    \/ p.item.class = "enchant_material" /\ OfferedIn(p, RoyalCities)

(* What a batch of a material is paid is no less than its quote: slippage adds to it. *)
LEMMA BoughtIsOffered ==
    ASSUME PricesTyped, LiveTyped, NEW m, IsEnchantMaterial(m), m.class = "enchant_material",
           NEW n \in Batches, NEW c, NEW p \in Bought(m, n, c, Material(m, n, c))
    PROVE  Sourced(p)
<1>1. PICK x \in Material(m, n, c) : p = Purchase(m, n, c, 1, Slipped(x.price, n, x.volume), x.age)
  BY DEF Bought
<1> DEFINE price == Slipped(x.price, n, x.volume)
<1>2. x.price \in Nat /\ x.volume \in Nat /\ QuoteIsOffered(m, c, x)
  BY MaterialIsOffered
<1>3. price \in Nat /\ x.price <= price
  <2>1. n \in Nat
    BY DEF Batches
  <2> QED
    BY <1>2, <2>1, SlippedIsNotCheaper
<1> HIDE DEF price
<1>4. p = Purchase(m, n, c, 1, price, x.age)
  BY <1>1 DEF price
<1>5. p.item = m /\ p.city = c /\ p.price = price
  BY <1>4 DEF Purchase
<1>6. CASE <<m, c>> \in DOMAIN live /\ live[<<m, c>>].price <= x.price
  <2>1. live[<<m, c>>].price \in Nat
    BY <1>6 DEF LiveTyped
  <2>2. live[<<m, c>>].price <= price
    BY <1>2, <1>3, <1>6, <2>1
  <2> QED
    BY <1>5, <1>6, <2>2 DEF Sourced, InLiveBook
<1>7. CASE \E d \in {c} \cup RoyalCities : 0 < Ask(m, d, 1) /\ Ask(m, d, 1) <= x.price
  <2>1. PICK d \in {c} \cup RoyalCities : 0 < Ask(m, d, 1) /\ Ask(m, d, 1) <= x.price
    BY <1>7
  <2>2. Ask(m, d, 1) <= price /\ 1 \in Qualities
    BY <1>2, <1>3, <2>1, OffersAreNumbers, ThresholdAssumption
  <2>3. \A cities : d \in cities => OfferedIn(p, cities)
    BY <1>3, <1>4, <2>1, <2>2, PurchaseOfOffer
  <2> QED
    BY <1>5, <2>3 DEF Sourced
<1> QED
  BY <1>2, <1>6, <1>7 DEF QuoteIsOffered

(* The base of an enchantment is taken at its offer or, far below the median of   *)
(* the royal cities, at that.                                                  *)
LEMMA BaseIsOffered ==
    ASSUME PricesTyped, NEW i, NEW c, NEW q, NEW p \in Bases(i, c, q)
    PROVE  OfferedIn(p, {p.city}) /\ OfferedIn(Anchored(p, q), {Anchored(p, q).city})
<1>1. PICK x \in Qualities : Usable(i, c, x) /\ p = Purchase(i, 1, c, x, Ask(i, c, x), Age(i, c, x))
  BY DEF Bases
<1>2. 0 < Ask(i, c, x) /\ Ask(i, c, x) \in Nat /\ p.city = c /\ p.price = Ask(i, c, x) /\ p.item = i
  BY <1>1, OffersAreNumbers DEF Usable, Purchase
<1>3. c \in {c} /\ Ask(i, c, x) <= Ask(i, c, x)
  BY <1>2
<1>4. OfferedIn(p, {c})
  BY <1>1, <1>2, <1>3, PurchaseOfOffer, Zenon
<1> DEFINE median == RoyalMedian(i, q)
<1>5. median \in Nat
  BY RoyalMedianIsANumber
<1>6. Anchored(p, q) = p \/ (/\ 5 * Ask(i, c, x) < 2 * median
                             /\ Anchored(p, q) = Purchase(i, 1, c, x, median, Age(i, c, x)))
  <2>1. [p EXCEPT !.price = median] = Purchase(i, 1, c, x, median, Age(i, c, x))
    BY <1>1 DEF Purchase
  <2>2. Anchored(p, q) = IF 5 * p.price < 2 * median THEN [p EXCEPT !.price = median] ELSE p
    BY <1>2 DEF Anchored
  <2> QED
    BY <1>2, <2>1, <2>2
<1> HIDE DEF median
<1>7. CASE Anchored(p, q) = p
  BY <1>2, <1>4, <1>7
<1>8. CASE /\ 5 * Ask(i, c, x) < 2 * median
           /\ Anchored(p, q) = Purchase(i, 1, c, x, median, Age(i, c, x))
  <2>1. Ask(i, c, x) <= median
    BY <1>2, <1>5, <1>8
  <2>2. Anchored(p, q).city = c
    BY <1>8 DEF Purchase
  <2>3. OfferedIn(Anchored(p, q), {c})
    BY <1>2, <1>3, <1>5, <1>8, <2>1, PurchaseOfOffer
  <2> QED
    BY <1>2, <1>4, <2>2, <2>3
<1> QED
  BY <1>6, <1>7, <1>8

(* What an island is stocked with is offered there or in a royal city. *)
LEMMA BroughtIsOffered ==
    ASSUME PricesTyped, NEW i, NEW n, NEW host, NEW p \in Brought(i, n, host)
    PROVE  OfferedIn(p, {p.city}) \/ OfferedIn(p, RoyalCities)
<1> DEFINE listing == {c \in RoyalCities : Ask(i, c, 1) > 0}
           from == IF Ask(i, host, 1) > 0 THEN host ELSE First(listing)
<1>1. /\ ~(Ask(i, host, 1) = 0 /\ listing = {})
      /\ p = Purchase(i, n, host, 1, Ask(i, from, 1), Age(i, from, 1))
  BY DEF Brought
<1>2. \A c : Ask(i, c, 1) \in Nat
  BY OffersAreNumbers
<1>3. 1 \in Qualities /\ p.city = host
  BY <1>1, ThresholdAssumption DEF Purchase
<1>4. CASE Ask(i, host, 1) > 0
  <2>1. p = Purchase(i, n, host, 1, Ask(i, host, 1), Age(i, host, 1))
    BY <1>1, <1>4
  <2>2. 0 < Ask(i, host, 1) /\ Ask(i, host, 1) <= Ask(i, host, 1) /\ host \in {host}
    BY <1>2, <1>4
  <2>3. OfferedIn(p, {host})
    BY <1>2, <1>3, <2>1, <2>2, PurchaseOfOffer
  <2> QED
    BY <1>3, <2>3
<1>5. CASE ~(Ask(i, host, 1) > 0)
  <2>1. listing # {} /\ listing \subseteq RoyalCities
    BY <1>1, <1>2, <1>5
  <2>2. from \in listing
    BY <1>5, <2>1, FirstIsThere
  <2>3. from \in RoyalCities /\ 0 < Ask(i, from, 1) /\ Ask(i, from, 1) <= Ask(i, from, 1)
    BY <1>2, <2>2
  <2> HIDE DEF from, listing
  <2> QED
    BY <1>1, <1>2, <1>3, <2>3, PurchaseOfOffer
<1> QED
  BY <1>4, <1>5
----------------------------------------------------------------------------
(* What is said of an opportunity, by its kind: *)

MadeKinds ==
    {"craft", "refine", "enchant", "enchant_order", "transmute", "plant", "livestock", "mount",
     "home_brew", "brew"}

(* a flip is filled with the cheapest goods of the quality wanted or better, *)
FillsCheaply(o) ==
    /\ o.quality \in Qualities /\ Fillers(o.quality) # {}
    /\ o.buy_price = BestPrice(Item, Filler(o.quality))

(* what goods are made of is reckoned at no less than an offer, *)
PaysOffers(o) ==
    \A p \in o.bought :
        \/ InLiveBook(p) \/ OfferedIn(p, {p.city})
        \/ FromElsewhere(o, p) /\ OfferedIn(p, RoyalCities)

Sound(o) ==
    /\ o.kind = "flip" => FillsCheaply(o)
    /\ o.kind \in MadeKinds => PaysOffers(o)

(* scan_b_arbitrage, and the scans that make nothing. *)
LEMMA TradesAreSound ==
    /\ \A o \in Flips : Sound(o)
    /\ \A o \in Arbitrages : Sound(o)
    /\ \A o \in Inversions : Sound(o)
    /\ \A cities : \A o \in Makings(cities) : Sound(o)
<1>1. ASSUME NEW o \in Flips PROVE Sound(o)
  <2>1. PICK q \in Qualities : IsFlip(q) /\
          o = Opportunity("flip", BestCity(Item, Filler(q)), Filler(q), BlackMarket, q,
                          BestPrice(Item, Filler(q)), BidOf(BlackMarket, q), FlipNet(q))
    BY DEF Flips
  <2>2. o.kind = "flip" /\ o.quality = q /\ o.buy_price = BestPrice(Item, Filler(q))
    BY <2>1 DEF Opportunity
  <2>3. Fillers(q) # {}
    BY <2>1 DEF IsFlip
  <2> QED
    BY <2>2, <2>3 DEF Sound, FillsCheaply, MadeKinds
<1>2. \A o \in Arbitrages : o.kind = "arbitrage"
  BY DEF Arbitrages, Opportunity
<1>3. \A o \in Inversions : o.kind \in {"relisting", "fill"}
  BY DEF Inversions, Opportunity
<1>4. \A cities : \A o \in Makings(cities) : o.kind = "making"
  BY DEF Makings, Opportunity
<1> QED
  BY <1>1, <1>2, <1>3, <1>4 DEF Sound, MadeKinds

(* scan_crafting *)
LEMMA CraftsAreSound ==
    ASSUME PricesTyped, NEW o \in ScanCrafting
    PROVE  Sound(o)
<1>1. PICK i \in DOMAIN Recipes : o \in Craftings(i)
  BY DEF ScanCrafting
<1> DEFINE bought == Materials(Recipes[i], CraftingCity(i), CraftLocally)
<1>2. o \in Crafted(i, CraftingCity(i), bought)
  BY <1>1 DEF Craftings
<1>3. o.kind = "craft" /\ o.bought = bought
  <2> HIDE DEF bought
  <2> QED
    BY <1>2 DEF Crafted, Product
<1>4. DOMAIN Recipes[i] \subseteq Items
  BY IngredientAssumption
<1>5. \A p \in bought : OfferedIn(p, {p.city})
  BY <1>4, MaterialsAreOffered, Zenon
<1>6. PaysOffers(o)
  BY <1>3, <1>5, Zenon DEF PaysOffers
<1> QED
  BY <1>3, <1>6 DEF Sound

(* scan_refining *)
LEMMA RefiningsAreSound ==
    ASSUME PricesTyped, NEW o \in ScanRefining
    PROVE  Sound(o)
<1>1. PICK i \in DOMAIN RefiningRecipes : o \in Refinings(i)
  BY DEF ScanRefining
<1> DEFINE recipe == RefiningRecipes[i]
           refining == RefiningCityOf(i)
           multi == MultiSourced(recipe, refining)
<1>2. PICK s \in Sourcings(i) : o \in RefinedFrom(i, s[1], s[2])
  BY <1>1 DEF Refinings
<1>3. \/ \E c : s[1] = SingleSourced(recipe, c) /\ s[2] = c
      \/ s[1] = multi /\ s[2] = BuyCity(multi, refining)
  BY DEF Sourcings
<1>4. o.kind = "refine" /\ o.bought = s[1]
  BY <1>2 DEF RefinedFrom, Product
<1>5. PaysOffers(o)
  <2>1. \A c : \A p \in SingleSourced(recipe, c) : p.city = c /\ OfferedIn(p, {p.city})
    BY SingleSourcedIsOffered, Zenon
  <2>2. \A p \in multi : OfferedIn(p, {p.city})
    BY MultiSourcedIsOffered, Zenon
  <2> HIDE DEF multi, recipe
  <2>3. \A p \in s[1] : OfferedIn(p, {p.city})
    BY <1>3, <2>1, <2>2, Zenon
  <2> QED
    BY <1>4, <2>3, Zenon DEF PaysOffers
<1> QED
  BY <1>4, <1>5 DEF Sound

(* An item that is enchanted has a tier and an enchantment that materials are for. *)
LEMMA EnchantableItems ==
    ASSUME NEW i \in Enchantable
    PROVE  i.tier \in 4..8 /\ i.enchant \in 1..4
BY RecipeAssumption, ItemAssumption

(* scan_b_enchanting *)
LEMMA UsedIsOffered ==
    ASSUME PricesTyped, LiveTyped, NEW i, i.tier \in 4..8, NEW steps, steps \subseteq 1..3,
           NEW p \in UsedFor(i, steps)
    PROVE  Sourced(p)
<1>1. PICK s \in steps :
        p \in Bought(EnchantMaterial(i.tier, s), EnchantQuantity(i), Caerleon,
                     Material(EnchantMaterial(i.tier, s), EnchantQuantity(i), Caerleon))
  BY Zenon DEF UsedFor
<1>2. /\ IsEnchantMaterial(EnchantMaterial(i.tier, s))
      /\ EnchantMaterial(i.tier, s).class = "enchant_material"
  BY EnchantMaterials
<1>3. EnchantQuantity(i) \in Batches
  BY BatchesAreEnchanted
<1> QED
  BY <1>1, <1>2, <1>3, BoughtIsOffered, Zenon

(* scan_b_enchanting: the base is bought in Caerleon, and so are the materials. *)
LEMMA OrdersAreSound ==
    ASSUME PricesTyped, LiveTyped, NEW o \in ScanBEnchanting
    PROVE  Sound(o)
<1>1. PICK i \in Enchantable, q \in Qualities, e \in 0..2 :
        e < i.enchant /\ i.enchant <= 3 /\ o \in EnchantedForOrder(i, q, e)
  <2>1. PICK r \in {x \in Enchantable \X Qualities \X (0..2) :
                      x[3] < x[1].enchant /\ x[1].enchant <= 3 /\ Ordered(x[1], x[2])} :
          o \in EnchantedForOrder(r[1], r[2], r[3])
    BY Zenon DEF ScanBEnchanting
  <2>2. r[1] \in Enchantable /\ r[2] \in Qualities /\ r[3] \in 0..2 /\ r[3] < r[1].enchant /\ r[1].enchant <= 3
    BY <2>1
  <2> QED
    BY <2>1, <2>2, Zenon
<1> DEFINE base == Bases(Plain(i, e), Caerleon, q)
           used == UsedFor(i, (e + 1)..i.enchant)
<1>2. o \in WorkedForOrder(i, q, base, used)
  BY <1>1 DEF EnchantedForOrder
<1>3. i.tier \in 4..8 /\ (e + 1)..i.enchant \subseteq 1..3
  BY <1>1, EnchantableItems
<1>4. \A p \in used : Sourced(p)
  BY <1>3, UsedIsOffered, Zenon
<1>5. \A p \in base : OfferedIn(p, {p.city})
  BY BaseIsOffered, Zenon
<1> HIDE DEF base, used
<1>6. o.kind = "enchant_order" /\ o.bought = base \cup used
  BY <1>2 DEF WorkedForOrder, Product
<1>7. PaysOffers(o)
  BY <1>4, <1>5, <1>6, Zenon DEF PaysOffers, Sourced, FromElsewhere
<1> QED
  BY <1>6, <1>7 DEF Sound

(* scan_enchanting *)
LEMMA EnchantmentsAreSound ==
    ASSUME PricesTyped, LiveTyped, NEW o \in ScanEnchanting
    PROVE  Sound(o)
<1>1. PICK i \in Enchantable, c \in RoyalCities, q \in Qualities :
        i.enchant <= 3 /\ o \in EnchantedInCity(i, c, q)
  <2>1. PICK r \in {x \in Enchantable \X RoyalCities \X Qualities :
                      x[1].enchant <= 3 /\ Usable(x[1], x[2], x[3])} :
          o \in EnchantedInCity(r[1], r[2], r[3])
    BY Zenon DEF ScanEnchanting
  <2>2. r[1] \in Enchantable /\ r[2] \in RoyalCities /\ r[3] \in Qualities /\ r[1].enchant <= 3
    BY <2>1
  <2> QED
    BY <2>1, <2>2, Zenon
<1> DEFINE m == EnchantMaterial(i.tier, i.enchant)
           base == {Anchored(p, q) : p \in Bases(Plain(i, i.enchant - 1), c, q)}
           quotes == Material(m, EnchantQuantity(i), c)
           used == Bought(m, EnchantQuantity(i), c, quotes)
<1>2. o \in WorkedInCity(i, c, q, base, quotes)
  BY <1>1, Zenon DEF EnchantedInCity
<1>3. IsEnchantMaterial(m) /\ m.class = "enchant_material"
  <2>1. i.tier \in 4..8 /\ i.enchant \in 1..3
    BY <1>1, EnchantableItems
  <2> QED
    BY <2>1, EnchantMaterials
<1>4. EnchantQuantity(i) \in Batches
  BY BatchesAreEnchanted
<1> HIDE DEF m
<1>5. \A p \in used : Sourced(p)
  BY <1>3, <1>4, BoughtIsOffered, Zenon
<1>6. \A p \in base : OfferedIn(p, {p.city})
  <2>1. \A p \in Bases(Plain(i, i.enchant - 1), c, q) :
           OfferedIn(Anchored(p, q), {Anchored(p, q).city})
    BY BaseIsOffered, Zenon
  <2> QED
    BY <2>1, Zenon
<1>7. o \in WorkedInCity(i, c, q, base, quotes) =>
        o.kind = "enchant" /\ o.bought = base \cup used
  <2> HIDE DEF base, quotes
  <2> QED
    BY DEF WorkedInCity, Product, m
<1> HIDE DEF base, used, quotes
<1>8. PaysOffers(o)
  BY <1>2, <1>5, <1>6, <1>7, Zenon DEF PaysOffers, Sourced, FromElsewhere
<1> QED
  BY <1>2, <1>7, <1>8 DEF Sound

(* scan_transmutation *)
LEMMA TransmutationsAreSound ==
    ASSUME PricesTyped, NEW o \in ScanTransmutation
    PROVE  Sound(o)
<1>1. \E i, x, fee, c : o \in Transmuted(i, x, fee, c)
  <2>1. \E r : o \in Transmuted(r[1], r[2][1], r[2][2], r[3])
    BY Zenon DEF ScanTransmutation
  <2> QED
    BY <2>1, Zenon
<1>2. PICK i, x, fee, c : o \in Transmuted(i, x, fee, c)
  BY <1>1
<1> DEFINE p == Purchase(x, 1, c, 1, Ask(x, c, 1), Age(x, c, 1))
<1>3. Usable(x, c, 1) /\ o.kind = "transmute" /\ o.bought = {p}
  BY <1>2 DEF Transmuted, Product
<1>4. p.city = c
  BY DEF Purchase
<1>5. 0 < Ask(x, c, 1) /\ Ask(x, c, 1) \in Nat /\ Ask(x, c, 1) <= Ask(x, c, 1) /\ c \in {c}
  BY <1>3, OffersAreNumbers DEF Usable
<1>6. OfferedIn(p, {c})
  BY <1>5, ThresholdAssumption, PurchaseOfOffer
<1> HIDE DEF p
<1>7. PaysOffers(o)
  BY <1>3, <1>4, <1>6 DEF PaysOffers
<1> QED
  BY <1>3, <1>7 DEF Sound

(* scan_island: what grows comes from a seed or a young animal, a saddle besides,  *)
(* and what is cooked or brewed at home from ingredients.                      *)
LEMMA GrowthsAreSound ==
    ASSUME PricesTyped, NEW host
    PROVE  /\ \A x : \A o \in Planted(x, host) : Sound(o)
           /\ \A x : \A o \in Slaughtered(x, host) : Sound(o)
           /\ \A x : \A o \in Milked(x, host) : Sound(o)
           /\ \A x : \A o \in Raised(x, host) : Sound(o)
<1>1. \A i, n : \A p \in Brought(i, n, host) : OfferedIn(p, {p.city}) \/ OfferedIn(p, RoyalCities)
  BY BroughtIsOffered, Zenon
<1>2. ASSUME NEW o, o.kind \in {"plant", "livestock", "mount"},
             \A p \in o.bought : \E i, n : p \in Brought(i, n, host)
      PROVE  Sound(o)
  <2>1. PaysOffers(o)
    BY <1>1, <1>2, Zenon DEF PaysOffers, FromElsewhere
  <2> QED
    BY <1>2, <2>1 DEF Sound
<1>3. ASSUME NEW x, NEW o \in Planted(x, host) PROVE Sound(o)
  <2>1. o.kind = "plant" /\ \E p \in Brought(x.seed, 1, host) : o.bought = {p}
    BY DEF Planted, Product
  <2> QED
    BY <1>2, <2>1
<1>4. ASSUME NEW x, NEW o \in Slaughtered(x, host) PROVE Sound(o)
  <2>1. o.kind = "livestock" /\ \E p \in Brought(x.baby, 1, host) : o.bought = {p}
    BY SlaughteredKind
  <2> QED
    BY <1>2, <2>1
<1>5. ASSUME NEW x, NEW o \in Milked(x, host) PROVE Sound(o)
  <2>1. o.kind = "produce"
    BY DEF Milked, Product
  <2> QED
    BY <2>1 DEF Sound, MadeKinds
<1>6. ASSUME NEW x, NEW o \in Raised(x, host) PROVE Sound(o)
  BY <1>2, RaisedKind
<1> QED
  BY <1>3, <1>4, <1>5, <1>6

(* Potions and meals, made at home or elsewhere, are made of offered ingredients. *)
LEMMA BrewsAreSound ==
    ASSUME PricesTyped, NEW i \in DOMAIN Brews
    PROVE  /\ \A host : \A o \in BrewedAtHome(i, host) : Sound(o)
           /\ \A kitchen : \A o \in Brewed(i, kitchen) : Sound(o)
<1>1. DOMAIN Brews[i] \subseteq Items
  BY IslandAssumption
<1>2. \A c, l : \A p \in Materials(Brews[i], c, l) : OfferedIn(p, {p.city})
  BY <1>1, MaterialsAreOffered, Zenon
<1>3. ASSUME NEW o, o.kind \in {"home_brew", "brew"}, \A p \in o.bought : OfferedIn(p, {p.city})
      PROVE  Sound(o)
  <2>1. PaysOffers(o)
    BY <1>3, Zenon DEF PaysOffers
  <2> QED
    BY <1>3, <2>1 DEF Sound
<1>4. ASSUME NEW host, NEW o \in BrewedAtHome(i, host) PROVE Sound(o)
  <2> DEFINE bought == Materials(Brews[i], host, IslandLocally)
  <2>1. o \in HomeBrews(i, host, bought)
    BY DEF BrewedAtHome
  <2> HIDE DEF bought
  <2>2. o.kind = "home_brew" /\ o.bought = bought
    BY <2>1 DEF HomeBrews, Product
  <2>3. \A p \in bought : OfferedIn(p, {p.city})
    BY <1>2, Zenon DEF bought
  <2> QED
    BY <1>3, <2>2, <2>3
<1>5. ASSUME NEW kitchen, NEW o \in Brewed(i, kitchen) PROVE Sound(o)
  <2>1. o.kind = "brew" /\ o.bought = Materials(Brews[i], kitchen[2], FALSE)
    BY BrewedKind, Zenon
  <2>2. o.kind = "brew"
    BY <2>1, Zenon
  <2>3. \A p \in o.bought : OfferedIn(p, {p.city})
    BY <1>2, <2>1, Zenon
  <2> QED
    BY <1>3, <2>2, <2>3
<1> QED
  BY <1>4, <1>5

(* scan_island and scan_consumables *)
LEMMA IslandsAreSound ==
    ASSUME PricesTyped
    PROVE  /\ \A o \in ScanIsland : Sound(o)
           /\ \A o \in ScanConsumables : Sound(o)
<1>1. ASSUME NEW o \in ScanIsland PROVE Sound(o)
  <2> DEFINE plants == UNION {Planted(r[1], r[2]) : r \in Plants \X Hosts}
             animals == UNION {Slaughtered(r[1], r[2]) \cup Milked(r[1], r[2]) : r \in Animals \X Hosts}
             mounts == UNION {Raised(r[1], r[2]) : r \in Mounts \X Hosts}
             brews == UNION {BrewedAtHome(r[1], r[2]) : r \in (DOMAIN Brews) \X Hosts}
  <2>1. o \in plants \cup animals \cup mounts \cup brews
    BY Zenon DEF ScanIsland
  <2>2. \A x \in plants : Sound(x)
    BY GrowthsAreSound, Zenon
  <2>3. \A x \in animals : Sound(x)
    BY GrowthsAreSound, Zenon
  <2>4. \A x \in mounts : Sound(x)
    BY GrowthsAreSound, Zenon
  <2>5. \A x \in brews : Sound(x)
    <3>1. \A r \in (DOMAIN Brews) \X Hosts : r[1] \in DOMAIN Brews
      OBVIOUS
    <3> QED
      BY <3>1, BrewsAreSound, Zenon
  <2> HIDE DEF plants, animals, mounts, brews
  <2> QED
    BY <2>1, <2>2, <2>3, <2>4, <2>5
<1>2. ASSUME NEW o \in ScanConsumables PROVE Sound(o)
  <2>1. PICK i \in DOMAIN Brews : \E r \in {i} \X Kitchens(i) : o \in Brewed(r[1], r[2])
    BY Zenon DEF ScanConsumables
  <2>2. \A r \in {i} \X Kitchens(i) : r[1] = i
    OBVIOUS
  <2>3. \E kitchen : o \in Brewed(i, kitchen)
    BY <2>1, <2>2, Zenon
  <2> QED
    BY <2>3, BrewsAreSound, Zenon
<1> QED
  BY <1>1, <1>2
----------------------------------------------------------------------------
(* What was found stays true of the prices of the pass, and a pass that has none *)
(* finds nothing that has to be paid for.                                      *)
GoodsInv ==
    /\ PricesTyped /\ LiveTyped
    /\ DOMAIN prices = {} => DOMAIN live = {}
    /\ \A o \in found : Sound(o)

(* As long as the prices of a pass stay, what is sound stays so. *)
LEMMA SamePricesSameGoods ==
    ASSUME prices' = prices, live' = live, NEW o, Sound(o)
    PROVE  Sound(o)'
<1>1. \A i, c, q : RowOf(i, c, q)' = RowOf(i, c, q)
  BY Zenon DEF RowOf
<1>2. \A i, c, q : Ask(i, c, q)' = Ask(i, c, q) /\ Bid(i, c, q)' = Bid(i, c, q)
                   /\ Age(i, c, q)' = Age(i, c, q)
  BY <1>1, Zenon DEF Ask, Bid, Age
<1>3. \A i, q : RoyalPrices(i, q)' = RoyalPrices(i, q)
  BY Zenon DEF RoyalPrices, RowOf
<1>4. \A i, q : Buyable(i, q)' = Buyable(i, q)
  BY <1>2, <1>3 DEF Buyable
<1>5. \A i, q : BestPrice(i, q)' = BestPrice(i, q)
  BY <1>3, <1>4 DEF BestPrice
<1>6. \A q : Fillers(q)' = Fillers(q)
  BY <1>4 DEF Fillers
<1>7. \A q : Filler(q)' = Filler(q)
  BY <1>5, <1>6 DEF Filler
<1>8. FillsCheaply(o)' <=> FillsCheaply(o)
  BY <1>5, <1>6, <1>7 DEF FillsCheaply
<1>9. \A p, cities : OfferedIn(p, cities)' <=> OfferedIn(p, cities)
  BY <1>2 DEF OfferedIn
<1>10. PaysOffers(o)' <=> PaysOffers(o)
  BY <1>9 DEF PaysOffers, InLiveBook, FromElsewhere
<1> QED
  BY <1>8, <1>10 DEF Sound

(* A scan that adds only sound opportunities keeps the invariant, *)
LEMMA RunKeepsGoods ==
    ASSUME GoodsInv, NEW scan, NEW S, Run(scan, S), \A o \in S : Sound(o)
    PROVE  GoodsInv'
<1>1. prices' = prices /\ live' = live /\ found' = found \cup S
  BY DEF Run
<1>2. \A o \in found' : Sound(o)
  BY <1>1 DEF GoodsInv
<1>3. \A o : Sound(o) => Sound(o)'
  BY <1>1, SamePricesSameGoods
<1> QED
  BY <1>1, <1>2, <1>3 DEF GoodsInv, PricesTyped, LiveTyped

(* and so does one that keeps the best of what it found. *)
LEMMA ChoiceKeepsGoods ==
    ASSUME GoodsInv, NEW scan, NEW S, RunAndChoose(scan, S), \A o \in S : Sound(o)
    PROVE  GoodsInv'
<1>1. PICK best \in Kept(S) : Run(scan, best)
  BY DEF RunAndChoose
<1> QED
  BY <1>1, KeptAreCandidates, RunKeepsGoods

(* Without prices nothing is bought, so that what is sound stays so at any. *)
LEMMA NothingIsBought ==
    ASSUME DOMAIN prices = {}, DOMAIN live = {}, NEW o, Sound(o)
    PROVE  Sound(o)'
<1>1. \A i, c, q : Ask(i, c, q) = 0
  BY DEF Ask, RowOf, Blank
<1>2. \A p, cities : ~OfferedIn(p, cities)
  BY <1>1 DEF OfferedIn
<1>3. \A p : ~InLiveBook(p)
  BY DEF InLiveBook
<1>4. o.kind \in MadeKinds => o.bought = {}
  BY <1>2, <1>3 DEF Sound, PaysOffers
<1>5. o.kind # "flip"
  BY <1>1 DEF Sound, FillsCheaply, Fillers, Buyable
<1>6. o.kind \in MadeKinds => PaysOffers(o)'
  BY <1>4 DEF PaysOffers
<1> QED
  BY <1>5, <1>6 DEF Sound

(* Every step keeps the invariant, the load of the prices because there were none. *)
LEMMA GoodsStep ==
    ASSUME GoodsInv, [Next]_vars
    PROVE  GoodsInv'
<1> USE DEF GoodsInv
<1>1. CASE LoadPrices
  <2>1. DOMAIN prices = {}
    BY <1>1 DEF LoadPrices, Nothing
  <2>2. \A o \in found : Sound(o)'
    BY <2>1, NothingIsBought
  <2>3. found' = found /\ \E s \in Scanned : prices' = s[1] /\ live' = s[2]
    BY <1>1 DEF LoadPrices
  <2>4. PricesTyped' /\ LiveTyped' /\ (DOMAIN prices' = {} => DOMAIN live' = {})
    BY <2>3, ScanAssumption DEF PricesTyped, LiveTyped
  <2> QED
    BY <2>2, <2>3, <2>4
<1>2. CASE Return
  BY <1>2 DEF Return, Nothing, NoLive, PricesTyped, LiveTyped
<1>3. CASE Flip
  BY <1>3, TradesAreSound, RunKeepsGoods DEF Flip
<1>4. CASE Arbitrage
  BY <1>4, TradesAreSound, RunKeepsGoods DEF Arbitrage
<1>5. CASE Invert
  BY <1>5, TradesAreSound, RunKeepsGoods DEF Invert
<1>6. CASE Make \/ MakeCaerleon
  BY <1>6, TradesAreSound, RunKeepsGoods DEF Make, MakeCaerleon
<1>7. CASE Transmute
  BY <1>7, TransmutationsAreSound, RunKeepsGoods DEF Transmute
<1>8. CASE BEnchant
  BY <1>8, OrdersAreSound, ChoiceKeepsGoods DEF BEnchant
<1>9. CASE Craft
  BY <1>9, CraftsAreSound, ChoiceKeepsGoods DEF Craft
<1>10. CASE Refine
  BY <1>10, RefiningsAreSound, ChoiceKeepsGoods DEF Refine
<1>11. CASE Enchant
  BY <1>11, EnchantmentsAreSound, ChoiceKeepsGoods DEF Enchant
<1>12. CASE Island
  BY <1>12, IslandsAreSound, ChoiceKeepsGoods DEF Island
<1>13. CASE Consume
  BY <1>13, IslandsAreSound, ChoiceKeepsGoods DEF Consume
<1>14. CASE UNCHANGED vars
  <2>1. prices' = prices /\ live' = live /\ found' = found
    BY <1>14 DEF vars
  <2> QED
    BY <2>1, SamePricesSameGoods DEF PricesTyped, LiveTyped
<1> QED
  BY <1>1, <1>2, <1>3, <1>4, <1>5, <1>6, <1>7, <1>8, <1>9, <1>10, <1>11, <1>12, <1>13, <1>14
  DEF Next

(* What is found is sound at the prices that were loaded. *)
LEMMA GoodsAreSound == Spec => []GoodsInv
<1>1. Init => GoodsInv
  BY DEF Init, Nothing, NoLive, GoodsInv, PricesTyped, LiveTyped
<1>2. GoodsInv /\ [Next]_vars => GoodsInv'
  BY GoodsStep
<1> QED
  BY <1>1, <1>2, PTL DEF Spec

(* An order of the Black Market for better goods never costs less to fill than  *)
(* one for worse: whatever may fill the first may fill the second as well, and   *)
(* each is filled with the cheapest there is.                                  *)
THEOREM BetterGoodsCostMore == Spec => []BetterCostsMore
<1>1. GoodsInv => BetterCostsMore
  <2> SUFFICES ASSUME GoodsInv, NEW o \in found, NEW p \in found, o.kind = "flip", p.kind = "flip",
                      o.quality < p.quality
               PROVE  o.buy_price <= p.buy_price
    BY DEF BetterCostsMore
  <2>1. FillsCheaply(o) /\ FillsCheaply(p)
    BY DEF GoodsInv, Sound
  <2> DEFINE q == o.quality
             r == p.quality
  <2>2. q \in Nat /\ r \in Nat /\ q < r /\ Fillers(r) # {}
    BY <2>1, ThresholdAssumption DEF FillsCheaply
  <2>3. Fillers(r) \subseteq Fillers(q)
    <3> HIDE DEF q, r
    <3>1. \A x \in Qualities : x \in Nat /\ (x >= r => x >= q)
      BY <2>2, ThresholdAssumption
    <3> QED
      BY <3>1, Zenon DEF Fillers
  <2>4. Filler(r) \in Fillers(q) /\ Fillers(q) # {}
    BY <2>1, <2>3, FillerIsCheapest DEF FillsCheaply, GoodsInv
  <2>5. BestPrice(Item, Filler(q)) <= BestPrice(Item, Filler(r))
    BY <2>4, FillerIsCheapest DEF GoodsInv
  <2> QED
    BY <2>1, <2>5 DEF FillsCheaply
<1> QED
  BY <1>1, GoodsAreSound, PTL

(* Whatever medians, outlier filters, floors, slippage and the depth of a batch  *)
(* make of the price of goods, no profit is reckoned from a price below the      *)
(* offers that were loaded.                                                    *)
THEOREM CostsAreOffered == Spec => []CostIsOffered
<1>1. GoodsInv => CostIsOffered
  BY DEF GoodsInv, CostIsOffered, Made, Sound, PaysOffers, MadeKinds
<1> QED
  BY <1>1, GoodsAreSound, PTL
=============================================================================
