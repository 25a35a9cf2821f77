-------------------------------- MODULE ScanAll --------------------------------
(***************************************************************************)
(* One pass of UnifiedScanner.scan_all (app/core/scanner_integration.py):    *)
(* the prices are loaded once, the scans of the engine run on them one after *)
(* the other, those of the Black Market only when they are asked for, and    *)
(* the lists go to the caller.                                               *)
(***************************************************************************)
EXTENDS Trading, Islands

CONSTANTS
    Scanned,    \* the dictionary and the live books of a pass, in pairs
    ScanBm      \* values of the argument scan_bm

ASSUME ScanAssumption ==
    /\ \A s \in Scanned :
          /\ DOMAIN s[1] \subseteq Items \X Places \X Qualities
          /\ \A k \in DOMAIN s[1] : s[1][k] \in Rows
    /\ \A s \in Scanned : \A k \in DOMAIN s[2] : s[2][k] \in [price : Nat, depth : Nat]
    /\ \A s \in Scanned : DOMAIN s[1] = {} => DOMAIN s[2] = {}   \* live prices are merged
    /\ ScanBm \subseteq BOOLEAN

VARIABLES
    pending,    \* the scans that have yet to run
    found       \* the opportunities of those that have

vars == <<prices, live, pending, found>>

BlackMarketScans == <<"flips", "b_enchanting", "caerleon_making">>

RoyalScans ==
    <<"crafting", "island", "arbitrage", "refining", "enchanting", "making",
      "transmutation", "inversions", "consumables">>

Nothing == [k \in {} |-> Blank]
NoLive == [k \in {} |-> 0]

Init ==
    /\ prices = Nothing /\ live = NoLive
    /\ pending = <<>>
    /\ found = {}

LoadPrices ==
    /\ pending = <<>> /\ prices = Nothing
    /\ \E s \in Scanned, bm \in ScanBm :
          /\ prices' = s[1] /\ live' = s[2]
          /\ pending' = (IF bm THEN BlackMarketScans ELSE <<>>) \o RoyalScans
    /\ UNCHANGED found

Run(scan, opportunities) ==
    /\ pending # <<>> /\ Head(pending) = scan
    /\ pending' = Tail(pending)
    /\ found' = found \cup opportunities
    /\ UNCHANGED <<prices, live>>

(* A scan that keeps the best of competing opportunities. *)
RunAndChoose(scan, candidates) == \E best \in Kept(candidates) : Run(scan, best)

Flip == Run("flips", Flips)
BEnchant == RunAndChoose("b_enchanting", ScanBEnchanting)
MakeCaerleon == Run("caerleon_making", Makings({Caerleon}))
Craft == RunAndChoose("crafting", ScanCrafting)
Island == RunAndChoose("island", ScanIsland)
Arbitrage == Run("arbitrage", Arbitrages)
Refine == RunAndChoose("refining", ScanRefining)
Enchant == RunAndChoose("enchanting", ScanEnchanting)
Make == Run("making", Makings(RoyalCities))
Transmute == Run("transmutation", ScanTransmutation)
Invert == Run("inversions", Inversions)
Consume == RunAndChoose("consumables", ScanConsumables)

(* The lists go to the caller. *)
Return ==
    /\ pending = <<>> /\ prices # Nothing
    /\ prices' = Nothing /\ live' = NoLive
    /\ found' = {}
    /\ UNCHANGED pending

Next ==
    \/ LoadPrices \/ Return
    \/ Flip \/ BEnchant \/ MakeCaerleon
    \/ Craft \/ Island \/ Arbitrage \/ Refine \/ Enchant \/ Make
    \/ Transmute \/ Invert \/ Consume

Spec == Init /\ [][Next]_vars

----------------------------------------------------------------------------
(* Properties *)

(* What is left when the goods are bought at the listed offer and handed to    *)
(* the listed request, at the prices that were loaded.                         *)
Realised(o) ==
    Proceeds(BidOf(o.sell_city, o.quality)) - 100 * AskOf(o.buy_city, o.buy_quality)

Covered(o) ==
    /\ AskOf(o.buy_city, o.buy_quality) > 0
    /\ o.buy_quality >= o.quality
    /\ 0 < o.net /\ o.net <= Realised(o)

(* A sale that fills a request at once: whatever the outlier filter made of    *)
(* the offers, the promised profit is positive and no more than the loaded     *)
(* offer and request yield, and the goods are at least of the quality wanted.  *)
NetIsCovered == \A o \in found : o.kind \in {"flip", "arbitrage", "fill"} => Covered(o)

(* In no city a request exceeds the cheapest offer. *)
Uncrossed ==
    \A c \in RoyalCities, q \in Qualities :
        AskOf(c, q) > 0 => BidOf(c, q) <= AskOf(c, q)

(* scan_arbitrage weighs every ordered pair of cities apart: it never sends    *)
(* goods both ways, unless some city's own book is crossed.                    *)
NoRoundTrip ==
    Uncrossed =>
        \A o, p \in found :
            /\ o.kind = "arbitrage" /\ p.kind = "arbitrage"
            /\ o.quality = p.quality
            => ~(o.buy_city = p.sell_city /\ o.sell_city = p.buy_city)

(* An order for better goods never costs less to fill than one for worse: any  *)
(* quality from the wanted one upwards may fill it.                            *)
BetterCostsMore ==
    \A o, p \in found :
        o.kind = "flip" /\ p.kind = "flip" /\ o.quality < p.quality =>
            o.buy_price <= p.buy_price

Made == {o \in found : o.kind \in {"craft", "refine", "enchant", "enchant_order", "transmute",
                                   "plant", "livestock", "mount", "home_brew", "brew"}}

(* The goods of a purchase, or better ones, are offered in one of some cities   *)
(* for no more than the price that is reckoned with.                           *)
OfferedIn(p, cities) ==
    \E c \in cities, q \in Qualities : q >= p.quality /\ Ask(p.item, c, q) \in 1..p.price

InLiveBook(p) == <<p.item, p.city>> \in DOMAIN live /\ live[<<p.item, p.city>>].price <= p.price

(* What an island is stocked with, and what enchants, is priced elsewhere if the *)
(* city shown has no offer of it that counts.                                  *)
FromElsewhere(o, p) ==
    o.kind \in {"plant", "livestock", "mount"} \/ p.item.class = "enchant_material"

(* Medians, outlier filters, floors and the depth of a batch change the price   *)
(* that is reckoned with, never to less than the goods are offered for: in the  *)
(* city that is shown or, for what is priced elsewhere, in a royal city.  The   *)
(* price of a batch in the live book is an offer as well.                      *)
CostIsOffered ==
    \A o \in Made : \A p \in o.bought :
        \/ InLiveBook(p) \/ OfferedIn(p, {p.city})
        \/ FromElsewhere(o, p) /\ OfferedIn(p, RoyalCities)
=============================================================================
