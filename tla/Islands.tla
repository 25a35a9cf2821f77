-------------------------------- MODULE Islands --------------------------------
(***************************************************************************)
(* The scans of OpportunityScanner (app/core/opportunity_engine.py) for      *)
(* personal islands - plants, livestock, mounts, kitchen and laboratory -    *)
(* and for potions and meals made anywhere.  What grows is bought in the     *)
(* city of the island, or where it is listed first; the age of these prices  *)
(* is not looked at.                                                         *)
(***************************************************************************)
EXTENDS Workshops

CONSTANTS
    Hosts,      \* the cities of the islands that are looked at
    Plants,     \* records: item, seed, yield of a square, percent of seeds returned
    Animals,    \* records: meat, produce, baby, their yields, feed a day, days, offspring
    Mounts,     \* records: item, baby, feed a day, days, diet, saddle
    Fodder,     \* the items that feed, by diet
    Biome,      \* percent by which the island of a city yields more of an item
    Brews,      \* the recipes of potions and meals
    IslandLocally,          \* settings.island_local_sourcing_only
    MinConsumableVolume     \* settings.anti_bait_min_volume_consumable, at least 3

ASSUME IslandAssumption ==
    /\ Hosts \subseteq RoyalCities \cup {Caerleon, Brecilien}
    /\ DOMAIN Brews \subseteq {i \in Items : i.line \in {"potion", "food"}}
    /\ \A i \in DOMAIN Brews : DOMAIN Brews[i] \subseteq Items

(* Of a seed, a young animal or saddling material: the offer of the city, else   *)
(* of the first royal city that has one.  The city shown is that of the island. *)
Brought(i, n, host) ==
    LET listing == {c \in RoyalCities : Ask(i, c, 1) > 0}
        c == IF Ask(i, host, 1) > 0 THEN host ELSE First(listing)
    IN  IF Ask(i, host, 1) = 0 /\ listing = {} THEN {}
        ELSE {Purchase(i, n, host, 1, Ask(i, c, 1), Age(i, c, 1))}

(* _get_cheapest_feed_price *)
FeedPrice(diet, host) ==
    LET listed == {i \in Fodder[diet] : Ask(i, host, 1) > 0}
    IN  IF listed = {} THEN 350 ELSE Min({Ask(i, host, 1) : i \in listed})

(* Nothing is offered at more than three and a half times the best request. *)
Anchors(i, c) == Bid(i, c, 1) > 0 => 2 * Ask(i, c, 1) <= 7 * Bid(i, c, 1)

SellsIn(i, c) == UsableInVolume(i, c, 1) /\ ~Thin(Volume(i, c, 1))

(* What n units of i bring, with the yield of the island; hundredths of silver. *)
Harvest(i, n, host, c) == (AfterListing(Ask(i, c, 1) * n) * (100 + Biome[host, i])) \div 100

IslandOf(host) == <<"island", host>>

----------------------------------------------------------------------------
(* _scan_crops_and_herbs *)

(* With focus more seeds may come back than were planted. *)
Planted(plant, host) ==
    UNION {
        LET net(c) == Harvest(plant.item, plant.yield, host, c) - p.price * (100 - plant.back)
        IN  {Product("plant", <<"plant", plant.item, host>>, plant.item, 1, {p}, IslandOf(host),
                     c, Ask(plant.item, c, 1), net(c)) :
                c \in {x \in RoyalCities :
                        SellsIn(plant.item, x) /\ Anchors(plant.item, x) /\ net(x) > 0}} :
        p \in Brought(plant.seed, 1, host)}

----------------------------------------------------------------------------
(* _scan_pasture_livestock *)

Upkeep(animal, host) == 100 * animal.feed * FeedPrice("crop", host)

(* Raised and slaughtered; the offspring is worth as many young animals. *)
Slaughtered(animal, host) ==
    UNION {
        LET cost == Max({0, p.price * (100 - animal.offspring)}) + animal.days * Upkeep(animal, host)
            net(c) == Harvest(animal.meat, animal.meat_yield, host, c) - cost
        IN  {Product("livestock", <<"livestock", animal.meat, host>>, animal.meat, 1, {p},
                     IslandOf(host), c, Ask(animal.meat, c, 1), net(c)) :
                c \in {x \in RoyalCities :
                        SellsIn(animal.meat, x) /\ Anchors(animal.meat, x) /\ net(x) > 0}} :
        p \in Brought(animal.baby, 1, host)}

(* Kept for its eggs or milk: a day's feed against a day's produce. *)
Milked(animal, host) ==
    LET net(c) == Harvest(animal.produce, animal.produce_yield, host, c) - Upkeep(animal, host)
    IN  IF animal.produce_yield = 0 \/ Brought(animal.baby, 1, host) = {} THEN {}
        ELSE {Product("produce", <<"produce", animal.produce, host>>, animal.produce, 1, {},
                      IslandOf(host), c, Ask(animal.produce, c, 1), net(c)) :
                 c \in {x \in RoyalCities : SellsIn(animal.produce, x) /\ net(x) > 0}}

----------------------------------------------------------------------------
(* _scan_mount_raising *)

Raised(mount, host) ==
    LET saddle == UNION {Brought(i, mount.saddle[i], host) : i \in DOMAIN mount.saddle}
        bought == Brought(mount.baby, 1, host) \cup saddle
        feed == mount.feed * mount.days * FeedPrice(mount.diet, host)
        net(c) == AfterListing(Ask(mount.item, c, 1)) - 100 * (Gross(bought) + feed)
    IN  IF Brought(mount.baby, 1, host) = {} \/ ~Complete(mount.saddle, saddle) THEN {}
        ELSE {Product("mount", <<"mount", mount.item, host>>, mount.item, 1, bought,
                      IslandOf(host), c, Ask(mount.item, c, 1), net(c)) :
                 c \in {x \in RoyalCities :
                         SellsIn(mount.item, x) /\ Anchors(mount.item, x) /\ net(x) > 0}}

----------------------------------------------------------------------------
(* _scan_island_cooking_and_alchemy and scan_consumables *)

BatchSize(i) == IF i.line = "potion" THEN 5 ELSE 10

SellingPlaces == RoyalCities \cup {Caerleon, Brecilien}

IslandRate == IF UseFocus THEN 3711 ELSE 0

BatchPays(net, gross, cost) ==
    /\ net >= 100 * 1000 \/ 10 * net >= 100 * MinCraftProfit
    /\ MarginAtLeast(net, gross, 500) /\ ReturnAtLeast(net, cost, MinRoi)

HomeBrews(i, host, bought) ==
    LET cost == Net(bought, IslandRate)
        net(c) == AfterListing(Ask(i, c, 1) * BatchSize(i)) - cost
    IN  {Product("home_brew", <<"home_brew", i, host>>, i, 1, bought, IslandOf(host), c,
                 Ask(i, c, 1), net(c)) :
            c \in {x \in SellingPlaces :
                    /\ Complete(Brews[i], bought) /\ SellsIn(i, x) /\ Anchors(i, x)
                    /\ BatchPays(net(x), Gross(bought), cost)}}

BrewedAtHome(i, host) == HomeBrews(i, host, Materials(Brews[i], host, IslandLocally))

PreferredCity(i) == IF i.line = "potion" THEN Brecilien ELSE Caerleon

(* Where it is made, with what comes back and what the station takes. *)
Kitchens(i) ==
    {<<c, c, Rate(c, i.line), 30000>> : c \in SellingPlaces}
    \cup {<<IslandOf(PreferredCity(i)), PreferredCity(i), IslandRate, 0>>}

(* Anchored to the offers of the other cities, and to the average of the day. *)
AnchoredPrice(i, c) ==
    Pooled(Cleaned(Asks([x \in SellingPlaces |-> RowOf(i, x, 1)], SellingPlaces))[c],
           RowOf(i, c, 1).average, Volume(i, c, 1))

SellsAnchored(i, c) ==
    /\ UsableInVolume(i, c, 1) /\ AnchoredPrice(i, c) > 0
    /\ ~(Volume(i, c, 1) > 0 /\ Volume(i, c, 1) < MinConsumableVolume)
    /\ Bid(i, c, 1) > 0 => 2 * AnchoredPrice(i, c) <= 5 * Bid(i, c, 1)

BrewedOf(i, kitchen, bought) ==
    LET cost == Net(bought, kitchen[3]) + kitchen[4]
        net(c) == AfterListing(AnchoredPrice(i, c) * BatchSize(i)) - cost
    IN  {Product("brew", <<"brew", i>>, i, 1, bought, kitchen[1], c, AnchoredPrice(i, c), net(c)) :
            c \in {x \in SellingPlaces :
                    /\ Complete(Brews[i], bought) /\ SellsAnchored(i, x)
                    /\ BatchPays(net(x), Gross(bought), cost)}}

Brewed(i, kitchen) == BrewedOf(i, kitchen, Materials(Brews[i], kitchen[2], FALSE))

ScanConsumables ==
    UNION {Brewed(r[1], r[2]) : r \in UNION {{i} \X Kitchens(i) : i \in DOMAIN Brews}}

(* scan_island *)
ScanIsland ==
    (UNION {Planted(r[1], r[2]) : r \in Plants \X Hosts})
    \cup (UNION {Slaughtered(r[1], r[2]) \cup Milked(r[1], r[2]) : r \in Animals \X Hosts})
    \cup (UNION {Raised(r[1], r[2]) : r \in Mounts \X Hosts})
    \cup (UNION {BrewedAtHome(r[1], r[2]) : r \in (DOMAIN Brews) \X Hosts})
=============================================================================
