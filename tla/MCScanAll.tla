------------------------------- MODULE MCScanAll -------------------------------
(* ScanAll on small dictionaries: three royal cities, an axe of tier 6 that is *)
(* traded, crafted and enchanted, the bars it is made of, and what an island   *)
(* grows and brews.  A dictionary holds the rows of one line of business, in   *)
(* the combinations that the limits of its scans tell apart.                   *)
EXTENDS ScanAll, TLC

CONSTANTS r1, r2, r3, caerleon, brecilien, bm

Thing(class, kind, tier, enchant, line) ==
    [class |-> class, kind |-> kind, tier |-> tier, enchant |-> enchant, dragon |-> FALSE,
     line |-> line, returned |-> class # "artifact"]

axe == Thing("equipment", "none", 6, 0, "mainhand")
axe1 == Thing("equipment", "none", 6, 1, "mainhand")
artefact == Thing("artifact", "none", 6, 0, "artefact")
bar == Thing("material", "refined", 6, 0, "metalbar")
bar5 == Thing("material", "refined", 5, 0, "metalbar")
ore == Thing("material", "raw", 6, 0, "ore")
rune == Thing("enchant_material", "RUNE", 6, 0, "enchanting")
wheat == Thing("commodity", "none", 3, 0, "crop")
seed == Thing("commodity", "none", 3, 0, "seed")
calf == Thing("commodity", "none", 3, 0, "young")
meat == Thing("consumable", "none", 3, 0, "meat")
milk == Thing("consumable", "none", 3, 0, "milk")
horse == Thing("unknown", "mount", 4, 0, "mount")
potion == Thing("consumable", "none", 4, 0, "potion")
stew == Thing("consumable", "none", 4, 0, "food")

MCItems ==
    {axe, axe1, artefact, bar, bar5, ore, rune, wheat, seed, calf, meat, milk, horse, potion, stew,
     Thing("material", "raw", 5, 0, "ore"), Thing("material", "raw", 6, 1, "ore")}

MCRoyal == <<r1, r2, r3>>
MCQualities == {1, 2}
MCPlaces == {r1, r2, r3, caerleon, brecilien, bm}
MCDistance == [p \in MCPlaces \X MCPlaces |-> IF p[1] = p[2] THEN 0 ELSE 5]
MCRefiningCity == "metalbar" :> r2 @@ "ore" :> r2

MCBonus ==
    [p \in MCPlaces \X {i.line : i \in MCItems} |->
        CASE p = <<r2, "metalbar">> -> 40
          [] p = <<r1, "mainhand">> -> 15
          [] p \in {<<brecilien, "potion">>, <<caerleon, "food">>} -> 15
          [] OTHER -> 0]

MCRecipes == axe :> (bar :> 8 @@ artefact :> 1)
MCRefiningRecipes == bar :> (ore :> 2 @@ bar5 :> 1)
MCBrews == potion :> (wheat :> 8 @@ milk :> 2) @@ stew :> (wheat :> 4)

MCPlants == {[item |-> wheat, seed |-> seed, yield |-> 9, back |-> 80]}
MCAnimals ==
    {[meat |-> meat, produce |-> milk, baby |-> calf, meat_yield |-> 20, produce_yield |-> 2,
      feed |-> 10, days |-> 2, offspring |-> 80]}
MCMounts ==
    {[item |-> horse, baby |-> calf, feed |-> 10, days |-> 1, diet |-> "crop",
      saddle |-> bar5 :> 2]}
MCFodder == [crop |-> {wheat}, meat |-> {meat}]
MCBiome == [p \in MCPlaces \X MCItems |-> IF p = <<r1, wheat>> THEN 10 ELSE 0]

MCStationFee == [i \in MCItems |-> 5000]
MCWorkValue == [i \in MCItems |-> IF i \in {axe, axe1} THEN 256 ELSE 0]

----------------------------------------------------------------------------

Row(sell, buy, volume, age) ==
    [sell |-> sell, buy |-> buy, volume |-> volume, age |-> age, average |-> 0, depth |-> 0]

At(i, c, q, row) == <<i, c, q>> :> row

Averaged(row, average, depth) == [row EXCEPT !.average = average, !.depth = depth]

(* Offers and requests: none, cheap, fair, dear, absurd, crossed, one-sided,   *)
(* stale, thin.                                                                *)
AxeRows ==
    {Blank, Row(40000, 30000, 10, 1000), Row(60000, 0, 0, 1000), Row(60000, 58000, 10, 50000),
     Row(60000, 62000, 10, 1000), Row(90000, 80000, 10, 7000),
     Row(250000, 60000, 10, 1000), Row(20000, 0, 10, 60000)}

Orders == {Blank, Row(0, 100000, 10, 1000), Row(0, 100000, 10, 12000), Row(0, 70000, 0, 21000)}

(* Three cities that trade one quality with each other and the Black Market. *)
ThreeCities ==
    {At(axe, r1, 1, x) @@ At(axe, r2, 1, y) @@ At(axe, r3, 1, z) @@ At(axe, bm, 1, b) :
        x \in AxeRows, y \in AxeRows, z \in AxeRows, b \in Orders}

(* Two qualities in one city, and orders for both. *)
QualityRows ==
    (AxeRows \ {Row(250000, 60000, 10, 1000)}) \cup
    {Row(90000, 60000, 2, 1000), Row(50000, 45000, 0, 2000), Row(0, 56000, 10, 60000),
     Row(62000, 0, 8, 90000), Row(44000, 30000, 8, 2000)}

TwoQualities ==
    {At(axe, c, 1, x) @@ At(axe, c, 2, y) @@ At(axe, bm, 1, b) @@ At(axe, bm, 2, d) :
        c \in {r1, caerleon}, x \in QualityRows, y \in QualityRows,
        b \in Orders \ {Blank}, d \in Orders}

(* Bars in the city of the forge, where they are refined, or in the third. *)
Forge ==
    {At(bar, r1, 1, x) @@ At(bar, r2, 1, y) @@ At(bar, r3, 1, z)
     @@ At(artefact, r1, 1, Row(15000, 12000, 10, 1000)) @@ At(artefact, r2, 1, Row(14000, 0, 0, 9000))
     @@ At(axe, r1, 1, a) @@ At(axe, r3, 1, b) :
        x \in {Blank, Row(600, 500, 500, 1000), Row(60, 50, 50, 1000)},
        y \in {Blank, Row(700, 0, 0, 1000), Row(500, 400, 50, 70000)},
        z \in {Blank, Row(300, 250, 30, 100)},
        a \in {Blank, Row(26000, 20000, 10, 1000), Row(33000, 25000, 10, 1000)},
        b \in {Blank, Row(30000, 25000, 10, 1000), Row(39000, 36000, 10, 40000), Row(17000, 15000, 10, 500)}}

Smelter ==
    {At(ore, r1, 1, x) @@ At(ore, r2, 1, y) @@ At(bar5, r3, 1, z) @@ At(bar5, r2, 1, w)
     @@ At(bar, r1, 1, a) @@ At(bar, r2, 1, b) @@ At(bar, r3, 1, d) :
        x \in {Blank, Row(200, 180, 500, 1000)},
        y \in {Blank, Row(300, 250, 500, 2000)},
        z \in {Blank, Row(150, 120, 400, 1000)},
        w \in {Blank, Row(200, 150, 400, 1000)},
        a \in {Blank, Row(700, 600, 300, 1000)},
        b \in {Blank, Row(750, 600, 300, 1000)},
        d \in {Blank, Row(900, 700, 300, 2000), Row(800, 700, 5, 2000)}}

(* A tier lower, ore is turned into ore. *)
Transmutator ==
    {At([ore EXCEPT !.tier = 5], c, 1, x) @@ At(ore, c, 1, y)
     @@ At([ore EXCEPT !.enchant = 1], c, 1, z) :
        c \in {r1, r2},
        x \in {Blank, Row(300, 250, 900, 1000)},
        y \in {Blank, Row(2200, 1800, 900, 1000), Row(2000, 500, 10, 1000)},
        z \in {Blank, Row(7000, 6000, 500, 1000), Row(9000, 7000, 60, 100000)}}

RuneRows ==
    {Blank, Row(150, 120, 500, 1000), Averaged(Row(120, 100, 900, 3000), 200, 0),
     Averaged(Row(150, 0, 0, 80000), 100, 40), Row(190, 0, 0, 100000)}

Foundry ==
    {At(axe, c, 1, x) @@ At(axe, c, 2, y) @@ At(axe, r3, 1, Row(50000, 40000, 10, 1000))
     @@ At(axe1, c, 1, z) @@ At(axe1, bm, 1, b) @@ At(rune, c, 1, m) @@ At(rune, r3, 1, n) :
        c \in {r1, caerleon},
        x \in {Blank, Row(18000, 12000, 10, 1000), Row(70000, 60000, 10, 1000)},
        y \in {Blank, Row(60000, 50000, 10, 9000)},
        z \in {Blank, Row(130000, 100000, 10, 1000), Row(150000, 130000, 10, 50000)},
        b \in {Blank, Row(0, 160000, 10, 1000)},
        m \in RuneRows, n \in RuneRows}

Farm ==
    {At(seed, r1, 1, x) @@ At(seed, r2, 1, y) @@ At(wheat, r2, 1, z) @@ At(calf, r3, 1, v)
     @@ At(bar5, r1, 1, w) @@ At(meat, r1, 1, a) @@ At(milk, r1, 1, b) @@ At(horse, r2, 1, d) :
        x \in {Blank, Row(2000, 1500, 90, 1000)},
        y \in {Blank, Row(1500, 0, 0, 190000)},
        z \in {Blank, Row(200, 150, 900, 1000)},
        v \in {Blank, Row(4000, 3000, 50, 100000)},
        w \in {Blank, Row(400, 300, 50, 1000)},
        a \in {Blank, Row(900, 800, 500, 1000), Row(900, 200, 500, 1000)},
        b \in {Blank, Row(2500, 600, 90, 1000)},
        d \in {Blank, Row(16000, 12000, 50, 1000)}}

Kitchen ==
    {At(wheat, caerleon, 1, x) @@ At(wheat, r1, 1, y) @@ At(milk, brecilien, 1, z)
     @@ At(potion, r2, 1, a) @@ At(potion, caerleon, 1, b) @@ At(stew, r3, 1, d) :
        x \in {Blank, Row(5, 0, 10, 1000), Row(150, 120, 90, 1000)},
        y \in {Blank, Row(100, 80, 900, 1000), Row(160, 100, 900, 100000)},
        z \in {Blank, Row(300, 250, 90, 1000)},
        a \in {Blank, Row(900, 800, 60, 1000), Averaged(Row(600, 0, 20, 1000), 1000, 0)},
        b \in {Blank, Row(2000, 1500, 60, 1000)},
        d \in {Blank, Row(500, 400, 60, 1000), Row(500, 150, 60, 1000)}}

Dictionaries ==
    UNION {ThreeCities, TwoQualities, Forge, Smelter, Transmutator, Foundry, Farm, Kitchen}

MCScanned ==
    (Dictionaries \X {NoLive}) \cup (Foundry \X {<<rune, caerleon>> :> [price |-> 140, depth |-> 300] @@ <<rune, r1>> :> [price |-> 90, depth |-> 2000]})

MCAxe == axe
MCEnchantable == {axe1}
MCHosts == {r1, caerleon, brecilien}
MCTransmutable == {ore, [ore EXCEPT !.enchant = 1]}
=============================================================================
