------------------------------ MODULE Freshness ------------------------------
(***************************************************************************)
(* The age limits of app/core/freshness.py: how old the price of an item may *)
(* be before a scan refuses it.  An item is a record with its class (what    *)
(* _classify_item makes of its name), its kind of enchantment material, its  *)
(* tier and its enchantment.  Ages are seconds.                              *)
(***************************************************************************)
EXTENDS Integers, FiniteSetsExt

Hour == 3600

(* A ladder gives each tier a row of limits, from enchantment 0 upwards; it    *)
(* is written in quarters of an hour.                                          *)
Quarters(rows) == [t \in 1..8 |-> [i \in DOMAIN rows[t] |-> 900 * rows[t][i]]]

MATERIAL_AGE_LIMITS ==
    Quarters(<< <<>>, <<96>>, <<96>>, <<48, 48, 64, 64>>, <<48, 48, 64, 64>>,
                <<64, 64, 96, 96>>, <<64, 96, 96, 96>>, <<96, 96, 96, 192, 192>> >>)

ARTIFACT_AGE_LIMITS ==
    Quarters(<< <<>>, <<>>, <<>>, <<64>>, <<64>>, <<64>>, <<96>>, <<96>> >>)

EQUIPMENT_AGE_LIMITS ==
    Quarters(<< <<>>, <<>>, <<>>, <<48, 48, 48, 64>>, <<48, 48, 64, 64>>,
                <<64, 64, 96, 96>>, <<64, 96, 96, 96>>, <<96, 96, 192, 192, 192>> >>)

CONSUMABLE_AGE_LIMITS ==
    Quarters(<< <<48>>, <<48>>, <<48>>, <<48, 48, 48, 64>>, <<48, 48, 64, 64>>,
                <<64, 64, 96, 96>>, <<64, 96, 96, 96>>, <<96, 96, 96, 192>> >>)

COMMODITY_AGE_LIMITS ==
    Quarters([t \in 1..8 |-> IF t < 4 THEN <<96>> ELSE <<96, 96>>])

SPECIALTY_AGE_LIMITS ==
    Quarters(<< <<8>>, <<8>>, <<8>>, <<8, 12, 16, 24>>, <<12, 16, 24, 48>>,
                <<24, 48, 48, 96>>, <<48, 96, 96, 144>>, <<96, 144, 192, 288, 288>> >>)

MARKET_MAKING_AGE_LIMITS ==
    Quarters(<< <<>>, <<>>, <<>>, <<2, 3, 4, 6>>, <<3, 4, 6, 8>>, <<4, 6, 8, 12>>,
                <<6, 8, 12, 24>>, <<8, 12, 24, 48, 96>> >>)

(* Hours a rune, soul, relic or shard of tier 4 to 8 is kept. *)
EnchantMaterialHours ==
    [RUNE |-> <<12, 12, 12, 16, 24>>, SOUL |-> <<12, 12, 12, 16, 24>>,
     RELIC |-> <<12, 12, 16, 24, 24>>, SHARD |-> <<16, 16, 24, 24, 48>>]

Ceiling == 604800

Listed(ladder, t, e) == e + 1 \in DOMAIN ladder[t]
LimitAt(ladder, t, e) == ladder[t][e + 1]
Capped(limit) == Min({limit, Ceiling})

LowerEnchants(ladder, t, e) == {x \in 0..(e - 1) : Listed(ladder, t, x)}
LowerTiers(ladder, t, e) == {x \in 1..(t - 1) : Listed(ladder, x, e)}

(* _lookup_with_fallback: the entry itself, or that of the next lower         *)
(* enchantment, or of the next lower tier, half as much again for each step.  *)
Lookup(ladder, t, e) ==
    IF Listed(ladder, t, e) THEN LimitAt(ladder, t, e)
    ELSE IF LowerEnchants(ladder, t, e) # {} THEN
        LET x == Max(LowerEnchants(ladder, t, e))
        IN  Capped((LimitAt(ladder, t, x) * (2 + e - x)) \div 2)
    ELSE IF LowerTiers(ladder, t, e) # {} THEN
        LET x == Max(LowerTiers(ladder, t, e))
        IN  Capped((LimitAt(ladder, x, e) * (2 + t - x)) \div 2)
    ELSE IF LowerTiers(ladder, t, 0) # {} THEN
        LET x == Max(LowerTiers(ladder, t, 0))
        IN  Capped((LimitAt(ladder, x, 0) * (2 + t - x) * (2 + e)) \div 4)
    ELSE Ceiling

(* Below tier 4 the multiples of a default of two hours. *)
EnchantMaterialLimit(kind, t) ==
    IF t >= 4 THEN Hour * EnchantMaterialHours[kind][t - 3]
    ELSE 2 * Hour * (IF kind = "SHARD" THEN 3 ELSE IF kind = "RELIC" THEN 2 ELSE 1)

LadderOf(class) ==
    CASE class = "material" -> MATERIAL_AGE_LIMITS
      [] class = "artifact" -> ARTIFACT_AGE_LIMITS
      [] class = "commodity" -> COMMODITY_AGE_LIMITS
      [] class = "consumable" -> CONSUMABLE_AGE_LIMITS
      [] class = "specialty" -> SPECIALTY_AGE_LIMITS
      [] OTHER -> EQUIPMENT_AGE_LIMITS

BaseLimit(item, context) ==
    IF context = "market_making" THEN Lookup(MARKET_MAKING_AGE_LIMITS, item.tier, item.enchant)
    ELSE IF item.class = "enchant_material" THEN EnchantMaterialLimit(item.kind, item.tier)
    ELSE Lookup(LadderOf(item.class), item.tier,
                IF item.class = "artifact" THEN 0 ELSE item.enchant)

(* The busier the market the sooner a price is out of date. *)
VolumeScaled(limit, volume) ==
    IF volume >= 5000 THEN Max({4 * Hour, (limit * 45) \div 100})
    ELSE IF volume >= 1000 THEN Max({6 * Hour, (limit * 65) \div 100})
    ELSE IF volume >= 200 THEN Max({8 * Hour, (limit * 85) \div 100})
    ELSE limit

(* get_max_material_age_seconds, as the scans call it: without a city and       *)
(* without the time the scan has taken.                                        *)
MaxAge(item, context, volume) == VolumeScaled(BaseLimit(item, context), volume)

AgeLimit(item) == MaxAge(item, "default", 0)
AgeLimitFor(item, volume) == MaxAge(item, "default", volume)

(* get_max_allowed_leg_desync_seconds, without an enchantment. *)
LegDesync(tier) ==
    IF tier >= 7 THEN 24 * Hour ELSE IF tier = 6 THEN 16 * Hour ELSE 12 * Hour

LegDesyncFor(tier, enchant) ==
    IF tier >= 7 /\ enchant >= 2 THEN (LegDesync(tier) * (4 + enchant)) \div 4 ELSE LegDesync(tier)

Gap(a, b) == IF a <= b THEN b - a ELSE a - b

(* calculate_route_travel_buffer *)
TravelBuffer(distance, dangerous) ==
    IF distance = 0 THEN 0 ELSE 180 * distance + (IF dangerous THEN 300 ELSE 60)
=============================================================================
