------------------------- MODULE MCOpportunityCache -------------------------
(* An instance of OpportunityCache: a royal route of an item and two routes to *)
(* one Black Market order.  The two are alike but for the order in which they  *)
(* are met, so that one arrangement shows what the other would.                *)
EXTENDS OpportunityCache

CONSTANTS bag, sword, dagger, item1, order1

MCKeys == {bag, sword, dagger}
MCItemOf == [k \in MCKeys |-> item1]
MCOrderOf == [k \in MCKeys |-> order1]
MCArrangements == {<<sword, dagger, bag>>}
MCEffective == (0 :> 0 @@ 2 :> 1 @@ 4 :> 3)
Ladder == [p \in {0, 1, 2, 3, 4} |-> IF p > 2 THEN 1 ELSE 0]
MCLifespan == [k \in MCKeys |-> Ladder]
=============================================================================
