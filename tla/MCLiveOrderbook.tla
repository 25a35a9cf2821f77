--------------------------- MODULE MCLiveOrderbook ---------------------------
(* LiveOrderbook on small instances: one book, prices of a few silver. *)
EXTENDS LiveOrderbook

CONSTANT k1

MCKeys == {k1}
MCItems == {{k1}}
MCMinVolume == [k \in MCKeys |-> 3]
MCUnitVolume == [k \in MCKeys |-> 1]
MCRequestTtl == [k \in MCKeys |-> [p \in Prices |-> p]]
MCEmptyTtl == [k \in MCKeys |-> 1]
=============================================================================
