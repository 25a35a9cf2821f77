------------------------------ MODULE MCAlerts ------------------------------
(* Alerts on a small instance: three opportunities of one category, two of    *)
(* which are qualities of one item on one route and share a key.              *)
EXTENDS Alerts

CONSTANTS a, a2, b, ka, kb, arb, c1, c2

MCOpps == {a, a2, b}
MCChannel == [o \in MCOpps |-> arb]
MCCategory == [o \in MCOpps |-> 1]
MCKeyOf == [o \in MCOpps |-> IF o = b THEN kb ELSE ka]
=============================================================================
