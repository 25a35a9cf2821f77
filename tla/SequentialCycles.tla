--------------------------- MODULE SequentialCycles ---------------------------
(***************************************************************************)
(* What the partition cycle of QuantScheduler promises, without tasks,      *)
(* flags or locks: one cycle at a time, always on the partition the         *)
(* rotation stands at, and every cycle that ends moves the rotation by one. *)
(* A stop in the middle of a cycle disturbs this: which cycles are then in  *)
(* progress is left open, but they too move the rotation by single steps,   *)
(* and with the last of them the disturbance is over.                       *)
(***************************************************************************)
EXTENDS Naturals

CONSTANTS NumPartitions, Idle

VARIABLES
    rotation,   \* the partition whose turn it is
    active,     \* the partition being worked on, or Idle
    disturbed   \* a stop came in the middle of a cycle

vars == <<rotation, active, disturbed>>

Following(p) == (p + 1) % NumPartitions

Init == rotation = 0 /\ active = Idle /\ disturbed = FALSE

Begin ==
    /\ ~disturbed /\ active = Idle
    /\ active' = rotation
    /\ UNCHANGED <<rotation, disturbed>>

(* The cycle's work is done or has failed. *)
Finish ==
    /\ ~disturbed /\ active = rotation
    /\ active' = Idle
    /\ rotation' = Following(rotation)
    /\ UNCHANGED disturbed

(* An empty partition is passed over. *)
Pass ==
    /\ ~disturbed /\ active = Idle
    /\ rotation' = Following(rotation)
    /\ UNCHANGED <<active, disturbed>>

(* The cycle in progress is stopped. *)
Disturb ==
    /\ active # Idle
    /\ active' = Idle
    /\ disturbed' = TRUE
    /\ UNCHANGED rotation

(* A cycle of a disturbed actor begins, is aborted or moves the rotation. *)
Settle ==
    /\ disturbed
    /\ rotation' \in {rotation, Following(rotation)}
    /\ disturbed' \in BOOLEAN
    /\ UNCHANGED active

Next == Begin \/ Finish \/ Pass \/ Disturb \/ Settle

Spec == Init /\ [][Next]_vars
=============================================================================
