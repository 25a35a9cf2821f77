----------------------------- MODULE MCScheduler -----------------------------
(* Scheduler on a small instance: the task slots are model values. *)
EXTENDS Scheduler

CONSTANTS l1, l2, s1, v

MCLoopTasks == {l1, l2}
MCScanTasks == {s1}
=============================================================================
