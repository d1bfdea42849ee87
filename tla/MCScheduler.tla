----------------------------- MODULE MCScheduler -----------------------------
(* Instances of Scheduler for TLC: the cfg files give the constants. *)
EXTENDS Scheduler

CONSTANTS c1, c2

OneLane == {c1}
TwoLanes == {c1, c2}
=============================================================================
