------------------------------- MODULE Ticks -------------------------------
(* The resolution of the clock (time.Now), which is finer than the second  *)
(* that ZFS properties, the schedule and the index page work with.         *)
EXTENDS Integers

CONSTANT Second            \* ticks in a second

ASSUME TicksAssumption == Second \in Nat \ {0}
=============================================================================
