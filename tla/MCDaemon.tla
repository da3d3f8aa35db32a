------------------------------ MODULE MCDaemon ------------------------------
(* Instances of Daemon on a day of two hours of two seconds of two ticks,  *)
(* with the schedule in its middle and a jitter of one second.             *)
EXTENDS Daemon, TLC

CONSTANTS h1, h2, w1, w2

MCDailyAt == [h |-> 1, m |-> 0, s |-> 0]

Symmetry == Permutations(Hosts) \cup Permutations(Workers)
=============================================================================
