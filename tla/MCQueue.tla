------------------------------ MODULE MCQueue ------------------------------
(* A small instance of Queue under every sequence of calls: three jobs,    *)
(* room for one of them in the channel, and callers that resize the pool   *)
(* at any time.                                                            *)
EXTENDS Queue, TLC

CONSTANTS j1, j2, j3, w1, w2, w3, w4

MCJobs    == {j1, j2, j3}
MCWorkers == {w1, w2, w3, w4}
MCSizes   == {-1, 0, 2, 4}

Symmetry == Permutations(MCJobs) \cup Permutations(MCWorkers)
=============================================================================
