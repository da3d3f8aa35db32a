---------------------------- MODULE MCRunCommand ----------------------------
(* Instances of RunCommand: at most three hosts, one of them unknown to    *)
(* the config tree, a channel with one slot, and every combination of a    *)
(* configured pool size with the -P flag.                                  *)
EXTENDS RunCommand

CONSTANTS j1, j2, j3, w1, w2, w3, w4, w5

MCWorkers  == {w1, w2, w3, w4, w5}
MCJobs     == {j1, j2, j3}
MCArgLists == {<<j1, j2, j3>>, <<j2, j1>>, <<>>}
MCKnown    == {j1, j2}
MCSizes    == {-1, 0, 1, 2, 3}

\* Every setting with a pool size above 0 ...
Sized   == (0..2) \X MCSizes \ {<<0, -1>>, <<0, 0>>}
\* ... and the one of a config.yml without "parallel", and no flag.
Unsized == {<<0, 0>>}
=============================================================================
