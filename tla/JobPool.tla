------------------------------ MODULE JobPool ------------------------------
(***************************************************************************)
(* What the Queue interface of app/queue.go promises its callers, without  *)
(* channels, wait groups or workers: a job handed to Enqueue waits, is     *)
(* performed once by somebody, and is finished; it is never dropped,       *)
(* performed a second time or handed back.                                 *)
(***************************************************************************)
CONSTANT Jobs      \* one element per call of Enqueue

VARIABLE stage     \* stage[j]: how far job j has come

Stages == {"new", "waiting", "running", "finished"}

TypeOK == stage \in [Jobs -> Stages]

Init == stage = [j \in Jobs |-> "new"]

Move(j, from, to) ==
    /\ stage[j] = from
    /\ stage' = [stage EXCEPT ![j] = to]

Submit(j) == Move(j, "new", "waiting")
Begin(j)  == Move(j, "waiting", "running")
Finish(j) == Move(j, "running", "finished")

Next == \E j \in Jobs : Submit(j) \/ Begin(j) \/ Finish(j)

Spec == Init /\ [][Next]_stage
=============================================================================
