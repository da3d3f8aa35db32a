----------------------------- MODULE BackupLife -----------------------------
(***************************************************************************)
(* What the rest of zackup sees of one call of PerformBackup, and what     *)
(* Daemon.tla assumes of it: the call gives up before it has recorded      *)
(* anything, or it calls state.start once and then state.success or        *)
(* state.failure once.  A success has a new snapshot to show for it, or    *)
(* the call has panicked, which ends the process after the result.         *)
(***************************************************************************)
VARIABLES
    phase,       \* how far the call has come
    verdict,     \* the result it has recorded
    snapshot,    \* whether it has created a snapshot
    panicking    \* whether its goroutine is unwinding

lifeVars == <<phase, verdict, snapshot, panicking>>

Init == phase = "called" /\ verdict = "none" /\ snapshot = FALSE /\ panicking = FALSE

GiveUp == phase = "called" /\ phase' = "over" /\ UNCHANGED <<verdict, snapshot, panicking>>

Begin == phase = "called" /\ phase' = "begun" /\ UNCHANGED <<verdict, snapshot, panicking>>

Snapshot ==
    /\ phase = "begun" /\ ~panicking
    /\ snapshot' = TRUE
    /\ UNCHANGED <<phase, verdict, panicking>>

Panic ==
    /\ phase = "begun" /\ ~snapshot
    /\ panicking' = TRUE
    /\ UNCHANGED <<phase, verdict, snapshot>>

End ==
    /\ phase = "begun"
    /\ phase' = "over"
    /\ verdict' = IF snapshot \/ panicking THEN "success" ELSE "failure"
    /\ UNCHANGED <<snapshot, panicking>>

Next == GiveUp \/ Begin \/ Snapshot \/ Panic \/ End

Spec == Init /\ [][Next]_lifeVars
=============================================================================
