---------------------------- MODULE BackupProofs ----------------------------
(***************************************************************************)
(* PerformBackup, for every set of job configs: its invariants, and that   *)
(* it implements BackupLife.                                               *)
(*                                                                         *)
(* BInv says, for each place of the call, what the deferred functions will *)
(* find there: which of err, snapshot and panicking decides the result,    *)
(* and which processes are left.                                           *)
(***************************************************************************)
EXTENDS Backup, TLAPS

\* The deferred calls and the end.
Unwinding == {"close", "wait", "result", "done"}

\* One of the three outcomes, and it is known when the call unwinds.
Outcome ==
    /\ pc \notin Unwinding => ~err /\ ~snapshot /\ ~panicking
    /\ pc \in Unwinding => (~err <=> snapshot \/ panicking)
    /\ ~(snapshot /\ panicking)

\* state.start comes before all stages, the result after them.
PhaseFits ==
    /\ phase = IF pc \in {"create", "start"} THEN "called"
               ELSE IF pc = "done" THEN "over" ELSE "begun"
    /\ verdict # "none" => pc = "done"

\* A command belongs to its stage, and c.wg counts it.
OneCommand ==
    /\ wg = IF cmd = "none" THEN 0 ELSE 1
    /\ cmd # "none" => pc \in Stages /\ cfg[pc]
    /\ pc \notin Unwinding => orphans = 0 /\ (cmd = "none" => reading = {})

\* The tunnel lives between connect and close.
TunnelFits == pc \in {"create", "start", "connect", "result", "done"} => tunnel = "none"

BInv == TypeOK /\ Outcome /\ PhaseFits /\ OneCommand /\ TunnelFits

\* PerformBackup begins with nothing.
LEMMA BackupInit == Init => BInv
<1> SUFFICES ASSUME Init PROVE BInv
  OBVIOUS
<1>0. {err, panicking, snapshot} \subseteq BOOLEAN
  BY Zenon DEF Init
<1>1. TypeOK /\ OneCommand
  BY <1>0 DEF Init, TypeOK, OneCommand, Unwinding
<1>2. Outcome /\ PhaseFits /\ TunnelFits
  BY DEF Init, Outcome, PhaseFits, TunnelFits, Unwinding
<1> QED BY <1>1, <1>2 DEF BInv

\* The steps that only move the call on.
LEMMA CallKeeps ==
    ASSUME BInv,
           \/ Create \/ CreateFails \/ Start \/ MasterPanics \/ Connect \/ ConnectFails
           \/ RsyncPanics \/ TakeSnapshot \/ SnapshotFails \/ CloseSignal \/ CloseWait \/ Record
    PROVE  BInv'
<1> USE DEF BInv, TypeOK, Outcome, PhaseFits, OneCommand, TunnelFits, Unwinding, Stages,
            callVars, procVars
<1>1. CASE Create
  BY <1>1 DEF Create
<1>2. CASE CreateFails
  BY <1>2 DEF CreateFails
<1>3. CASE Start
  BY <1>3 DEF Start
<1>4. CASE MasterPanics
  BY <1>4 DEF MasterPanics, Panic
<1>5. CASE Connect
  BY <1>5 DEF Connect
<1>6. CASE ConnectFails
  BY <1>6 DEF ConnectFails
<1>7. CASE RsyncPanics
  BY <1>7 DEF RsyncPanics, Panic
<1>8. CASE TakeSnapshot
  BY <1>8 DEF TakeSnapshot
<1>9. CASE SnapshotFails
  BY <1>9 DEF SnapshotFails
<1>10. CASE CloseSignal
  BY <1>10 DEF CloseSignal
<1>11. CASE CloseWait
  BY <1>11 DEF CloseWait
<1>12. CASE Record
  BY <1>12 DEF Record
<1> QED BY <1>1, <1>2, <1>3, <1>4, <1>5, <1>6, <1>7, <1>8, <1>9, <1>10, <1>11, <1>12

\* The steps of a stage: its command is started, collected or given up on.
LEMMA StageKeeps ==
    ASSUME BInv, NEW s \in Stages, RunStage(s)
    PROVE  BInv'
<1> USE DEF BInv, TypeOK, Outcome, PhaseFits, OneCommand, TunnelFits, Unwinding, Stages,
            callVars, procVars
<1>1. CASE Skip(s)
  BY <1>1 DEF Skip, After
<1>2. CASE Spawn(s)
  BY <1>2 DEF Spawn, Wanted
<1>3. CASE SpawnFails(s)
  BY <1>3 DEF SpawnFails, Wanted
<1>4. CASE SendFails(s)
  BY <1>4 DEF SendFails
<1>5. CASE Collect(s)
  <2>1. CASE cmd = "failed"
    <3>1. err' /\ err' \in BOOLEAN /\ pc' = "close"
      BY <1>5, <2>1 DEF Collect
    <3> QED BY <1>5, <2>1, <3>1 DEF Collect
  <2>2. CASE cmd = "ok"
    <3>1. ~err' /\ err' \in BOOLEAN /\ pc' = After(s)
      BY <1>5, <2>2 DEF Collect
    <3> QED BY <1>5, <2>2, <3>1 DEF Collect, After
  <2> QED BY <1>5, <2>1, <2>2 DEF Collect
<1> QED BY <1>1, <1>2, <1>3, <1>4, <1>5 DEF RunStage

\* What the processes do by themselves.
LEMMA ProcessesKeep ==
    ASSUME BInv, Command \/ TunnelExits \/ OrphanExits
    PROVE  BInv'
<1> USE DEF BInv, TypeOK, Outcome, PhaseFits, OneCommand, TunnelFits, Unwinding, Stages,
            callVars
<1>1. CASE CmdExits
  BY <1>1 DEF CmdExits
<1>2. CASE CmdBlocks
  BY <1>2 DEF CmdBlocks
<1>3. ASSUME NEW x \in Streams, LineTooLong(x) \/ StreamEnds(x) PROVE BInv'
  BY <1>3 DEF LineTooLong, StreamEnds
<1>4. CASE TunnelExits
  BY <1>4 DEF TunnelExits
<1>5. CASE OrphanExits
  BY <1>5 DEF OrphanExits
<1> QED BY <1>1, <1>2, <1>3, <1>4, <1>5 DEF Command

\* Every step keeps the invariant.
LEMMA BackupStep == BInv /\ [Next]_vars => BInv'
<1> SUFFICES ASSUME BInv, [Next]_vars PROVE BInv'
  OBVIOUS
<1>1. CASE Call
  BY <1>1, CallKeeps, StageKeeps DEF Call
<1>2. CASE Command \/ TunnelExits \/ OrphanExits
  BY <1>2, ProcessesKeep
<1>3. CASE UNCHANGED vars
  BY <1>3 DEF BInv, TypeOK, Outcome, PhaseFits, OneCommand, TunnelFits, vars, callVars, procVars
<1> QED BY <1>1, <1>2, <1>3 DEF Next, Done

\* The inductive invariant of one backup.
THEOREM BackupInvariant == Spec => []BInv
BY BackupInit, BackupStep, PTL DEF Spec

\* Type correctness: c.wg is 0 or 1, and no more than one command is given up.
THEOREM BackupTypes == Spec => []TypeOK
<1>1. BInv => TypeOK
  BY DEF BInv
<1> QED BY <1>1, BackupInvariant, PTL

\* On every path, panics included, the result is recorded only after the
\* tunnel's process was waited for, with no command left that c.wg counts.
THEOREM BackupNothingLeft == Spec => []NothingLeftBehind
<1>1. BInv => NothingLeftBehind
  BY DEF BInv, NothingLeftBehind, PhaseFits, OneCommand, TunnelFits, Stages
<1> QED BY <1>1, BackupInvariant, PTL

\* The snapshot is taken when no command of the backup runs, none has failed,
\* none was given up on and all output was read.
THEOREM BackupSnapshotQuiet == Spec => []SnapshotIsQuiet
<1>1. BInv => SnapshotIsQuiet
  BY DEF BInv, SnapshotIsQuiet, Outcome, OneCommand, Stages, Unwinding
<1> QED BY <1>1, BackupInvariant, PTL

----------------------------------------------------------------------------
(* The refinement of BackupLife.                                           *)

\* Each step is a step of BackupLife or changes nothing it speaks of.  Record
\* is End because Outcome makes err the opposite of snapshot or panicking.
LEMMA BackupStepRefines == BInv /\ [Next]_vars => [Life!Next]_(Life!lifeVars)
<1> SUFFICES ASSUME BInv, [Next]_vars PROVE [Life!Next]_(Life!lifeVars)
  OBVIOUS
<1> USE DEF Life!lifeVars
<1>1. CASE CreateFails
  BY <1>1 DEF CreateFails, BInv, PhaseFits, Life!GiveUp, Life!Next
<1>2. CASE Start
  BY <1>2 DEF Start, BInv, PhaseFits, Life!Begin, Life!Next
<1>3. CASE MasterPanics \/ RsyncPanics
  BY <1>3 DEF MasterPanics, RsyncPanics, Panic, BInv, PhaseFits, Outcome, Unwinding,
              Life!Panic, Life!Next
<1>4. CASE TakeSnapshot
  BY <1>4 DEF TakeSnapshot, BInv, PhaseFits, Outcome, Unwinding, Life!Snapshot, Life!Next
<1>5. CASE Record
  BY <1>5 DEF Record, BInv, PhaseFits, Outcome, Unwinding, Life!End, Life!Next
<1>6. CASE Create \/ Connect \/ ConnectFails \/ SnapshotFails \/ CloseSignal \/ CloseWait
  BY <1>6 DEF Create, Connect, ConnectFails, SnapshotFails, CloseSignal, CloseWait, callVars
<1>7. ASSUME NEW s \in Stages, RunStage(s) PROVE UNCHANGED Life!lifeVars
  BY <1>7 DEF RunStage, Skip, Spawn, SpawnFails, SendFails, Collect, callVars
<1>8. CASE Command \/ TunnelExits \/ OrphanExits
  BY <1>8 DEF Command, CmdExits, CmdBlocks, LineTooLong, StreamEnds, TunnelExits, OrphanExits,
              callVars
<1>9. CASE UNCHANGED vars
  BY <1>9 DEF vars, callVars
<1> QED BY <1>1, <1>2, <1>3, <1>4, <1>5, <1>6, <1>7, <1>8, <1>9 DEF Next, Call, Done

\* PerformBackup implements BackupLife, which Daemon takes a backup to be: one
\* start, one result, and success exactly with a snapshot or after a panic.
THEOREM BackupRefinesLife == Spec => LifeSpec
<1>1. Init => Life!Init
  BY DEF Init, Life!Init
<1> QED BY <1>1, BackupStepRefines, BackupInvariant, PTL DEF Spec, LifeSpec, Life!Spec
=============================================================================
