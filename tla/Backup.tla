------------------------------- MODULE Backup -------------------------------
(***************************************************************************)
(* One call of PerformBackup (app/runner.go) with its SSH master           *)
(* (app/ssh.go): the stages of the backup, the tunnel process and the      *)
(* command processes that run beside it, the ways each of them fails, and  *)
(* the deferred calls that close the tunnel and record the result, on a    *)
(* return and on a panic.                                                  *)
(*                                                                         *)
(* zfs, ssh and rsync are external: a command may fail to start, exit with *)
(* or without an error, or write a line too long for the scanner of its    *)
(* stream and then block on a pipe that nobody empties.                    *)
(***************************************************************************)
EXTENDS Integers

CONSTANT Configs     \* the job configs: which parts of them are there

ASSUME ConfigsAssumption ==
    Configs \subseteq [ssh : BOOLEAN, rsync : BOOLEAN, pre : BOOLEAN, post : BOOLEAN]

VARIABLES
    cfg,         \* cfg.ssh: job.SSH is not nil; cfg.pre: PreScript has lines
    pc,          \* where the call is
    err,         \* PerformBackup's err is not nil
    panicking,   \* the goroutine is unwinding
    tunnel,      \* the process of c.tunnel: none, running, told to stop, dead
    cmd,         \* the process of the current execute or rsync
    reading,     \* the streams whose scanner has not called wg.Done()
    wg,          \* c.wg
    orphans,     \* commands that were started and never waited for
    snapshot,    \* a snapshot was created
    phase,       \* state.start was called, the call has ended
    verdict      \* the result that was recorded

callVars == <<err, panicking, snapshot, phase, verdict>>
procVars == <<tunnel, cmd, reading, wg, orphans>>
vars     == <<cfg, pc, callVars, procVars>>

Stages  == {"pre", "rsync", "post"}
Streams == {"stdout", "stderr"}

After(s) == CASE s = "pre" -> "rsync" [] s = "rsync" -> "post" [] s = "post" -> "snapshot"

Init ==
    /\ cfg \in Configs
    /\ pc = "create"
    /\ err = FALSE /\ panicking = FALSE /\ snapshot = FALSE
    /\ phase = "called" /\ verdict = "none"
    /\ tunnel = "none" /\ cmd = "none" /\ reading = {} /\ wg = 0 /\ orphans = 0

\* ds.create(): its failure is returned before the defer.
Create ==
    /\ pc = "create"
    /\ pc' = "start"
    /\ UNCHANGED <<cfg, callVars, procVars>>

CreateFails ==
    /\ pc = "create"
    /\ pc' = "done" /\ err' = TRUE /\ phase' = "over"
    /\ UNCHANGED <<cfg, panicking, snapshot, verdict, procVars>>

Start ==
    /\ pc = "start"
    /\ phase' = "begun"
    /\ pc' = "connect"
    /\ UNCHANGED <<cfg, err, panicking, snapshot, verdict, procVars>>

\* A nil pointer is dereferenced: the deferred calls run, err is still nil.
Panic(deferred) ==
    /\ panicking' = TRUE
    /\ pc' = deferred
    /\ UNCHANGED <<cfg, err, snapshot, phase, verdict, procVars>>

\* newSSHMaster reads cfg.User.
MasterPanics == pc = "connect" /\ ~cfg.ssh /\ Panic("result")

\* The tunnel's process is started; nobody waits for the connection.
Connect ==
    /\ pc = "connect" /\ cfg.ssh
    /\ tunnel' = "running"
    /\ pc' = "pre"
    /\ UNCHANGED <<cfg, callVars, cmd, reading, wg, orphans>>

\* The return comes before defer m.close().
ConnectFails ==
    /\ pc = "connect" /\ cfg.ssh
    /\ err' = TRUE
    /\ pc' = "result"
    /\ UNCHANGED <<cfg, panicking, snapshot, phase, verdict, procVars>>

----------------------------------------------------------------------------
(* execute and rsync: stage s of the backup runs a command.                *)

Skip(s) ==
    /\ pc = s /\ s # "rsync" /\ ~cfg[s]
    /\ pc' = After(s)
    /\ UNCHANGED <<cfg, callVars, procVars>>

Wanted(s) == pc = s /\ cmd = "none" /\ cfg[s]

Spawn(s) ==
    /\ Wanted(s)
    /\ cmd' = "running" /\ reading' = Streams /\ wg' = wg + 1
    /\ UNCHANGED <<cfg, pc, callVars, tunnel, orphans>>

\* captureOutput, StdinPipe or Start fails.
SpawnFails(s) ==
    /\ Wanted(s)
    /\ err' = TRUE /\ pc' = "close"
    /\ UNCHANGED <<cfg, panicking, snapshot, phase, verdict, procVars>>

\* BuildArgVector reads the nil config.
RsyncPanics == pc = "rsync" /\ ~cfg.rsync /\ Panic("close")

\* The command ends by itself, well or badly; one that is blocked on its
\* output ends when it loses the tunnel.
CmdExits ==
    /\ \/ cmd = "running" /\ cmd' \in {"ok", "failed"}
       \/ cmd = "blocked" /\ tunnel = "dead" /\ cmd' = "failed"
    /\ UNCHANGED <<cfg, pc, callVars, tunnel, reading, wg, orphans>>

\* A line of more than 64 KiB ends the scanner of the stream, not the command.
LineTooLong(x) ==
    /\ cmd = "running" /\ x \in reading
    /\ reading' = reading \ {x}
    /\ UNCHANGED <<cfg, pc, callVars, tunnel, cmd, wg, orphans>>

\* The pipe that has lost its reader is full.
CmdBlocks ==
    /\ cmd = "running" /\ reading # Streams
    /\ cmd' = "blocked"
    /\ UNCHANGED <<cfg, pc, callVars, tunnel, reading, wg, orphans>>

\* A scanner meets the end of its stream, or the pipe that done() has closed.
StreamEnds(x) ==
    /\ x \in reading /\ cmd \notin {"running", "blocked"}
    /\ reading' = reading \ {x}
    /\ UNCHANGED <<cfg, pc, callVars, tunnel, cmd, wg, orphans>>

Command == CmdExits \/ CmdBlocks \/ \E x \in Streams : LineTooLong(x) \/ StreamEnds(x)

\* Mutant of SendFails: err is shadowed in the loop that sends the script.
SendFailsShadowed(s) ==
    /\ pc = s /\ s # "rsync" /\ cmd # "none"
    /\ cmd' = "none" /\ wg' = wg - 1
    /\ orphans' = orphans + (IF cmd \in {"running", "blocked"} THEN 1 ELSE 0)
    /\ pc' = "close"
    /\ UNCHANGED <<cfg, callVars, tunnel, reading>>

\* Mutant of SendFails: the rest of the script is skipped, the backup goes on.
SendFailsGoesOn(s) ==
    /\ pc = s /\ s # "rsync" /\ cmd # "none"
    /\ cmd' = "none" /\ wg' = wg - 1
    /\ orphans' = orphans + (IF cmd \in {"running", "blocked"} THEN 1 ELSE 0)
    /\ pc' = After(s)
    /\ UNCHANGED <<cfg, callVars, tunnel, reading>>

\* A line of the script cannot be written: execute returns at once, with the
\* deferred c.wg.Done() and without a cmd.Wait().
SendFails(s) ==
    /\ pc = s /\ s # "rsync" /\ cmd # "none"
    /\ cmd' = "none" /\ wg' = wg - 1
    /\ orphans' = orphans + (IF cmd \in {"running", "blocked"} THEN 1 ELSE 0)
    /\ err' = TRUE /\ pc' = "close"
    /\ UNCHANGED <<cfg, panicking, snapshot, phase, verdict, tunnel, reading>>

\* Mutant of Collect: c.wg.Done() is called twice.
CollectDoneTwice(s) ==
    /\ pc = s /\ reading = {} /\ cmd \in {"ok", "failed"}
    /\ cmd' = "none" /\ wg' = wg - 2
    /\ err' = (cmd = "failed")
    /\ pc' = IF cmd = "failed" THEN "close" ELSE After(s)
    /\ UNCHANGED <<cfg, panicking, snapshot, phase, verdict, tunnel, reading, orphans>>

\* wg.Wait() returns once both scanners have ended, cmd.Wait() once the
\* command has.
Collect(s) ==
    /\ pc = s /\ reading = {} /\ cmd \in {"ok", "failed"}
    /\ cmd' = "none" /\ wg' = wg - 1
    /\ err' = (cmd = "failed")
    /\ pc' = IF cmd = "failed" THEN "close" ELSE After(s)
    /\ UNCHANGED <<cfg, panicking, snapshot, phase, verdict, tunnel, reading, orphans>>

OrphanExits ==
    /\ orphans > 0
    /\ orphans' = orphans - 1
    /\ UNCHANGED <<cfg, pc, callVars, tunnel, cmd, reading, wg>>

RunStage(s) == Skip(s) \/ Spawn(s) \/ SpawnFails(s) \/ SendFails(s) \/ Collect(s)

----------------------------------------------------------------------------

TakeSnapshot ==
    /\ pc = "snapshot"
    /\ snapshot' = TRUE
    /\ pc' = "close"
    /\ UNCHANGED <<cfg, err, panicking, phase, verdict, procVars>>

SnapshotFails ==
    /\ pc = "snapshot"
    /\ err' = TRUE
    /\ pc' = "close"
    /\ UNCHANGED <<cfg, panicking, snapshot, phase, verdict, procVars>>

\* close: wait for c.wg, send SIGTERM (or, when that fails, SIGKILL) ...
CloseSignal ==
    /\ pc = "close" /\ wg = 0
    /\ tunnel' = IF tunnel = "running" THEN "signalled" ELSE tunnel
    /\ pc' = "wait"
    /\ UNCHANGED <<cfg, callVars, cmd, reading, wg, orphans>>

\* Mutant of CloseWait: close does not wait for the process.
CloseNoWait ==
    /\ pc = "wait"
    /\ pc' = "result"
    /\ UNCHANGED <<cfg, callVars, procVars>>

\* ... and wait for the process.
CloseWait ==
    /\ pc = "wait" /\ tunnel = "dead"
    /\ tunnel' = "none"
    /\ pc' = "result"
    /\ UNCHANGED <<cfg, callVars, cmd, reading, wg, orphans>>

\* The tunnel obeys the signal, or loses its connection before.
TunnelExits ==
    /\ tunnel \in {"running", "signalled"}
    /\ tunnel' = "dead"
    /\ UNCHANGED <<cfg, pc, callVars, cmd, reading, wg, orphans>>

\* Mutant of Record: a failed backup records nothing.
RecordSuccessOnly ==
    /\ pc = "result"
    /\ verdict' = IF err THEN "none" ELSE "success"
    /\ phase' = "over"
    /\ pc' = "done"
    /\ UNCHANGED <<cfg, err, panicking, snapshot, procVars>>

\* The first deferred function, which runs last: err decides the result.
Record ==
    /\ pc = "result"
    /\ verdict' = IF err THEN "failure" ELSE "success"
    /\ phase' = "over"
    /\ pc' = "done"
    /\ UNCHANGED <<cfg, err, panicking, snapshot, procVars>>

Call ==
    \/ Create \/ CreateFails \/ Start \/ MasterPanics \/ Connect \/ ConnectFails
    \/ RsyncPanics \/ TakeSnapshot \/ SnapshotFails \/ CloseSignal \/ CloseWait \/ Record
    \/ \E s \in Stages : RunStage(s)

Done == pc = "done" /\ UNCHANGED vars

Next == Call \/ Command \/ TunnelExits \/ OrphanExits \/ Done

\* The call runs; a command that is not blocked ends, and so do its streams;
\* ssh ends once it is told to.
Fairness ==
    /\ WF_vars(Call)
    /\ WF_vars(CmdExits) /\ \A x \in Streams : WF_vars(StreamEnds(x))
    /\ WF_vars(TunnelExits /\ tunnel = "signalled")

Spec == Init /\ [][Next]_vars /\ Fairness

----------------------------------------------------------------------------
(* Properties.                                                             *)

TypeOK ==
    /\ cfg \in Configs
    /\ pc \in {"create", "start", "connect", "snapshot", "close", "wait", "result", "done"}
              \cup Stages
    /\ {err, panicking, snapshot} \subseteq BOOLEAN
    /\ tunnel \in {"none", "running", "signalled", "dead"}
    /\ cmd \in {"none", "running", "blocked", "ok", "failed"} /\ reading \subseteq Streams
    /\ wg \in 0..1 /\ orphans \in 0..1
    /\ phase \in {"called", "begun", "over"}
    /\ verdict \in {"none", "success", "failure"}

\* Before the result is recorded, on every path, the tunnel's process is gone
\* and no command is left that c.wg counts: the next backup of the host finds
\* no old master behind the control socket.
NothingLeftBehind ==
    verdict # "none" => tunnel = "none" /\ cmd = "none" /\ wg = 0

\* A backup that has started ends with a result, whatever fails: the only
\* thing that can keep it is a command blocked on the output of which a
\* scanner has given up (bufio.Scanner's limit in captureOutput).
ResultFollows == phase = "begun" ~> verdict # "none" \/ cmd = "blocked"

Life == INSTANCE BackupLife

\* PerformBackup is what Daemon.tla assumes: one state.start, then one result,
\* and "success" exactly when the snapshot was created (or the call panicked:
\* see SuccessHasSnapshot).
LifeSpec == Life!Spec

\* The snapshot shows a copy nobody is writing to: when it is taken, every
\* command of this backup has ended, including those execute gave up on, none
\* has failed, and what they have written has been read.
SnapshotIsQuiet ==
    pc = "snapshot" => cmd = "none" /\ reading = {} /\ orphans = 0 /\ ~err

\* "backup succeeded" (app/runner.go) is said of a backup that has its
\* snapshot.
SuccessHasSnapshot == verdict = "success" => snapshot
=============================================================================
