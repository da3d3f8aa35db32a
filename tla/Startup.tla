------------------------------ MODULE Startup ------------------------------
(***************************************************************************)
(* A zackup process from its start to its end (main.go, cmd/root.go):      *)
(* initConfig sets up the logging, reads the config tree, sizes the queue  *)
(* and loads the state; then the command runs, and Execute flushes the log.*)
(* It composes ConfigTree and Graylog.                                     *)
(***************************************************************************)
EXTENDS ConfigTree, Graylog

CONSTANTS
    Invocations,    \* how zackup is called: [flag, env, verbosity, gelf]
    MaxEntries      \* bound on what the command logs

ASSUME MaxEntriesAssumption == MaxEntries \in Nat

ASSUME InvocationsAssumption ==
    Invocations \subseteq [flag : Roots \cup {""}, env : Roots \cup {""},
                           verbosity : Nat, gelf : STRING]

VARIABLES
    call,       \* flags and environment: flag is --root, gelf is --gelf
    pc,         \* where the process is
    pool,       \* what queue.Resize was given, -1 before
    known,      \* the hosts of app.state
    logged      \* how many entries the command has logged

procVars == <<pc, pool, known, logged>>
vars     == <<call, diskVars, treeVars, glVars, procVars>>

Init ==
    /\ TreeInit /\ GlInit
    /\ call \in Invocations
    /\ pc = "start" /\ pool = -1 /\ known = {} /\ logged = 0

\* The environment counts only when the flag, which has a default, is empty.
treeRoot == IF call.flag = "" THEN call.env ELSE call.flag

Verbosity == CASE call.verbosity = 1 -> "debug" [] call.verbosity = 2 -> "trace" [] OTHER -> ""

\* initConfig, up to the call of tree.SetRoot.
BeginInit ==
    /\ pc = "start"
    /\ SetEndpoint(call.gelf)
    /\ SetLevel(Verbosity)
    /\ IF Verbosity = "" THEN UNCHANGED pending ELSE Log(Debug)
    /\ SetRoot(treeRoot)
    /\ pc' = "reload"
    /\ UNCHANGED <<call, disk, pool, known, logged>>

ReloadStep ==
    /\ pc = "reload"
    /\ Reload
    /\ UNCHANGED <<call, disk, glVars, procVars>>

\* Fatalf logs the entry and exits; nothing is flushed.
Fatalf ==
    /\ UNCHANGED <<level, hook, std>>
    /\ Log(Fatal)
    /\ pc' = "fatal"

\* Mutant of ReloadFails: the error is logged as a warning.
ReloadFailsWarns ==
    /\ pc = "reload" /\ stage = "failed"
    /\ pc' = "command"
    /\ UNCHANGED <<call, disk, treeVars, glVars, pool, known, logged>>

ReloadFails ==
    /\ pc = "reload" /\ stage = "failed"
    /\ Fatalf
    /\ UNCHANGED <<call, disk, treeVars, pool, known, logged>>

\* The rest of initConfig, up to app.InitializeState.  Without a service
\* config there is nothing to set up.
EndInit ==
    /\ pc = "reload" /\ stage = "ok"
    /\ IF service # <<>> /\ call.verbosity = 0 THEN SetLevel(service[1].level) ELSE UNCHANGED <<level, std>>
    /\ IF service # <<>>
       THEN pool' = service[1].parallel /\ pc' = "load" ELSE UNCHANGED pool /\ pc' = "command"
    /\ UNCHANGED hook
    /\ pending' = pending + (IF Fires(Info, hook, level, std) THEN 1 ELSE 0)
    /\ UNCHANGED <<call, disk, treeVars, known, logged>>

\* State.load: one host after the other, until zfs fails for one.
LoadHost ==
    /\ pc = "load"
    /\ \E h \in DOMAIN hosts \ known : known' = known \cup {h}
    /\ UNCHANGED <<call, disk, treeVars, glVars, pc, pool, logged>>

LoadFails ==
    /\ pc = "load" /\ known # DOMAIN hosts
    /\ Fatalf
    /\ UNCHANGED <<call, disk, treeVars, pool, known, logged>>

LoadEnds ==
    /\ pc = "load" /\ known = DOMAIN hosts
    /\ pc' = "command"
    /\ UNCHANGED <<call, disk, treeVars, glVars, pool, known, logged>>

\* The command logs at any level.
CommandLogs ==
    /\ pc = "command" /\ logged < MaxEntries
    /\ UNCHANGED <<call, disk, treeVars, level, hook, std, pc, pool, known>>
    /\ \E entry \in {Info, Debug} : Log(entry)
    /\ logged' = logged + 1

\* rootCmd.Execute returns, with an error or without.
CommandEnds ==
    /\ pc = "command"
    /\ pc' = "flush"
    /\ UNCHANGED <<call, disk, treeVars, glVars, pool, known, logged>>

\* Mutant of Exit: Execute does not flush.
ExitUnflushed ==
    /\ pc = "flush"
    /\ pc' = "exit"
    /\ UNCHANGED <<call, disk, treeVars, glVars, pool, known, logged>>

Exit ==
    /\ pc = "flush" /\ Flushed
    /\ pc' = "exit"
    /\ UNCHANGED <<call, disk, treeVars, glVars, pool, known, logged>>

\* What a process that is gone has not sent is lost.
Sender == Deliver /\ pc \notin {"exit", "fatal"} /\ UNCHANGED <<call, disk, treeVars, procVars>>

Ended == pc \in {"exit", "fatal"} /\ UNCHANGED vars

Main ==
    \/ BeginInit \/ ReloadStep \/ ReloadFails \/ EndInit \/ LoadHost \/ LoadFails \/ LoadEnds
    \/ CommandLogs \/ CommandEnds \/ Exit

Next == Main \/ Sender \/ Ended

Spec == Init /\ [][Next]_vars

----------------------------------------------------------------------------
(* Properties.                                                             *)

TypeOK ==
    /\ TreeTypeOK
    /\ level \in 0..6 /\ std \in 0..6 /\ hook \in {"none"} \cup {c.gelf : c \in Invocations}
    /\ pending \in 0..MaxEntries + 3 /\ logged \in 0..MaxEntries
    /\ call \in Invocations
    /\ pc \in {"start", "reload", "load", "command", "flush", "exit", "fatal"}
    /\ pool \in Int /\ known \subseteq DOMAIN hosts

\* A command runs after all of initConfig or not at all: the tree has been read
\* without an error, the state has the metrics of every host, and the queue has
\* the size of that tree's service config.  The one other case is an empty
\* --root without ZACKUP_ROOT: SetRoot("") finds nothing to change, and the
\* command runs on an empty tree.
CommandHasState ==
    pc \in {"command", "flush", "exit"} =>
        /\ stage = "ok"
        /\ known = DOMAIN hosts
        /\ IF treeRoot = "" THEN service = <<>> /\ known = {}
           ELSE root = treeRoot /\ pool = disk[treeRoot].service[1].parallel

Asked == IF Verbosity = "" /\ call.verbosity = 0 /\ service # <<>> THEN service[1].level ELSE Verbosity

\* While a command runs, Graylog gets what the terminal shows, at the level
\* asked for by -v or else by the config.  Without a level that logrus knows,
\* or with "panic", which gl.level starts with, the terminal stays at "info"
\* and Graylog gets nothing below a panic (SetLevel).
LevelsAgree ==
    pc = "command" =>
        IF Asked \in Names \ {"panic"}
        THEN level = ParseLevel(Asked) /\ std = level
        ELSE level = Panic /\ std = Info

\* "You need to call Flush() before exiting the program" (Middleware): every
\* entry that was fired is sent before Execute returns; only Fatalf, which
\* exits by itself, may lose some.
FlushedAtExit == pc = "exit" => pending = 0
=============================================================================
