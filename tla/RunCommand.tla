----------------------------- MODULE RunCommand -----------------------------
(***************************************************************************)
(* The process of "zackup run [host [...]]": package initialisation builds *)
(* the queue, initConfig (cmd/root.go) sizes it from the service config,   *)
(* runCmd (cmd/run.go) sizes it again when -P is given, enqueues one job   *)
(* per host and waits.  When main returns the process ends, whatever its   *)
(* other goroutines are doing.                                             *)
(***************************************************************************)
EXTENDS Queue

CONSTANTS
    Settings,        \* <<"parallel" of config.yml, -P>>, each 0 when it is absent
    ArgLists,        \* the lists of jobs the command line (or the tree) names
    Known            \* the jobs whose host is in the config tree

ASSUME RunAssumption ==
    /\ Settings \subseteq (0..255) \X Int
    /\ \A s \in Settings : {s[1], s[2]} \subseteq Sizes
    /\ ArgLists \subseteq Seq(Jobs)
    /\ \A a \in ArgLists : \A i, k \in DOMAIN a : a[i] = a[k] => i = k
    /\ Known \subseteq Jobs

VARIABLES
    pc,           \* where the main goroutine is
    args,         \* the hosts the loop of runCmd has still to visit
    named,        \* all of them (never changes)
    parallel,     \* svc.Parallel (never changes)
    runParallel   \* the -P flag (never changes)

mainVars == <<pc, args, named, parallel, runParallel>>
vars     == <<qvars, mainVars>>
flags    == <<named, parallel, runParallel>>

Init ==
    /\ QInit
    /\ pc = "initConfig"
    /\ named \in ArgLists
    /\ args = named
    /\ \E s \in Settings : parallel = s[1] /\ runParallel = s[2]

\* initConfig: queue.Resize(int(svc.Parallel)).
InitConfig ==
    /\ pc = "initConfig"
    /\ Resize(parallel)
    /\ pc' = "runCmd"
    /\ UNCHANGED <<args, flags>>

\* runCmd: if runParallel > 0 { queue.Resize(runParallel) }.
ApplyFlag ==
    /\ pc = "runCmd"
    /\ \/ runParallel > 0 /\ Resize(runParallel)
       \/ runParallel <= 0 /\ UNCHANGED qvars
    /\ pc' = "loop"
    /\ UNCHANGED <<args, flags>>

\* One turn of the loop over args: an unknown host is skipped with a warning.
SkipUnknown ==
    /\ pc = "loop"
    /\ args # <<>>
    /\ Head(args) \notin Known
    /\ args' = Tail(args)
    /\ UNCHANGED <<qvars, pc, flags>>

EnqueueNext ==
    /\ pc = "loop"
    /\ args # <<>>
    /\ Head(args) \in Known
    /\ Enqueue(Head(args))
    /\ pc' = "send"
    /\ UNCHANGED <<args, flags>>

SendNext ==
    /\ pc = "send"
    /\ Send(Head(args))
    /\ pc' = "loop"
    /\ args' = Tail(args)
    /\ UNCHANGED flags

\* Mutant of WaitReturns: the command does not wait for the queue.
ReturnsAtOnce ==
    /\ pc = "loop"
    /\ args = <<>>
    /\ pc' = "exited"
    /\ UNCHANGED <<qvars, args, flags>>

\* queue.Wait() returns, the command returns, main exits.
WaitReturns ==
    /\ pc = "loop"
    /\ args = <<>>
    /\ jobGroup = 0
    /\ pc' = "exited"
    /\ UNCHANGED <<qvars, args, flags>>

MainStep == InitConfig \/ ApplyFlag \/ SkipUnknown \/ EnqueueNext \/ SendNext \/ WaitReturns

\* A worker goroutine runs only while the process does.
Goroutine(w) == pc # "exited" /\ WorkerStep(w) /\ UNCHANGED mainVars

\* The ended process (so that only a process that hangs is a deadlock).
Exited == pc = "exited" /\ UNCHANGED vars

Next == MainStep \/ Exited \/ \E w \in Workers : Goroutine(w)

\* The Go scheduler runs every runnable goroutine; a started backup ends
\* (its external commands do).
Fairness == WF_vars(MainStep) /\ \A w \in Workers : WF_vars(Goroutine(w))

Spec == Init /\ [][Next]_vars /\ Fairness

----------------------------------------------------------------------------
(* Properties.                                                             *)

TypeOK ==
    /\ QTypeOK
    /\ pc \in {"initConfig", "runCmd", "loop", "send", "exited"}
    /\ named \in ArgLists
    /\ args \in Seq(Jobs)
    /\ <<parallel, runParallel>> \in Settings

\* The pool size -P asks for, as Resize limits it, 0 when -P is absent.
Asked == IF runParallel > 0 THEN Clamp(runParallel) ELSE 0

ToBackUp == {named[i] : i \in DOMAIN named} \cap Known

\* The command returns only after every host it was asked for was backed up:
\* no backup is cut off by the exit of the process that runs it.
ExitMeansDone == pc = "exited" => done = ToBackUp /\ Busy = {}

\* The command returns: the send into a full channel, the late registration
\* of workers and the surplus workers that quit never leave a job without
\* somebody to perform it.  (This needs a pool size above 0: Resize documents
\* that "for values less then 1, 1 is assumed", and does not do so for 0.)
Terminates == <>(pc = "exited")

\* The two limits together bound the number of concurrent backups, in every
\* state from the start of the process on.  Without -P it is "parallel" alone;
\* with -P the workers of both sizings overlap, because the second Resize
\* does not count workers that have yet to register, and a worker that was
\* told to quit may take another job.  The worker a new queue begins with is
\* counted by the first sizing, unless that told it to quit.
ConfigBoundsParallelism ==
    Cardinality(Busy) <=
        IF parallel = 0 THEN 1 + Asked
        ELSE IF runParallel > 0 THEN Clamp(parallel) + Asked - 1
        ELSE Clamp(parallel)
=============================================================================
