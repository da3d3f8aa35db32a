------------------------------- MODULE Daemon -------------------------------
(***************************************************************************)
(* The daemon of "zackup serve" (cmd/serve.go): the scheduler goroutine of *)
(* app/scheduler.go, the workers of the queue, the metrics of every host   *)
(* in memory and in its ZFS properties (app/state.go), the index page, the *)
(* signal that stops the process, and its restart.                         *)
(*                                                                         *)
(* The queue is what Queue.tla makes of it once its pool has its size: a   *)
(* bounded channel and a fixed set of workers.  A backup is what callers   *)
(* of State can see of it (Backup.tla has its inside).  Between two polls  *)
(* of the scheduler any time may pass.                                     *)
(***************************************************************************)
EXTENDS Schedule, Metrics, Sequences, FiniteSets

CONSTANTS
    Hosts,          \* tree.Hosts()
    Workers,        \* the queue's workers
    JobQueueSize,   \* const jobQueueSize
    DailyAt,        \* daemon.schedule
    Jitter,         \* daemon.jitter
    Events,         \* what may happen from outside: see Crash, Stored, Index
    MaxTime,        \* bound on the clock
    Nil

ASSUME DaemonAssumption ==
    /\ JobQueueSize \in Nat \ {0}
    /\ DailyAt \in Schedules
    /\ Jitter \in Int
    /\ Events \subseteq {"crash", "zfs set", "index"}
    /\ MaxTime \in Nat
    /\ Nil \notin Hosts \cup Workers

VARIABLES
    now,            \* the clock
    main,           \* where the main goroutine is
    stop, quit,     \* sch.stop, and sch.quit: nil, open or closed
    sched,          \* where the scheduler goroutine is
    todo,           \* the hosts the loop of run() has still to visit
    current,        \* the host it is visiting or enqueueing, or Nil
    seen,           \* what the visit has read: the clock, and the StartedAt
                    \* from which Status begins
    jobs,           \* the buffer of the queue's channel
    task,           \* task[w]: the host whose job w has, or Nil
    begun,          \* the workers that have called state.start for their task
    scheduledAt,    \* metrics.ScheduledAt of each host
    mem,            \* the other metrics of each host
    disk,           \* the zackup properties of its dataset (survive a restart)
    asked,          \* asked[h][k]: enqueueings of h in window k (history)
    shared,         \* hosts two workers were backing up at once (history)
    cut             \* hosts whose last backup has no stored or no intact
                    \* result: the process ended, a zfs set failed, or the
                    \* index page truncated it (history)

schedVars   == <<sched, todo, current, seen>>
stopVars    == <<stop, quit>>
workVars    == <<jobs, task, begun>>
history     == <<asked, shared, cut>>
vars        == <<now, main, stopVars, schedVars, workVars, scheduledAt, mem, disk, history>>

Windows == Window(DailyAt, Jitter, 0)..Window(DailyAt, Jitter, MaxTime)

NotSeen == [at |-> Never, startedAt |-> Never]

Up == main \in {"serving", "signalled", "joining"}

\* The workers between state.start(h) and the result.
BackingUp(h) == {w \in begun : task[w] = h}

----------------------------------------------------------------------------
(* Starting: InitializeState loads what the datasets say and schedules     *)
(* every host; serve starts the scheduler with go and waits for a signal.  *)

Boot ==
    /\ main' = "serving"
    /\ stop' = FALSE /\ quit' = "nil"
    /\ sched' = "new" /\ todo' = {} /\ current' = Nil /\ seen' = NotSeen
    /\ jobs' = <<>> /\ task' = [w \in Workers |-> Nil] /\ begun' = {}
    /\ mem' = [h \in Hosts |-> LoadHost(disk[h])]
    /\ scheduledAt' \in [Hosts -> NextSchedule(DailyAt, Jitter, now)]
    /\ shared' = {}
    /\ UNCHANGED <<now, disk, asked, cut>>

Restart == ~Up /\ Boot

Init ==
    /\ now = 0
    /\ main = "serving"
    /\ stop = FALSE /\ quit = "nil"
    /\ sched = "new" /\ todo = {} /\ current = Nil /\ seen = NotSeen
    /\ jobs = <<>> /\ task = [w \in Workers |-> Nil] /\ begun = {}
    /\ disk = [h \in Hosts |-> NoProps]
    /\ mem = [h \in Hosts |-> LoadHost(disk[h])]
    /\ scheduledAt \in [Hosts -> NextSchedule(DailyAt, Jitter, now)]
    /\ asked = [h \in Hosts |-> [k \in Windows |-> 0]]
    /\ shared = {} /\ cut = {}

\* The process is gone, and with it the scheduler, the channel, the workers
\* and all that was in memory.
Gone(how) ==
    /\ main' = how
    /\ cut' = cut \cup {h \in Hosts : BackingUp(h) # {}}
    /\ sched' = "gone" /\ todo' = {} /\ current' = Nil /\ seen' = NotSeen
    /\ jobs' = <<>> /\ task' = [w \in Workers |-> Nil] /\ begun' = {}
    /\ mem' = [h \in Hosts |-> NoMetrics]
    /\ scheduledAt' = [h \in Hosts |-> Never]
    /\ stop' = FALSE /\ quit' = "nil" /\ shared' = {}
    /\ UNCHANGED <<now, disk, asked>>

Crash == "crash" \in Events /\ Up /\ Gone("killed")

----------------------------------------------------------------------------
(* Scheduler.Start and run.                                                *)

MakeQuit ==
    /\ sched = "new"
    /\ quit' = "open"
    /\ sched' = "starting"
    /\ UNCHANGED <<now, main, stop, todo, current, seen, workVars, scheduledAt, mem, disk, history>>

ClearStop ==
    /\ sched = "starting"
    /\ stop' = FALSE
    /\ sched' = "select"
    /\ UNCHANGED <<now, main, quit, todo, current, seen, workVars, scheduledAt, mem, disk, history>>

\* The timer fires: run() begins its loop over the hosts.
Poll ==
    /\ sched = "select"
    /\ sched' = "loop"
    /\ todo' = Hosts
    /\ UNCHANGED <<now, main, stopVars, current, seen, workVars, scheduledAt, mem, disk, history>>

\* The visit of a host begins: run() reads the clock, and Status reads
\* StartedAt first.  Nothing is locked, so a worker may go on in between.
Visit(h) ==
    /\ sched = "loop" /\ h \in todo /\ ~stop
    /\ sched' = "visit" /\ current' = h
    /\ seen' = [at |-> now, startedAt |-> mem[h].startedAt]
    /\ UNCHANGED <<now, main, stopVars, todo, workVars, scheduledAt, mem, disk, history>>

\* Mutant of Ignored: !ScheduledAt.Before(now) for ScheduledAt.After(now).
IgnoredWhenDue ==
    \/ Status([mem[current] EXCEPT !.startedAt = seen.startedAt]) = "running"
    \/ scheduledAt[current] >= seen.at

\* Mutant of Ignored: only planned jobs are ignored.
IgnoredWhenPlanned == scheduledAt[current] > seen.at

\* "ignore active or planned jobs"
Ignored ==
    \/ Status([mem[current] EXCEPT !.startedAt = seen.startedAt]) = "running"
    \/ scheduledAt[current] > seen.at

Ignore ==
    /\ sched = "visit"
    /\ Ignored
    /\ sched' = "loop" /\ todo' = todo \ {current} /\ current' = Nil /\ seen' = NotSeen
    /\ UNCHANGED <<now, main, stopVars, workVars, scheduledAt, mem, disk, history>>

Choose ==
    /\ sched = "visit"
    /\ ~Ignored
    /\ sched' = "enqueue" /\ seen' = NotSeen
    /\ asked' = [asked EXCEPT ![current][Window(DailyAt, Jitter, now)] = @ + 1]
    /\ UNCHANGED <<now, main, stopVars, todo, current, workVars, scheduledAt, mem, disk, shared, cut>>

\* Mutant of EnqueueJob: the channel has no limit.
EnqueueUnbounded ==
    /\ sched = "enqueue"
    /\ jobs' = Append(jobs, current)
    /\ sched' = "reschedule"
    /\ UNCHANGED <<now, main, stopVars, todo, current, seen, task, begun, scheduledAt, mem, disk, history>>

\* queue.Enqueue blocks while the channel is full.
EnqueueJob ==
    /\ sched = "enqueue"
    /\ Len(jobs) < JobQueueSize
    /\ jobs' = Append(jobs, current)
    /\ sched' = "reschedule"
    /\ UNCHANGED <<now, main, stopVars, todo, current, seen, task, begun, scheduledAt, mem, disk, history>>

Reschedule ==
    /\ sched = "reschedule"
    /\ \E t \in NextSchedule(DailyAt, Jitter, now) :
          scheduledAt' = [scheduledAt EXCEPT ![current] = t]
    /\ sched' = "loop" /\ todo' = todo \ {current} /\ current' = Nil
    /\ UNCHANGED <<now, main, stopVars, seen, workVars, mem, disk, history>>

\* run() returns at the end of its loop, or early when stop is set.
RunReturns ==
    /\ sched = "loop" /\ (todo = {} \/ stop)
    /\ sched' = "select" /\ todo' = {}
    /\ UNCHANGED <<now, main, stopVars, current, seen, workVars, scheduledAt, mem, disk, history>>

\* The select of Start sees quit closed: Start returns, sch.wg is done.
SeeQuit ==
    /\ sched = "select" /\ quit = "closed"
    /\ sched' = "returned" /\ quit' = "nil"
    /\ UNCHANGED <<now, main, stop, todo, current, seen, workVars, scheduledAt, mem, disk, history>>

Scheduler ==
    \/ MakeQuit \/ ClearStop \/ Poll \/ Ignore \/ Choose \/ EnqueueJob \/ Reschedule
    \/ RunReturns \/ SeeQuit
    \/ \E h \in Hosts : Visit(h)

----------------------------------------------------------------------------
(* The signal, Scheduler.Stop, and the return of main.                     *)

Signal ==
    /\ main = "serving"
    /\ main' = "signalled" /\ stop' = TRUE
    /\ UNCHANGED <<now, quit, schedVars, workVars, scheduledAt, mem, disk, history>>

\* Mutant of CloseQuit: Stop only sets the flag.
QuitNotClosed ==
    /\ main = "signalled" /\ quit = "open"
    /\ main' = "joining"
    /\ UNCHANGED <<now, stopVars, schedVars, workVars, scheduledAt, mem, disk, history>>

CloseQuit ==
    /\ main = "signalled" /\ quit = "open"
    /\ main' = "joining" /\ quit' = "closed"
    /\ UNCHANGED <<now, stop, schedVars, workVars, scheduledAt, mem, disk, history>>

\* close(nil): Start has not made the channel yet.
StopPanics == main = "signalled" /\ quit = "nil" /\ Gone("panicked")

\* sch.wg.Wait() returns; the process ends whatever its workers are doing.
Shutdown == main = "joining" /\ sched = "returned" /\ Gone("exited")

StopSteps == CloseQuit \/ StopPanics \/ Shutdown

----------------------------------------------------------------------------
(* A worker performs a job (app/runner.go).  State.start, success and      *)
(* failure hold State.mu over the zfs command; its errors are only logged. *)

\* Whether a zfs set may succeed or fail.
Stored == IF "zfs set" \in Events THEN BOOLEAN ELSE {TRUE}

TakeTask(w) ==
    /\ task[w] = Nil /\ jobs # <<>>
    /\ task' = [task EXCEPT ![w] = Head(jobs)]
    /\ jobs' = Tail(jobs)
    /\ UNCHANGED <<now, main, stopVars, schedVars, begun, scheduledAt, mem, disk, history>>

\* ds.create() fails: the job is over and nothing is recorded.
CreateFails(w) ==
    /\ task[w] # Nil /\ w \notin begun
    /\ task' = [task EXCEPT ![w] = Nil]
    /\ UNCHANGED <<now, main, stopVars, schedVars, jobs, begun, scheduledAt, mem, disk, history>>

\* state.start.  The clock has advanced since the host's last result.
StartBackup(w, stored) ==
    LET h == task[w] IN
    /\ h # Nil /\ w \notin begun
    /\ now > mem[h].succeededAt /\ now > mem[h].failedAt
    /\ mem' = [mem EXCEPT ![h] = Started(@, now)]
    /\ disk' = IF stored THEN [disk EXCEPT ![h] = StoreStart(@, now)] ELSE disk
    /\ begun' = begun \cup {w}
    /\ shared' = IF BackingUp(h) # {} THEN shared \cup {h} ELSE shared
    /\ cut' = IF stored THEN cut \ {h} ELSE cut \cup {h}
    /\ UNCHANGED <<now, main, stopVars, schedVars, jobs, task, scheduledAt, asked>>

\* state.success or state.failure, whichever the backup comes to.
EndBackup(w, ok, stored) ==
    LET h == task[w] IN
    /\ w \in begun
    /\ mem' = [mem EXCEPT ![h] = Finished(@, ok, now)]
    /\ disk' = IF stored THEN [disk EXCEPT ![h] = StoreResult(@, ok, now)] ELSE disk
    /\ task' = [task EXCEPT ![w] = Nil]
    /\ begun' = begun \ {w}
    /\ cut' = IF stored THEN cut ELSE cut \cup {h}
    /\ UNCHANGED <<now, main, stopVars, schedVars, jobs, scheduledAt, asked, shared>>

Worker(w) ==
    \/ TakeTask(w) \/ CreateFails(w)
    \/ \E stored \in Stored :
          StartBackup(w, stored) \/ \E ok \in BOOLEAN : EndBackup(w, ok, stored)

----------------------------------------------------------------------------

\* GET /: the page truncates the results it shows, in place.
Index ==
    /\ "index" \in Events /\ Up
    /\ mem' = [h \in Hosts |-> Rendered(mem[h])]
    /\ cut' = cut \cup {h \in Hosts : mem[h] # Rendered(mem[h])}
    /\ UNCHANGED <<now, main, stopVars, schedVars, workVars, scheduledAt, disk, asked, shared>>

Tick ==
    /\ now < MaxTime
    /\ now' = now + 1
    /\ UNCHANGED <<main, stopVars, schedVars, workVars, scheduledAt, mem, disk, history>>

Next ==
    \/ Scheduler \/ Signal \/ StopSteps \/ Restart \/ Crash \/ Index \/ Tick
    \/ \E w \in Workers : Worker(w)

\* Go runs every runnable goroutine, and a backup's external commands end.
\* Start's select, which a closed quit channel keeps ready, sees it sooner or
\* later: after a poll the timer is not ready again for a minute.  No signal,
\* no restart and no passing of time is assumed.
Fairness ==
    /\ WF_vars(Scheduler) /\ SF_vars(SeeQuit) /\ WF_vars(StopSteps)
    /\ \A w \in Workers : WF_vars(Worker(w))

Spec == Init /\ [][Next]_vars /\ Fairness

----------------------------------------------------------------------------
(* Properties.                                                             *)

TypeOK ==
    /\ now \in 0..MaxTime
    /\ main \in {"serving", "signalled", "joining", "exited", "panicked", "killed"}
    /\ stop \in BOOLEAN /\ quit \in {"nil", "open", "closed"}
    /\ sched \in {"new", "starting", "select", "loop", "visit", "enqueue", "reschedule",
                  "returned", "gone"}
    /\ todo \subseteq Hosts /\ current \in Hosts \cup {Nil}
    /\ seen \in [at : Instants, startedAt : Instants]
    /\ jobs \in Seq(Hosts) /\ Len(jobs) <= JobQueueSize
    /\ task \in [Workers -> Hosts \cup {Nil}] /\ begun \subseteq Workers
    /\ scheduledAt \in [Hosts -> Instants]
    /\ mem \in [Hosts -> MetricsRecord] /\ disk \in [Hosts -> ZProps]
    /\ asked \in [Hosts -> [Windows -> Nat]]
    /\ shared \subseteq Hosts /\ cut \subseteq Hosts

\* A host is enqueued at most once per day of its schedule, whatever the
\* jitter, however long Enqueue blocks, and however often the daemon is
\* stopped, killed and started in between (the next schedule is not stored,
\* it is drawn again).
OncePerDay == \A h \in Hosts : \A k \in Windows : asked[h][k] <= 1

\* A host that is being backed up has the status "running", so run() does not
\* enqueue it again: in the interval between state.start and the result, at
\* any time, after any history of results, restarts and page views.  (Unless
\* two workers already share the host: the first result hides the second
\* backup.)
ActiveIsRunning ==
    \A w \in begun : task[w] \notin shared => Status(mem[task[w]]) = "running"

\* What run() reads without State.mu is never so stale that it enqueues a host
\* whose backup it could have seen: when a host is chosen while it is being
\* backed up, that backup began after the visit had read StartedAt.
ActiveIsIgnored ==
    [][sched = "visit" /\ sched' = "enqueue" /\ BackingUp(current) # {} /\ current \notin shared
          => mem[current].startedAt # seen.startedAt]_vars

\* The converse, as far as it is true: a host whose status is "running" is
\* being backed up, or its last backup was cut off by the end of the process,
\* or a zfs set of a result failed, or the index page changed a result.
RunningIsActive ==
    \A h \in Hosts : Up /\ Status(mem[h]) = "running" => BackingUp(h) # {} \/ h \in cut

\* What "zackup status", a process of its own, prints of a host, and what the
\* daemon shows after a restart, is what this daemon knows: the verdict with
\* its time, or "unknown" when the stored seconds no longer tell success from
\* failure (a host that is being backed up, or is marked as cut, aside).
VerdictSurvives ==
    \A h \in Hosts \ cut :
        Up /\ BackingUp(h) = {} =>
            \/ StatusLine(LoadHost(disk[h])) = StatusLine(mem[h])
            \/ Status(LoadHost(disk[h])) = "unknown"

\* zackup_last_success is a counter: as long as no zfs set fails, a scrape
\* shows the stored second of the last success, before and after page views,
\* and across crashes and restarts.
LastSuccessIsStored ==
    "zfs set" \notin Events => \A h \in Hosts : Up => LastSuccess(mem[h]) = disk[h].sDate

\* Stop returns and the process ends: although run() may be blocked in
\* Enqueue, and although Stop waits for it.
StopReturns == main \in {"signalled", "joining"} ~> ~Up

\* A host whose time has come is enqueued and rescheduled, unless it is stuck
\* (see RunningIsActive): a full channel, a running backup of the same host
\* and the other hosts only delay it.
Due(h) == main = "serving" /\ scheduledAt[h] <= now
DueIsServed == \A h \in Hosts : Due(h) ~> ~Due(h) \/ h \in cut

\* The comment "ignore active or planned jobs" (app/scheduler.go): what run()
\* ignores for its status is being backed up.  "Running jobs are still
\* finished, though", says Stop: so this would hold across a restart too.
OnlyActiveIgnored ==
    \A h \in Hosts : Up /\ Status(mem[h]) = "running" => BackingUp(h) # {}
=============================================================================
