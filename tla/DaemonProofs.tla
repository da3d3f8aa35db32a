---------------------------- MODULE DaemonProofs ----------------------------
(***************************************************************************)
(* The invariants of the daemon, for all hosts, workers, schedules,        *)
(* jitters and lengths of the units of time, and with any number of        *)
(* stops, crashes and restarts.                                            *)
(*                                                                         *)
(* OncePerDay counts calls of the past; what forbids the next one is where *)
(* scheduledAt lies.  AskedIsOver ties the two: once a host was enqueued   *)
(* in window k, k is not in the future, and the host's next time lies in a *)
(* later window, unless the scheduler is between Enqueue and reschedule    *)
(* for that very host, or the process is down.  A restart draws the time   *)
(* anew, from now on, which is why it cannot fall into window k.           *)
(*                                                                         *)
(* ActiveIsRunning needs to know that only the worker that has begun a     *)
(* host's backup ends it, which is SharedIsMarked.                         *)
(*                                                                         *)
(* The second part is about what the datasets remember.  RunningIsActive   *)
(* speaks of the metrics in memory, which a restart takes from the         *)
(* dataset.  So the argument needs Settled, the same fact for the          *)
(* properties on disk, and both need that no start lies in the future.     *)
(***************************************************************************)
EXTENDS Daemon, ScheduleLemmas

----------------------------------------------------------------------------
(* Types.                                                                  *)

\* The assumptions on the constants, one by one.
LEMMA Constants ==
    /\ DailyAt \in Schedules /\ Jitter \in Int /\ MaxTime \in Nat
    /\ JobQueueSize \in Nat \ {0} /\ Nil \notin Hosts /\ Nil \notin Workers
  BY DaemonAssumption

W(t) == Window(DailyAt, Jitter, t)

\* The window of every time the clock can show is counted.
LEMMA WindowsContain ==
    ASSUME NEW t \in 0..MaxTime
    PROVE  W(t) \in Windows /\ W(t) \in Int
  <1>1. W(0) \in Int /\ W(t) \in Int /\ W(MaxTime) \in Int
    BY Constants, BaseIsNextWindow DEF W
  <1>2. W(0) <= W(t) /\ W(t) <= W(MaxTime)
    BY Constants, WindowMonotone DEF W
  <1> QED BY <1>1, <1>2 DEF Windows, W

\* Windows are numbers.
LEMMA WindowsAreInt == Windows \subseteq Int
  <1>1. W(0) \in Int /\ W(MaxTime) \in Int
    BY Constants, BaseIsNextWindow DEF W
  <1> QED BY <1>1 DEF Windows, W

\* A time drawn now lies in the future, and in a later window.
LEMMA DrawnLater ==
    ASSUME NEW t \in 0..MaxTime, NEW n \in NextSchedule(DailyAt, Jitter, t)
    PROVE  n \in Nat /\ W(n) \in Int /\ W(n) > W(t)
  <1>1. t \in Int
    BY Constants
  <1>2. PICK a \in -HalfJitter(Jitter)..HalfJitter(Jitter) : n = Base(DailyAt, Jitter, t) + a
    BY <1>1, Constants, NearBase
  <1>3. n \in Nat
    BY <1>1, <1>2, Constants, BaseIsNextWindow, HalfJitterType
  <1> QED BY <1>1, <1>3, Constants, BaseIsNextWindow, LaterWindow DEF W

\* The seconds of an instant, and the instant of its seconds.
LEMMA UnixTypes ==
    ASSUME NEW t \in Instants
    PROVE  Unix(t) \in Instants /\ FromUnix(t) \in Instants
  <1> USE TicksAssumption
  <1>1. CASE t = Never
    BY <1>1 DEF Unix, FromUnix, Instants
  <1>2. CASE t # Never
    <2>1. t \in Nat
      BY <1>2 DEF Instants
    <2>2. t \div Second \in Nat /\ t * Second \in Nat
      <3>1. /\ t \div Second \in Int /\ t % Second \in 0..Second - 1
            /\ t = Second * (t \div Second) + (t % Second)
        BY <2>1, DivMod
      <3> QED BY <2>1, <3>1
    <2> QED BY <1>2, <2>2 DEF Unix, FromUnix, Instants
  <1> QED BY <1>1, <1>2

\* What loadHost restores is a metrics record.
LEMMA LoadTypes == ASSUME NEW p \in ZProps PROVE LoadHost(p) \in MetricsRecord
  BY UnixTypes DEF ZProps, LoadHost, MetricsRecord

\* Truncation to seconds never moves a time forward, and keeps "never".
LEMMA TruncateTimeBounds ==
    ASSUME NEW t \in Instants
    PROVE  TruncateTime(t) \in Instants /\ TruncateTime(t) <= t
  <1> USE TicksAssumption
  <1>1. TruncateTime(t) \in Instants
    BY UnixTypes DEF TruncateTime
  <1>2. CASE t = Never
    BY <1>1, <1>2 DEF TruncateTime, Unix, FromUnix, Never
  <1>3. CASE t # Never
    <2>1. t \in Nat
      BY <1>3 DEF Instants
    <2> DEFINE q == t \div Second
    <2>2. q \in Int /\ t % Second \in 0..Second - 1 /\ t = Second * q + (t % Second)
      BY <2>1, DivMod
    <2>3. Unix(t) = q
      BY <1>3 DEF Unix
    <2> HIDE DEF q
    <2>4. q \in Nat
      BY <2>1, <2>2
    <2>5. TruncateTime(t) = q * Second
      BY <2>3, <2>4 DEF TruncateTime, FromUnix, Never
    <2>6. q * Second <= t
      BY <2>1, <2>2
    <2> QED BY <1>1, <2>5, <2>6
  <1> QED BY <1>2, <1>3

\* What the index page leaves is a metrics record.
LEMMA RenderTypes ==
    ASSUME NEW m \in MetricsRecord
    PROVE  Rendered(m) \in MetricsRecord
  BY TruncateTimeBounds DEF MetricsRecord, Rendered

\* What EnqueueJob, Reschedule and EndBackup rely on: the scheduler has a host
\* when it uses one, and a worker that has begun has a task.
TInv ==
    /\ TypeOK
    /\ sched \in {"visit", "enqueue", "reschedule"} => current \in Hosts
    /\ \A w \in begun : task[w] \in Hosts

\* A visit that has read nothing.
LEMMA NotSeenType == NotSeen \in [at : Instants, startedAt : Instants]
  BY DEF NotSeen, Instants

\* The types hold when the daemon starts for the first time.
LEMMA TInvInit == Init => TInv
  <1> SUFFICES ASSUME Init PROVE TInv
    OBVIOUS
  <1>1. now \in 0..MaxTime
    BY Constants DEF Init
  <1>2. scheduledAt \in [Hosts -> Instants]
    <2>1. NextSchedule(DailyAt, Jitter, now) \subseteq Instants
      BY <1>1, DrawnLater DEF Instants
    <2> QED BY <2>1 DEF Init
  <1>3. NoProps \in ZProps
    BY DEF NoProps, ZProps, Instants
  <1>4. mem \in [Hosts -> MetricsRecord] /\ disk \in [Hosts -> ZProps]
    BY <1>3, LoadTypes DEF Init
  <1>5. jobs \in Seq(Hosts) /\ Len(jobs) <= JobQueueSize
    BY Constants DEF Init
  <1>6. asked \in [Hosts -> [Windows -> Nat]]
    BY DEF Init
  <1>7. task \in [Workers -> Hosts \cup {Nil}] /\ begun = {} /\ sched = "new"
    BY DEF Init
  <1>8. seen \in [at : Instants, startedAt : Instants]
    BY NotSeenType DEF Init
  <1> QED BY <1>1, <1>2, <1>4, <1>5, <1>6, <1>7, <1>8 DEF Init, TInv, TypeOK

\* Every step keeps the types.
LEMMA TInvNext == TInv /\ [Next]_vars => TInv'
  <1> SUFFICES ASSUME TInv, [Next]_vars PROVE TInv'
    OBVIOUS
  <1> USE Constants, NotSeenType DEF TInv
  <1>w. Windows' = Windows
    BY DEF Windows
  <1>1. CASE MakeQuit
    BY <1>1, <1>w DEF TypeOK, MakeQuit, history, workVars
  <1>2. CASE ClearStop
    BY <1>2, <1>w DEF TypeOK, ClearStop, history, workVars
  <1>3. CASE Poll
    BY <1>3, <1>w DEF TypeOK, Poll, history, workVars, stopVars
  <1>4. CASE EnqueueJob
    <2>1. current \in Hosts /\ jobs \in Seq(Hosts)
      BY <1>4 DEF EnqueueJob, TypeOK
    <2>2. jobs' \in Seq(Hosts) /\ Len(jobs') <= JobQueueSize
      BY <1>4, <2>1 DEF EnqueueJob
    <2> QED BY <1>4, <1>w, <2>1, <2>2 DEF TypeOK, EnqueueJob, history, stopVars
  <1>5. CASE Reschedule
    <2>1. PICK t \in NextSchedule(DailyAt, Jitter, now) :
            scheduledAt' = [scheduledAt EXCEPT ![current] = t]
      BY <1>5 DEF Reschedule
    <2>2. t \in Instants
      BY <2>1, DrawnLater DEF TypeOK, Instants
    <2>3. scheduledAt' \in [Hosts -> Instants]
      BY <2>1, <2>2 DEF TypeOK
    <2> QED BY <1>5, <1>w, <2>3 DEF TypeOK, Reschedule, history, stopVars, workVars
  <1>6. CASE RunReturns
    BY <1>6, <1>w DEF TypeOK, RunReturns, history, workVars, stopVars
  <1>7. CASE SeeQuit
    BY <1>7, <1>w DEF TypeOK, SeeQuit, history, workVars
  <1>8. CASE Ignore
    BY <1>8, <1>w DEF TypeOK, Ignore, history, workVars, stopVars
  <1>9. CASE Choose
    <2>0. current \in Hosts
      BY <1>9 DEF Choose
    <2>1. W(now) \in Windows
      BY WindowsContain DEF TypeOK
    <2>2. asked' = [asked EXCEPT ![current][W(now)] = @ + 1]
      BY <1>9 DEF Choose, W
    <2>3. asked' \in [Hosts -> [Windows -> Nat]]
      BY <2>0, <2>1, <2>2 DEF TypeOK
    <2> QED BY <1>9, <1>w, <2>0, <2>3 DEF TypeOK, Choose, workVars, stopVars
  <1>10. CASE Signal
    BY <1>10, <1>w DEF TypeOK, Signal, history, schedVars, workVars
  <1>11. CASE CloseQuit
    BY <1>11, <1>w DEF TypeOK, CloseQuit, history, schedVars, workVars
  <1>12. CASE StopPanics \/ Shutdown \/ Crash
    <2>1. PICK how \in {"exited", "panicked", "killed"} : Gone(how)
      BY <1>12 DEF StopPanics, Shutdown, Crash
    <2>2. NoMetrics \in MetricsRecord /\ Never \in Instants
      BY DEF NoMetrics, MetricsRecord, Instants
    <2>3. mem' \in [Hosts -> MetricsRecord] /\ scheduledAt' \in [Hosts -> Instants]
      BY <2>1, <2>2 DEF Gone
    <2>4. jobs' \in Seq(Hosts) /\ Len(jobs') <= JobQueueSize
      BY <2>1 DEF Gone
    <2>5. task' \in [Workers -> Hosts \cup {Nil}] /\ begun' = {} /\ cut' \subseteq Hosts
      BY <2>1 DEF Gone, TypeOK
    <2> QED BY <2>1, <2>3, <2>4, <2>5, <1>w DEF TypeOK, Gone
  <1>13. CASE Restart
    <2>1. scheduledAt' \in [Hosts -> Instants]
      <3>1. NextSchedule(DailyAt, Jitter, now) \subseteq Instants
        BY DrawnLater DEF Instants, TypeOK
      <3> QED BY <3>1, <1>13 DEF Restart, Boot
    <2>2. mem' \in [Hosts -> MetricsRecord]
      BY <1>13, LoadTypes DEF Restart, Boot, TypeOK
    <2>3. jobs' \in Seq(Hosts) /\ Len(jobs') <= JobQueueSize
      BY <1>13 DEF Restart, Boot
    <2>4. task' \in [Workers -> Hosts \cup {Nil}] /\ begun' = {}
      BY <1>13 DEF Restart, Boot
    <2> QED BY <1>13, <1>w, <2>1, <2>2, <2>3, <2>4 DEF TypeOK, Restart, Boot
  <1>14. CASE Index
    <2>1. mem' \in [Hosts -> MetricsRecord]
      BY <1>14, RenderTypes DEF Index, TypeOK
    <2> QED BY <1>14, <1>w, <2>1 DEF TypeOK, Index, schedVars, workVars, stopVars
  <1>15. CASE Tick
    BY <1>15, <1>w DEF TypeOK, Tick, history, schedVars, workVars, stopVars
  <1>16. ASSUME NEW w \in Workers, TakeTask(w) PROVE TInv'
    <2>1. Head(jobs) \in Hosts /\ Tail(jobs) \in Seq(Hosts) /\ Len(Tail(jobs)) <= JobQueueSize
      BY <1>16 DEF TakeTask, TypeOK
    <2> QED BY <1>16, <1>w, <2>1 DEF TypeOK, TakeTask, history, schedVars, stopVars
  <1>17. ASSUME NEW w \in Workers, CreateFails(w) PROVE TInv'
    BY <1>17, <1>w DEF TypeOK, CreateFails, history, schedVars, stopVars
  <1>18. ASSUME NEW w \in Workers, NEW stored \in BOOLEAN, StartBackup(w, stored) PROVE TInv'
    <2> DEFINE h == task[w]
    <2>1. h \in Hosts /\ now \in Instants
      BY <1>18 DEF StartBackup, TypeOK, Instants
    <2>2. Started(mem[h], now) \in MetricsRecord
      BY <2>1 DEF TypeOK, Started, MetricsRecord
    <2>3. StoreStart(disk[h], now) \in ZProps
      BY <2>1, UnixTypes DEF TypeOK, StoreStart, ZProps
    <2>4. mem' \in [Hosts -> MetricsRecord] /\ disk' \in [Hosts -> ZProps]
      BY <1>18, <2>1, <2>2, <2>3 DEF StartBackup, TypeOK
    <2>5. shared' \subseteq Hosts /\ cut' \subseteq Hosts
      BY <1>18, <2>1 DEF StartBackup, TypeOK
    <2> QED BY <1>18, <1>w, <2>1, <2>4, <2>5 DEF TypeOK, StartBackup, schedVars, stopVars
  <1>19. ASSUME NEW w \in Workers, NEW ok \in BOOLEAN, NEW stored \in BOOLEAN,
                EndBackup(w, ok, stored)
         PROVE  TInv'
    <2> DEFINE h == task[w]
    <2>1. h \in Hosts /\ now \in Instants
      BY <1>19 DEF EndBackup, TypeOK, Instants
    <2>2. Finished(mem[h], ok, now) \in MetricsRecord
      BY <2>1 DEF TypeOK, Finished, MetricsRecord
    <2>3. StoreResult(disk[h], ok, now) \in ZProps
      BY <2>1, UnixTypes DEF TypeOK, StoreResult, ZProps
    <2>4. mem' \in [Hosts -> MetricsRecord] /\ disk' \in [Hosts -> ZProps]
      BY <1>19, <2>1, <2>2, <2>3 DEF EndBackup, TypeOK
    <2>5. cut' \subseteq Hosts
      BY <1>19, <2>1 DEF EndBackup, TypeOK
    <2> QED BY <1>19, <1>w, <2>1, <2>4, <2>5 DEF TypeOK, EndBackup, schedVars, stopVars
  <1>20. CASE UNCHANGED vars
    BY <1>20, <1>w DEF TypeOK, vars, history, schedVars, workVars, stopVars
  <1>21. Stored \subseteq BOOLEAN
    BY DEF Stored
  <1>22. ASSUME NEW h \in Hosts, Visit(h) PROVE TInv'
    <2>1. seen' \in [at : Instants, startedAt : Instants]
      BY <1>22 DEF Visit, TypeOK, MetricsRecord, Instants
    <2> QED BY <1>22, <1>w, <2>1 DEF TypeOK, Visit, history, workVars, stopVars
  <1> QED BY <1>22, <1>1, <1>2, <1>3, <1>4, <1>5, <1>6, <1>7, <1>8, <1>9, <1>10, <1>11, <1>12,
             <1>13, <1>14, <1>15, <1>16, <1>17, <1>18, <1>19, <1>20, <1>21
          DEF Next, Scheduler, StopSteps, Worker

\* Every variable of the daemon keeps its type: the channel never holds more
\* than its capacity, and every time that is scheduled lies after the epoch.
THEOREM DaemonTypes == Spec => []TypeOK
  <1>1. TInv => TypeOK
    BY DEF TInv
  <1> QED BY <1>1, TInvInit, TInvNext, PTL DEF Spec

----------------------------------------------------------------------------
(* Once a day.                                                             *)

Chosen(h) == sched \in {"enqueue", "reschedule"} /\ current = h

\* Only what the argument needs of the types.
Shape ==
    /\ now \in 0..MaxTime
    /\ Up \/ sched = "gone"
    /\ sched = "visit" => current \in Hosts /\ seen.at \in Int /\ seen.at <= now
    /\ scheduledAt \in [Hosts -> Int]
    /\ asked \in [Hosts -> [Windows -> Nat]]

AskedIsOver ==
    \A h \in Hosts : \A k \in Windows :
        asked[h][k] > 0 =>
            /\ k <= W(now)
            /\ ~Up \/ Chosen(h) \/ W(scheduledAt[h]) > k

DInv == Shape /\ OncePerDay /\ AskedIsOver

\* Nothing was enqueued before the first start.
LEMMA DInvInit == Init => DInv
  <1> SUFFICES ASSUME Init PROVE DInv
    OBVIOUS
  <1>1. now \in 0..MaxTime /\ now = 0
    BY Constants DEF Init
  <1>2. scheduledAt \in [Hosts -> Int]
    <2>1. NextSchedule(DailyAt, Jitter, now) \subseteq Int
      BY <1>1, DrawnLater
    <2> QED BY <2>1 DEF Init
  <1>3. Shape
    BY <1>1, <1>2 DEF Init, Shape, Up
  <1>4. \A h \in Hosts : \A k \in Windows : asked[h][k] = 0
    BY DEF Init
  <1> QED BY <1>3, <1>4 DEF DInv, OncePerDay, AskedIsOver

----------------------------------------------------------------------------
(* The steps.                                                              *)

\* Steps that leave the counters and the schedule alone, and do not bring a
\* host out of Chosen or the process back.
LEMMA Quiet ==
    ASSUME DInv,
           UNCHANGED <<asked, scheduledAt>>,
           now' \in 0..MaxTime, now' >= now,
           Up' => Up,
           Up' \/ sched' = "gone",
           sched' = "visit" =>
               sched = "visit" /\ UNCHANGED <<current, seen>>,
           \A h \in Hosts : Up' /\ Chosen(h) => Chosen(h)'
    PROVE  DInv'
  <1>1. Shape'
    BY Constants DEF DInv, Shape, Windows
  <1>2. OncePerDay'
    BY DEF DInv, OncePerDay, Windows
  <1>3. AskedIsOver'
    <2> SUFFICES ASSUME NEW h \in Hosts, NEW k \in Windows, asked[h][k] > 0
                 PROVE  k <= W(now') /\ (~Up' \/ Chosen(h)' \/ W(scheduledAt[h]) > k)
      BY DEF AskedIsOver, W, Windows
    <2>1. k <= W(now) /\ (~Up \/ Chosen(h) \/ W(scheduledAt[h]) > k)
      BY DEF DInv, AskedIsOver
    <2>2. W(now) <= W(now') /\ W(now) \in Int /\ W(now') \in Int /\ k \in Int
      BY Constants, WindowMonotone, WindowsContain, WindowsAreInt DEF W, DInv, Shape
    <2> QED BY <2>1, <2>2
  <1> QED BY <1>1, <1>2, <1>3 DEF DInv

\* The visit reads the clock, which only advances.
LEMMA VisitStep == ASSUME DInv, NEW h \in Hosts, Visit(h) PROVE DInv'
  <1>0. now \in 0..MaxTime /\ now \in Int /\ UNCHANGED <<now, main, asked, scheduledAt>>
    BY Constants DEF DInv, Shape, Visit, history
  <1>1. Shape'
    BY <1>0 DEF DInv, Shape, Visit, Up, Windows
  <1>2. OncePerDay'
    BY <1>0 DEF DInv, OncePerDay, Windows
  <1>3. \A g \in Hosts : ~Chosen(g)
    BY DEF Visit, Chosen
  <1>4. AskedIsOver'
    BY <1>0, <1>3 DEF DInv, AskedIsOver, W, Windows, Up
  <1> QED BY <1>1, <1>2, <1>4 DEF DInv

\* The end of the process leaves the counters alone.
LEMMA GoneStep == ASSUME DInv, NEW how, how \in {"exited", "panicked", "killed"}, Gone(how)
                  PROVE  DInv'
  <1>1. Shape'
    BY DEF DInv, Shape, Gone, Never, Windows
  <1>2. OncePerDay'
    BY DEF DInv, OncePerDay, Gone, Windows
  <1>3. ~Up'
    BY DEF Gone, Up
  <1>4. AskedIsOver'
    BY <1>3 DEF DInv, AskedIsOver, Gone, W, Windows
  <1> QED BY <1>1, <1>2, <1>4 DEF DInv

\* A restart draws a time in a later window than the present one.
LEMMA BootStep == ASSUME DInv, Boot PROVE DInv'
  <1>0. now \in 0..MaxTime /\ now' = now /\ asked' = asked
    BY DEF DInv, Shape, Boot
  <1>1. \A h \in Hosts : scheduledAt'[h] \in Int /\ W(scheduledAt'[h]) \in Int
                         /\ W(scheduledAt'[h]) > W(now)
    <2> TAKE h \in Hosts
    <2>1. scheduledAt'[h] \in NextSchedule(DailyAt, Jitter, now)
      BY DEF Boot
    <2> QED BY <1>0, <2>1, DrawnLater
  <1>2. scheduledAt' \in [Hosts -> Int]
    BY <1>1 DEF Boot
  <1>3. Shape'
    BY <1>0, <1>2 DEF Boot, Shape, DInv, Up, Windows
  <1>4. OncePerDay'
    BY <1>0 DEF DInv, OncePerDay, Windows
  <1>5. AskedIsOver'
    <2> SUFFICES ASSUME NEW h \in Hosts, NEW k \in Windows, asked[h][k] > 0
                 PROVE  k <= W(now) /\ W(scheduledAt'[h]) > k
      BY <1>0 DEF AskedIsOver, W, Windows
    <2>1. k <= W(now)
      BY DEF DInv, AskedIsOver
    <2>2. W(now) \in Int /\ k \in Int
      BY <1>0, WindowsContain, WindowsAreInt
    <2> QED BY <1>1, <2>1, <2>2
  <1> QED BY <1>3, <1>4, <1>5 DEF DInv

\* The host's time has come, so its window is not beyond the present one: it
\* was not enqueued in this window before.
LEMMA ChooseStep == ASSUME DInv, Choose PROVE DInv'
  <1> DEFINE n == W(now)
  <1>p. PICK h \in Hosts : h = current
    BY DEF DInv, Shape, Choose
  <1>0. now \in 0..MaxTime /\ now' = now /\ scheduledAt' = scheduledAt /\ main' = main
    BY DEF DInv, Shape, Choose
  <1>1. n \in Windows /\ n \in Int
    BY <1>0, WindowsContain
  <1>2. Up /\ Up' /\ sched = "visit" /\ Chosen(h)'
    BY <1>0, <1>p DEF Choose, DInv, Shape, Up, Chosen
  <1>3. scheduledAt[h] \in Int /\ scheduledAt[h] <= now
    <2>1. scheduledAt[h] \in Int /\ seen.at \in Int /\ seen.at <= now /\ now \in Int
      BY <1>0, Constants DEF Choose, DInv, Shape
    <2>2. ~(scheduledAt[h] > seen.at)
      BY <1>p DEF Choose, Ignored
    <2> QED BY <2>1, <2>2
  <1>4. W(scheduledAt[h]) <= n /\ W(scheduledAt[h]) \in Int
    BY <1>0, <1>3, Constants, WindowMonotone, BaseIsNextWindow DEF W
  <1>5. asked[h][n] = 0
    <2>1. asked[h][n] \in Nat
      BY <1>1 DEF DInv, Shape
    <2>2. SUFFICES ASSUME asked[h][n] > 0 PROVE FALSE
      BY <2>1
    <2>3. ~Up \/ Chosen(h) \/ W(scheduledAt[h]) > n
      BY <1>1, <2>2 DEF DInv, AskedIsOver
    <2>4. ~Chosen(h)
      BY <1>2 DEF Chosen
    <2> QED BY <1>1, <1>2, <1>4, <2>3, <2>4
  <1>6. asked' = [asked EXCEPT ![h][n] = @ + 1]
    BY <1>p DEF Choose, W
  <1> HIDE DEF n
  <1>7. asked' \in [Hosts -> [Windows -> Nat]] /\ asked'[h][n] = 1
    BY <1>1, <1>5, <1>6 DEF DInv, Shape
  <1>8. \A g \in Hosts : \A k \in Windows : <<g, k>> # <<h, n>> => asked'[g][k] = asked[g][k]
    BY <1>1, <1>6 DEF DInv, Shape
  <1>9. Shape'
    <2>1. sched' # "visit"
      BY DEF Choose
    <2> QED BY <1>0, <1>2, <1>7, <2>1 DEF Shape, DInv, Windows
  <1>10. OncePerDay'
    <2> SUFFICES ASSUME NEW g \in Hosts, NEW k \in Windows PROVE asked'[g][k] <= 1
      BY DEF OncePerDay, Windows
    <2>1. CASE <<g, k>> = <<h, n>>
      BY <1>7, <2>1
    <2>2. CASE <<g, k>> # <<h, n>>
      BY <1>8, <2>2 DEF DInv, OncePerDay
    <2> QED BY <2>1, <2>2
  <1>11. AskedIsOver'
    <2> SUFFICES ASSUME NEW g \in Hosts, NEW k \in Windows, asked'[g][k] > 0
                 PROVE  k <= W(now) /\ (Chosen(g)' \/ W(scheduledAt[g]) > k)
      BY <1>0, <1>2 DEF AskedIsOver, W, Windows
    <2>1. CASE <<g, k>> = <<h, n>>
      BY <1>1, <1>2, <2>1 DEF n
    <2>2. CASE <<g, k>> # <<h, n>>
      <3>1. asked[g][k] > 0
        BY <1>8, <2>2
      <3>2. k <= W(now) /\ (~Up \/ Chosen(g) \/ W(scheduledAt[g]) > k)
        BY <3>1 DEF DInv, AskedIsOver
      <3>3. ~Chosen(g)
        BY <1>2 DEF Chosen
      <3> QED BY <1>2, <3>2, <3>3
    <2> QED BY <2>1, <2>2
  <1> QED BY <1>9, <1>10, <1>11 DEF DInv

\* The chosen host gets a time in a later window than the present one.
LEMMA RescheduleStep == ASSUME DInv, Reschedule PROVE DInv'
  <1>0. now \in 0..MaxTime /\ now' = now /\ asked' = asked /\ main' = main
    BY DEF DInv, Shape, Reschedule, history
  <1>1. PICK t \in NextSchedule(DailyAt, Jitter, now) :
          scheduledAt' = [scheduledAt EXCEPT ![current] = t]
    BY DEF Reschedule
  <1>2. t \in Int /\ W(t) \in Int /\ W(t) > W(now)
    BY <1>0, <1>1, DrawnLater
  <1>3. Up /\ Up'
    BY <1>0 DEF Reschedule, DInv, Shape, Up
  <1>4. Shape'
    <2>1. sched' # "visit"
      BY DEF Reschedule
    <2> QED BY <1>0, <1>1, <1>2, <1>3, <2>1 DEF Shape, DInv, Windows
  <1>5. OncePerDay'
    BY <1>0 DEF DInv, OncePerDay, Windows
  <1>6. AskedIsOver'
    <2> SUFFICES ASSUME NEW g \in Hosts, NEW k \in Windows, asked[g][k] > 0
                 PROVE  k <= W(now) /\ W(scheduledAt'[g]) > k
      BY <1>0 DEF AskedIsOver, W, Windows
    <2>1. k <= W(now) /\ (~Up \/ Chosen(g) \/ W(scheduledAt[g]) > k)
      BY DEF DInv, AskedIsOver
    <2>2. W(now) \in Int /\ k \in Int
      BY <1>0, WindowsContain, WindowsAreInt
    <2>3. CASE g = current
      <3>1. scheduledAt'[g] = t
        BY <1>1, <2>3 DEF DInv, Shape
      <3> QED BY <1>2, <2>1, <2>2, <3>1
    <2>4. CASE g # current
      <3>1. scheduledAt'[g] = scheduledAt[g]
        BY <1>1, <2>4 DEF DInv, Shape
      <3>2. ~Chosen(g)
        BY <2>4 DEF Chosen
      <3> QED BY <1>3, <2>1, <3>1, <3>2
    <2> QED BY <2>3, <2>4
  <1> QED BY <1>4, <1>5, <1>6 DEF DInv

\* Every step keeps the invariant: most are quiet.
LEMMA DInvNext == DInv /\ [Next]_vars => DInv'
  <1> SUFFICES ASSUME DInv, [Next]_vars PROVE DInv'
    OBVIOUS
  <1>0. now \in 0..MaxTime /\ now \in Int /\ (Up \/ sched = "gone")
    BY Constants DEF DInv, Shape
  \* The premises of Quiet for a step that keeps the clock and the process.
  <1>q. ASSUME UNCHANGED <<asked, scheduledAt, now>>, Up' <=> Up, Up' \/ sched' = "gone",
               sched' = "visit" => sched = "visit" /\ UNCHANGED <<current, seen>>,
               \A h \in Hosts : Chosen(h) => Chosen(h)'
        PROVE  DInv'
    BY <1>0, <1>q, Quiet
  <1>1. CASE MakeQuit
    BY <1>0, <1>1, <1>q DEF MakeQuit, history, Up, Chosen
  <1>2. CASE ClearStop
    BY <1>0, <1>2, <1>q DEF ClearStop, history, Up, Chosen
  <1>3. CASE Poll
    BY <1>0, <1>3, <1>q DEF Poll, history, Up, Chosen
  <1>4. CASE EnqueueJob
    BY <1>0, <1>4, <1>q DEF EnqueueJob, history, Up, Chosen
  <1>5. CASE Reschedule
    BY <1>5, RescheduleStep
  <1>6. CASE RunReturns
    BY <1>0, <1>6, <1>q DEF RunReturns, history, Up, Chosen
  <1>7. CASE SeeQuit
    BY <1>0, <1>7, <1>q DEF SeeQuit, history, Up, Chosen
  <1>8. CASE Ignore
    BY <1>0, <1>8, <1>q DEF Ignore, history, Up, Chosen
  <1>9. CASE Choose
    BY <1>9, ChooseStep
  <1>10. CASE Signal
    BY <1>0, <1>10, <1>q DEF Signal, history, schedVars, Up, Chosen
  <1>11. CASE CloseQuit
    BY <1>0, <1>11, <1>q DEF CloseQuit, history, schedVars, Up, Chosen
  <1>12. CASE StopPanics \/ Shutdown \/ Crash
    BY <1>12, GoneStep DEF StopPanics, Shutdown, Crash
  <1>13. CASE Restart
    BY <1>13, BootStep DEF Restart
  <1>14. CASE Index
    BY <1>0, <1>14, <1>q DEF Index, schedVars, Up, Chosen
  <1>15. CASE Tick
    <2>1. now' \in 0..MaxTime /\ now' >= now
      BY <1>0, <1>15, Constants DEF Tick
    <2> QED BY <1>0, <1>15, <2>1, Quiet DEF Tick, history, schedVars, Up, Chosen
  <1>16. ASSUME NEW w \in Workers, Worker(w) PROVE DInv'
    <2>1. UNCHANGED <<asked, scheduledAt, now, main, sched, current, seen>>
      BY <1>16 DEF Worker, TakeTask, CreateFails, StartBackup, EndBackup, history, schedVars
    <2> QED BY <1>0, <2>1, <1>q DEF Up, Chosen
  <1>17. CASE UNCHANGED vars
    BY <1>0, <1>17, <1>q DEF vars, history, schedVars, Up, Chosen
  <1>18. ASSUME NEW h \in Hosts, Visit(h) PROVE DInv'
    BY <1>18, VisitStep
  <1> QED BY <1>1, <1>2, <1>3, <1>4, <1>5, <1>6, <1>7, <1>8, <1>9, <1>10, <1>11, <1>12,
             <1>13, <1>14, <1>15, <1>16, <1>17, <1>18 DEF Next, Scheduler, StopSteps

\* run() enqueues a host at most once in every day of its schedule, whatever
\* the jitter and however often the process ends and is started again.
THEOREM DaemonOncePerDay == Spec => []OncePerDay
  <1>1. DInv => OncePerDay
    BY DEF DInv
  <1> QED BY <1>1, DInvInit, DInvNext, PTL DEF Spec

----------------------------------------------------------------------------
(* Active is running.                                                      *)

\* The comparison of app/metric_status.go without its zero and nil cases.
LEMMA RunningIff ==
    ASSUME NEW m \in MetricsRecord
    PROVE  Status(m) = "running" <=>
             /\ m.startedAt # Never
             /\ m.startedAt > m.succeededAt /\ m.startedAt > m.failedAt
  BY DEF Status, MetricsRecord, Instants, Never

\* Truncating results, as the index page does, cannot end "running".
LEMMA RenderedRunning ==
    ASSUME NEW m \in MetricsRecord, Status(m) = "running"
    PROVE  Status(Rendered(m)) = "running"
  <1> DEFINE r == Rendered(m)
  <1>1. r \in MetricsRecord
    BY RenderTypes
  <1>2. /\ m.startedAt # Never
        /\ m.startedAt > m.succeededAt /\ m.startedAt > m.failedAt
    BY RunningIff
  <1>3. /\ r.startedAt = m.startedAt
        /\ r.succeededAt = TruncateTime(m.succeededAt)
        /\ r.failedAt = TruncateTime(m.failedAt)
    BY <1>2 DEF Rendered, MetricsRecord
  <1>4. /\ m.startedAt \in Instants /\ m.succeededAt \in Instants /\ m.failedAt \in Instants
    BY DEF MetricsRecord
  <1>5. /\ r.succeededAt \in Instants /\ r.succeededAt <= m.succeededAt
        /\ r.failedAt \in Instants /\ r.failedAt <= m.failedAt
    BY <1>3, <1>4, TruncateTimeBounds
  <1>6. r.startedAt # Never /\ r.startedAt > r.succeededAt /\ r.startedAt > r.failedAt
    BY <1>2, <1>3, <1>4, <1>5 DEF Instants, Never
  <1> HIDE DEF r
  <1>7. Status(r) = "running"
    BY <1>1, <1>6, RunningIff
  <1> QED BY <1>7 DEF r

\* Two workers with one host make it shared: without this, the result of the
\* one could end "running" under the other.
SharedIsMarked ==
    \A v, w \in begun : task[v] = task[w] /\ v # w => task[w] \in shared

AInv == TInv /\ SharedIsMarked /\ ActiveIsRunning

\* No worker has begun.
LEMMA AInvInit == Init => AInv
  <1>1. Init => begun = {}
    BY DEF Init
  <1> QED BY <1>1, TInvInit DEF AInv, SharedIsMarked, ActiveIsRunning

\* Only state.start, a result and the index page touch the status of a host.
LEMMA AInvNext == AInv /\ [Next]_vars => AInv'
  <1> SUFFICES ASSUME AInv, [Next]_vars PROVE SharedIsMarked' /\ ActiveIsRunning'
    BY TInvNext DEF AInv
  <1> USE DEF AInv
  \* Steps of the scheduler, of main and of the clock.
  <1>q. ASSUME UNCHANGED <<begun, task, shared, mem>>
        PROVE  SharedIsMarked' /\ ActiveIsRunning'
    BY <1>q DEF SharedIsMarked, ActiveIsRunning
  \* The process ends or begins: there is no worker that has begun.
  <1>e. ASSUME begun' = {} PROVE SharedIsMarked' /\ ActiveIsRunning'
    BY <1>e DEF SharedIsMarked, ActiveIsRunning
  <1>1. CASE Scheduler
    <2>1. UNCHANGED <<begun, task, shared, mem>>
      BY <1>1 DEF Scheduler, MakeQuit, ClearStop, Poll, EnqueueJob, Reschedule, RunReturns,
                  SeeQuit, Visit, Ignore, Choose, workVars, history
    <2> QED BY <2>1, <1>q
  <1>2. CASE Signal \/ CloseQuit \/ Tick \/ UNCHANGED vars
    <2>1. UNCHANGED <<begun, task, shared, mem>>
      BY <1>2 DEF Signal, CloseQuit, Tick, vars, workVars, history
    <2> QED BY <2>1, <1>q
  <1>3. CASE StopPanics \/ Shutdown \/ Crash \/ Restart
    BY <1>3, <1>e DEF StopPanics, Shutdown, Crash, Restart, Gone, Boot
  <1>4. CASE Index
    <2>1. UNCHANGED <<begun, task, shared>>
      BY <1>4 DEF Index, workVars
    <2>2. \A h \in Hosts : mem'[h] = Rendered(mem[h]) /\ mem[h] \in MetricsRecord
      BY <1>4 DEF Index, TInv, TypeOK
    <2>3. \A w \in begun : task[w] \in Hosts
      BY DEF TInv
    <2>4. ActiveIsRunning'
      BY <2>1, <2>2, <2>3, RenderedRunning DEF ActiveIsRunning
    <2> QED BY <2>1, <2>4 DEF SharedIsMarked
  <1>5. ASSUME NEW w \in Workers, TakeTask(w) \/ CreateFails(w)
        PROVE  SharedIsMarked' /\ ActiveIsRunning'
    <2>1. w \notin begun
      BY <1>5, Constants DEF TakeTask, CreateFails, TInv
    <2>2. UNCHANGED <<begun, shared, mem>> /\ \A v \in begun : task'[v] = task[v]
      BY <1>5, <2>1 DEF TakeTask, CreateFails, history, TInv, TypeOK
    <2> QED BY <2>2 DEF SharedIsMarked, ActiveIsRunning
  <1>6. ASSUME NEW w \in Workers, NEW stored \in BOOLEAN, StartBackup(w, stored)
        PROVE  SharedIsMarked' /\ ActiveIsRunning'
    <2> DEFINE h == task[w]
    <2>1. h \in Hosts /\ mem[h] \in MetricsRecord /\ now \in Nat
      BY <1>6 DEF StartBackup, TInv, TypeOK
    <2>2. task' = task /\ begun' = begun \cup {w} /\ w \notin begun
      BY <1>6 DEF StartBackup
    <2>3. /\ \A v \in begun : task[v] = h => h \in shared'
          /\ shared \subseteq shared'
      BY <1>6 DEF StartBackup, BackingUp
    <2>4. SharedIsMarked'
      BY <2>2, <2>3 DEF SharedIsMarked
    <2>5. mem'[h] = Started(mem[h], now) /\ \A g \in Hosts \ {h} : mem'[g] = mem[g]
      BY <1>6, <2>1 DEF StartBackup, TInv, TypeOK
    <2>6. Status(mem'[h]) = "running"
      <3> DEFINE m == Started(mem[h], now)
      <3>1. m \in MetricsRecord /\ m.startedAt = now
            /\ m.succeededAt = mem[h].succeededAt /\ m.failedAt = mem[h].failedAt
        BY <2>1 DEF Started, MetricsRecord, Instants
      <3>2. now > mem[h].succeededAt /\ now > mem[h].failedAt /\ now # Never
        BY <1>6, <2>1 DEF StartBackup, Never
      <3> HIDE DEF m
      <3>3. Status(m) = "running"
        BY <3>1, <3>2, RunningIff
      <3> QED BY <2>5, <3>3 DEF m
    <2>7. ActiveIsRunning'
      <3> SUFFICES ASSUME NEW v \in begun', task[v] \notin shared'
                   PROVE  Status(mem'[task[v]]) = "running"
        BY <2>2 DEF ActiveIsRunning
      <3>1. CASE task[v] = h
        BY <2>6, <3>1
      <3>2. CASE task[v] # h
        <4>1. v \in begun /\ task[v] \in Hosts \ {h} /\ task[v] \notin shared
          BY <2>2, <2>3, <3>2 DEF TInv
        <4> QED BY <2>5, <4>1 DEF ActiveIsRunning
      <3> QED BY <3>1, <3>2
    <2> QED BY <2>4, <2>7
  <1>7. ASSUME NEW w \in Workers, NEW ok \in BOOLEAN, NEW stored \in BOOLEAN,
               EndBackup(w, ok, stored)
        PROVE  SharedIsMarked' /\ ActiveIsRunning'
    <2> DEFINE h == task[w]
    <2>1. w \in begun /\ h \in Hosts
      BY <1>7 DEF EndBackup, TInv
    <2>2. /\ begun' = begun \ {w} /\ shared' = shared
          /\ \A v \in begun \ {w} : task'[v] = task[v]
          /\ \A g \in Hosts \ {h} : mem'[g] = mem[g]
      BY <1>7, <2>1 DEF EndBackup, TInv, TypeOK
    <2>3. SharedIsMarked'
      BY <2>2 DEF SharedIsMarked
    <2>4. ActiveIsRunning'
      <3> SUFFICES ASSUME NEW v \in begun \ {w}, task[v] \notin shared
                   PROVE  Status(mem'[task[v]]) = "running"
        BY <2>2 DEF ActiveIsRunning
      <3>1. task[v] # h
        BY <2>1 DEF SharedIsMarked
      <3>2. task[v] \in Hosts \ {h}
        BY <3>1 DEF TInv
      <3> QED BY <2>2, <3>2 DEF ActiveIsRunning
    <2> QED BY <2>3, <2>4
  <1>8. Stored \subseteq BOOLEAN
    BY DEF Stored
  <1> QED BY <1>1, <1>2, <1>3, <1>4, <1>5, <1>6, <1>7, <1>8 DEF Next, StopSteps, Worker

\* A host that is being backed up by one worker has the status "running" from
\* state.start to its result, whatever is stored, viewed or restarted: run()
\* does not enqueue it while it is active.
THEOREM DaemonActiveIsRunning == Spec => []ActiveIsRunning
  <1>1. AInv => ActiveIsRunning
    BY DEF AInv
  <1> QED BY <1>1, AInvInit, AInvNext, PTL DEF Spec

\* A host that is chosen while a worker backs it up was not yet in that backup
\* when the visit read StartedAt: what run() reads without a lock is never so
\* stale that it starts a second backup beside one it could have seen.
THEOREM DaemonActiveIsIgnored == Spec => ActiveIsIgnored
  <1> DEFINE Step == sched = "visit" /\ sched' = "enqueue"
                       /\ BackingUp(current) # {} /\ current \notin shared
                     => mem[current].startedAt # seen.startedAt
  <1>1. ASSUME AInv, [Next]_vars PROVE Step
    <2> SUFFICES ASSUME sched = "visit", sched' = "enqueue",
                        BackingUp(current) # {}, current \notin shared,
                        mem[current].startedAt = seen.startedAt
                 PROVE  FALSE
      OBVIOUS
    <2>1. current \in Hosts /\ mem[current] \in MetricsRecord
      BY <1>1 DEF AInv, TInv, TypeOK
    <2>2. Status(mem[current]) = "running"
      BY <1>1 DEF AInv, ActiveIsRunning, BackingUp
    <2>3. [mem[current] EXCEPT !.startedAt = seen.startedAt] = mem[current]
      BY <2>1 DEF MetricsRecord
    <2>4. Ignored
      BY <2>2, <2>3 DEF Ignored
    <2>5. Choose
      BY <1>1 DEF Next, Scheduler, MakeQuit, ClearStop, Poll, Ignore, EnqueueJob, Reschedule,
                  RunReturns, SeeQuit, Visit, Signal, StopSteps, CloseQuit, StopPanics, Shutdown,
                  Restart, Boot, Crash, Gone, Index, Tick, Worker, TakeTask, CreateFails,
                  StartBackup, EndBackup, vars, schedVars
    <2> QED BY <2>4, <2>5 DEF Choose
  <1>2. AInv /\ [Next]_vars => [Step]_vars
    BY <1>1
  <1> QED BY <1>2, AInvInit, AInvNext, PTL DEF Spec, ActiveIsIgnored

----------------------------------------------------------------------------
(* Seconds.                                                                *)

\* A stored second that is loaded is the same second again.
LEMMA UnixOfFromUnix == ASSUME NEW s \in Instants PROVE Unix(FromUnix(s)) = s
  <1> USE TicksAssumption
  <1>1. CASE s = Never
    BY <1>1 DEF Unix, FromUnix
  <1>2. CASE s # Never
    <2>1. s \in Nat
      BY <1>2 DEF Instants
    <2> DEFINE t == s * Second
    <2>2. t \in Nat /\ t = Second * s + 0
      BY <2>1
    <2>3. FromUnix(s) = t /\ t # Never
      BY <1>2, <2>2 DEF FromUnix, Never
    <2> HIDE DEF t
    <2>4. t \div Second = s
      BY <2>1, <2>2, DivUnique
    <2> QED BY <2>3, <2>4 DEF Unix
  <1> QED BY <1>1, <1>2

\* A later instant is not in an earlier second.
LEMMA UnixMonotone ==
    ASSUME NEW t \in Instants, NEW u \in Instants, t <= u
    PROVE  Unix(t) <= Unix(u)
  <1> USE TicksAssumption
  <1>1. CASE t = Never
    <2>1. Unix(t) = -1
      BY <1>1 DEF Unix, Never
    <2> QED BY <2>1, UnixTypes DEF Instants, Never
  <1>2. CASE t # Never
    <2>1. t \in Nat /\ u \in Nat
      BY <1>2 DEF Instants, Never
    <2> DEFINE p == t \div Second
               q == u \div Second
    <2>2. /\ p \in Int /\ t % Second \in 0..Second - 1 /\ t = Second * p + (t % Second)
          /\ q \in Int /\ u % Second \in 0..Second - 1 /\ u = Second * q + (u % Second)
      BY <2>1, DivMod
    <2>3. Unix(t) = p /\ Unix(u) = q
      BY <2>1 DEF Unix, Never
    <2> HIDE DEF p, q
    <2>4. SUFFICES ASSUME p >= q + 1 PROVE FALSE
      BY <2>2, <2>3
    <2>5. Second * p >= Second * (q + 1)
      BY <2>2, <2>4
    <2>6. Second * (q + 1) = Second * q + Second
      BY <2>2
    <2> QED BY <2>1, <2>2, <2>5, <2>6
  <1> QED BY <1>1, <1>2

\* Nor the other way round.
LEMMA FromUnixMonotone ==
    ASSUME NEW s \in Instants, NEW u \in Instants, s <= u
    PROVE  FromUnix(s) <= FromUnix(u)
  <1> USE TicksAssumption
  <1>1. CASE s = Never
    <2>1. FromUnix(s) = -1
      BY <1>1 DEF FromUnix, Never
    <2> QED BY <2>1, UnixTypes DEF Instants, Never
  <1>2. CASE s # Never
    <2>1. s \in Nat /\ u \in Nat
      BY <1>2 DEF Instants, Never
    <2>2. s * Second <= u * Second
      BY <2>1
    <2> QED BY <2>1, <2>2 DEF FromUnix, Never
  <1> QED BY <1>1, <1>2

----------------------------------------------------------------------------
(* Running is active.                                                      *)

\* The stored result is not older than the stored start, in seconds.
Settled(p) == p.lastStart = Never \/ p.lastStart <= p.sDate \/ p.lastStart <= p.fDate

\* What a restart makes of settled properties is not "running".
LEMMA SettledLoads ==
    ASSUME NEW p \in ZProps, Settled(p)
    PROVE  Status(LoadHost(p)) # "running"
  <1> DEFINE m == LoadHost(p)
  <1>1. m \in MetricsRecord
    BY LoadTypes
  <1>2. /\ m.startedAt = FromUnix(p.lastStart)
        /\ m.succeededAt = FromUnix(p.sDate) /\ m.failedAt = FromUnix(p.fDate)
    BY DEF LoadHost
  <1>3. /\ p.lastStart \in Instants /\ p.sDate \in Instants /\ p.fDate \in Instants
    BY DEF ZProps
  <1>4. m.startedAt = Never \/ m.startedAt <= m.succeededAt \/ m.startedAt <= m.failedAt
    BY <1>2, <1>3, FromUnixMonotone DEF Settled, FromUnix
  <1>5. m.startedAt \in Int /\ m.succeededAt \in Int /\ m.failedAt \in Int
    BY <1>1 DEF MetricsRecord, Instants, Never
  <1> HIDE DEF m
  <1>6. Status(m) # "running"
    BY <1>1, <1>4, <1>5, RunningIff
  <1> QED BY <1>6 DEF m

\* A start that is over is one that has a result.
LEMMA FinishedNotRunning ==
    ASSUME NEW m \in MetricsRecord, NEW ok \in BOOLEAN, NEW t \in Nat, m.startedAt <= t
    PROVE  Status(Finished(m, ok, t)) # "running"
  <1> DEFINE f == Finished(m, ok, t)
  <1>1. f \in MetricsRecord /\ f.startedAt = m.startedAt
        /\ (f.succeededAt = t \/ f.failedAt = t)
    BY DEF Finished, MetricsRecord, Instants
  <1>2. f.startedAt \in Int /\ f.succeededAt \in Int /\ f.failedAt \in Int
    BY <1>1 DEF MetricsRecord, Instants, Never
  <1> HIDE DEF f
  <1>3. Status(f) # "running"
    BY <1>1, <1>2, RunningIff
  <1> QED BY <1>3 DEF f

\* No start lies in the future, in memory or on disk.
StartsArePast ==
    \A h \in Hosts : mem[h].startedAt <= now /\ disk[h].lastStart <= Unix(now)

SettledOnDisk == \A h \in Hosts \ cut : BackingUp(h) = {} => Settled(disk[h])

\* Without the process there is neither a scheduler nor a worker.
Down == Up \/ (sched = "gone" /\ jobs = <<>> /\ begun = {} /\ \A w \in Workers : task[w] = Nil)

DiskInv ==
    /\ TInv
    /\ Down
    /\ StartsArePast
    /\ SettledOnDisk
    /\ RunningIsActive

\* The clock is an instant, and its second too.
LEMMA NowTypes == TInv => now \in Nat /\ now \in Instants /\ Unix(now) \in Instants
  <1> SUFFICES ASSUME TInv PROVE now \in Nat /\ now \in Instants /\ Unix(now) \in Instants
    OBVIOUS
  <1>1. now \in Nat
    BY Constants DEF TInv, TypeOK
  <1> QED BY <1>1, UnixTypes DEF Instants

\* Nothing was ever started.
LEMMA DiskInvInit == Init => DiskInv
  <1> SUFFICES ASSUME Init PROVE DiskInv
    OBVIOUS
  <1>1. TInv /\ begun = {} /\ now = 0
    BY TInvInit DEF Init
  <1>2. NoProps \in ZProps /\ NoProps.lastStart = Never /\ Settled(NoProps)
    BY DEF NoProps, ZProps, Settled, Instants
  <1>3. \A h \in Hosts : disk[h] = NoProps /\ mem[h] = LoadHost(NoProps)
    BY DEF Init
  <1>4. StartsArePast
    <2>1. LoadHost(NoProps).startedAt = Never
      BY <1>2 DEF LoadHost, FromUnix
    <2>2. Never <= now /\ Never <= Unix(now)
      BY <1>1, NowTypes DEF Instants, Never
    <2> QED BY <1>2, <1>3, <2>1, <2>2 DEF StartsArePast
  <1>5. SettledOnDisk /\ RunningIsActive
    BY <1>2, <1>3, SettledLoads DEF SettledOnDisk, RunningIsActive
  <1>6. Down
    BY DEF Init, Down, Up
  <1> QED BY <1>1, <1>4, <1>5, <1>6 DEF DiskInv

\* The end of the process marks the hosts whose backup it cuts off.
LEMMA GoneKeepsDisk ==
    ASSUME DiskInv, TInv', NEW how, how \in {"exited", "panicked", "killed"}, Gone(how)
    PROVE  DiskInv'
  <1>1. begun' = {} /\ ~Up' /\ now' = now /\ disk' = disk
    BY DEF Gone, Up
  <1>2. StartsArePast'
    <2>1. \A h \in Hosts : mem'[h].startedAt = Never
      BY DEF Gone, NoMetrics
    <2>2. Never <= now
      BY NowTypes DEF DiskInv, Never
    <2> QED BY <1>1, <2>1, <2>2 DEF DiskInv, StartsArePast
  <1>3. \A h \in Hosts : h \notin cut' => h \notin cut /\ BackingUp(h) = {}
    BY DEF Gone
  <1>4. SettledOnDisk'
    BY <1>1, <1>3 DEF DiskInv, SettledOnDisk
  <1>5. RunningIsActive'
    BY <1>1 DEF RunningIsActive
  <1>6. Down'
    BY DEF Gone, Down
  <1> QED BY <1>2, <1>4, <1>5, <1>6 DEF DiskInv

\* A restart loads what is settled.
LEMMA BootKeepsDisk == ASSUME DiskInv, TInv', Restart PROVE DiskInv'
  <1>1. begun' = {} /\ begun = {} /\ UNCHANGED <<now, disk, cut>>
    BY DEF DiskInv, Down, Restart, Boot
  <1>2. \A h \in Hosts : disk[h] \in ZProps /\ mem'[h] = LoadHost(disk[h])
    BY DEF DiskInv, TInv, TypeOK, Restart, Boot
  <1>3. \A h \in Hosts : BackingUp(h) = {} /\ BackingUp(h)' = {}
    BY <1>1 DEF BackingUp
  <1>4. StartsArePast'
    <2>l. \A h \in Hosts : LoadHost(disk[h]).startedAt = FromUnix(disk[h].lastStart)
      BY DEF LoadHost
    <2>0. \A h \in Hosts : mem'[h].startedAt = FromUnix(disk[h].lastStart)
      BY <1>2, <2>l
    <2> SUFFICES ASSUME NEW h \in Hosts PROVE FromUnix(disk[h].lastStart) <= now
      BY <1>1, <2>0 DEF StartsArePast, DiskInv
    <2>1. disk[h].lastStart <= Unix(now) /\ disk[h].lastStart \in Instants
      BY <1>2 DEF DiskInv, StartsArePast, ZProps
    <2>2. now \in Instants /\ Unix(now) \in Instants
      BY NowTypes DEF DiskInv
    <2>3. FromUnix(disk[h].lastStart) <= FromUnix(Unix(now))
      BY <2>1, <2>2, FromUnixMonotone
    <2>4. FromUnix(Unix(now)) <= now
      BY <2>2, TruncateTimeBounds DEF TruncateTime
    <2>5. FromUnix(disk[h].lastStart) \in Int /\ FromUnix(Unix(now)) \in Int /\ now \in Int
      BY <2>1, <2>2, UnixTypes DEF Instants, Never
    <2> QED BY <2>3, <2>4, <2>5
  <1>5. SettledOnDisk'
    BY <1>1, <1>3 DEF DiskInv, SettledOnDisk
  <1>6. RunningIsActive'
    BY <1>1, <1>2, <1>3, SettledLoads DEF DiskInv, SettledOnDisk, RunningIsActive
  <1>7. Down'
    BY DEF Restart, Boot, Down, Up
  <1> QED BY <1>4, <1>5, <1>6, <1>7 DEF DiskInv

\* A host that is started is active.
LEMMA StartKeepsDisk ==
    ASSUME DiskInv, TInv', NEW w \in Workers, NEW stored \in BOOLEAN, StartBackup(w, stored)
    PROVE  DiskInv'
  <1>0. task[w] \in Hosts
    BY DEF DiskInv, TInv, TypeOK, StartBackup
  <1>h. PICK h \in Hosts : h = task[w]
    BY <1>0
  <1>1. UNCHANGED <<now, main, task>> /\ begun' = begun \cup {w}
    BY DEF StartBackup
  <1>2. \A g \in Hosts \ {h} :
           /\ mem'[g] = mem[g] /\ disk'[g] = disk[g] /\ BackingUp(g)' = BackingUp(g)
           /\ g \in cut' <=> g \in cut
    BY <1>1, <1>h DEF DiskInv, TInv, TypeOK, StartBackup, BackingUp
  <1>3. w \in BackingUp(h)'
    BY <1>1, <1>h DEF BackingUp
  <1>4. mem'[h].startedAt = now /\ disk'[h].lastStart \in {Unix(now), disk[h].lastStart}
    BY <1>1, <1>h DEF DiskInv, TInv, TypeOK, StartBackup, Started, StoreStart, MetricsRecord, ZProps
  <1>5. StartsArePast'
    BY <1>1, <1>2, <1>4, NowTypes DEF DiskInv, StartsArePast, Instants, Never
  <1>6. SettledOnDisk'
    <2> SUFFICES ASSUME NEW g \in Hosts \ cut', BackingUp(g)' = {} PROVE Settled(disk'[g])
      BY DEF SettledOnDisk
    <2>1. g \in Hosts \ {h} /\ g \notin cut
      BY <1>2, <1>3
    <2> QED BY <1>2, <2>1 DEF DiskInv, SettledOnDisk
  <1>7. Up' <=> Up
    BY <1>1 DEF Up
  <1>8. Down'
    BY <1>1, <1>7 DEF DiskInv, Down, StartBackup
  <1>9. RunningIsActive'
    <2> SUFFICES ASSUME NEW g \in Hosts, Up, Status(mem'[g]) = "running"
                 PROVE  BackingUp(g)' # {} \/ g \in cut'
      BY <1>7 DEF RunningIsActive
    <2>1. CASE g = h
      BY <1>3, <2>1
    <2>2. CASE g # h
      BY <1>2, <2>2 DEF DiskInv, RunningIsActive
    <2> QED BY <2>1, <2>2
  <1> QED BY <1>5, <1>6, <1>7, <1>8, <1>9 DEF DiskInv

\* A stored result settles its host; one that is not stored marks it.
LEMMA EndKeepsDisk ==
    ASSUME DiskInv, TInv', NEW w \in Workers, NEW ok \in BOOLEAN, NEW stored \in BOOLEAN,
           EndBackup(w, ok, stored)
    PROVE  DiskInv'
  <1>0. task[w] \in Hosts
    BY DEF DiskInv, TInv, EndBackup
  <1>h. PICK h \in Hosts : h = task[w]
    BY <1>0
  <1>1. w \in begun /\ UNCHANGED <<now, main>>
    BY DEF EndBackup
  <1>2. \A g \in Hosts \ {h} :
           /\ mem'[g] = mem[g] /\ disk'[g] = disk[g] /\ BackingUp(g)' = BackingUp(g)
           /\ g \in cut' <=> g \in cut
    BY <1>1, <1>h DEF DiskInv, TInv, TypeOK, EndBackup, BackingUp
  <1>3. mem[h] \in MetricsRecord /\ disk[h] \in ZProps
    BY <1>1, <1>h DEF DiskInv, TInv, TypeOK
  <1>4. mem'[h] = Finished(mem[h], ok, now)
    BY <1>1, <1>h DEF DiskInv, TInv, TypeOK, EndBackup
  <1>5. disk'[h] = IF stored THEN StoreResult(disk[h], ok, now) ELSE disk[h]
    BY <1>1, <1>h DEF DiskInv, TInv, TypeOK, EndBackup
  <1>6. mem[h].startedAt <= now /\ disk[h].lastStart <= Unix(now)
    BY <1>1, <1>h DEF DiskInv, StartsArePast
  <1>7. mem'[h].startedAt = mem[h].startedAt /\ disk'[h].lastStart = disk[h].lastStart
    BY <1>3, <1>4, <1>5 DEF Finished, StoreResult, MetricsRecord, ZProps
  <1>8. StartsArePast'
    BY <1>1, <1>2, <1>6, <1>7 DEF DiskInv, StartsArePast
  <1>9. h \in cut' \/ Settled(disk'[h])
    <2>1. CASE stored
      <3>1. disk'[h].sDate = Unix(now) \/ disk'[h].fDate = Unix(now)
        BY <1>3, <1>5, <2>1 DEF StoreResult, ZProps
      <3> QED BY <1>6, <1>7, <3>1 DEF Settled
    <2>2. CASE ~stored
      BY <1>h, <2>2 DEF EndBackup
    <2> QED BY <2>1, <2>2
  <1>10. SettledOnDisk'
    BY <1>2, <1>9 DEF DiskInv, SettledOnDisk
  <1>11. Status(mem'[h]) # "running"
    BY <1>3, <1>4, <1>6, FinishedNotRunning, NowTypes DEF DiskInv
  <1>12. Up' <=> Up
    BY <1>1 DEF Up
  <1>13. Down'
    BY <1>1, <1>12 DEF DiskInv, Down, EndBackup
  <1>14. RunningIsActive'
    BY <1>2, <1>11, <1>12 DEF DiskInv, RunningIsActive
  <1> QED BY <1>8, <1>10, <1>13, <1>14 DEF DiskInv

\* Every step keeps the invariant; most leave the metrics and the disk alone.
LEMMA DiskInvNext == DiskInv /\ [Next]_vars => DiskInv'
  <1> SUFFICES ASSUME DiskInv, [Next]_vars PROVE DiskInv'
    OBVIOUS
  <1>0. TInv /\ TInv' /\ Down
    BY TInvNext DEF DiskInv
  \* Steps of the scheduler and of main.
  <1>q. ASSUME UNCHANGED <<now, mem, disk, cut, begun, task>>, Up' <=> Up, Down' PROVE DiskInv'
    <2>1. \A h \in Hosts : BackingUp(h)' = BackingUp(h)
      BY <1>q DEF BackingUp
    <2>2. StartsArePast' /\ SettledOnDisk' /\ RunningIsActive'
      BY <1>q, <2>1 DEF DiskInv, StartsArePast, SettledOnDisk, RunningIsActive
    <2> QED BY <1>0, <1>q, <2>2 DEF DiskInv
  <1>1. CASE Scheduler
    <2>1. UNCHANGED <<now, mem, disk, cut, begun, task, main>>
      BY <1>1 DEF Scheduler, MakeQuit, ClearStop, Poll, EnqueueJob, Reschedule, RunReturns,
                  SeeQuit, Visit, Ignore, Choose, workVars, history
    <2>2. sched # "gone"
      BY <1>1 DEF Scheduler, MakeQuit, ClearStop, Poll, EnqueueJob, Reschedule, RunReturns,
                  SeeQuit, Visit, Ignore, Choose
    <2>3. Up /\ Up'
      BY <1>0, <2>1, <2>2 DEF Down, Up
    <2> QED BY <1>q, <2>1, <2>3 DEF Down
  <1>2. CASE Signal \/ CloseQuit
    <2>1. UNCHANGED <<now, mem, disk, cut, begun, task>>
      BY <1>2 DEF Signal, CloseQuit, workVars, history
    <2>2. Up /\ Up'
      BY <1>2 DEF Signal, CloseQuit, Up
    <2> QED BY <1>q, <2>1, <2>2 DEF Down
  <1>3. CASE UNCHANGED vars
    BY <1>0, <1>3, <1>q DEF vars, schedVars, workVars, history, Up, Down
  <1>4. CASE StopPanics \/ Shutdown \/ Crash
    BY <1>0, <1>4, GoneKeepsDisk DEF StopPanics, Shutdown, Crash
  <1>5. CASE Restart
    BY <1>0, <1>5, BootKeepsDisk
  <1>6. CASE Index
    <2>1. /\ UNCHANGED <<now, main, sched, jobs, disk, begun, task>>
          /\ \A h \in Hosts : mem'[h] = Rendered(mem[h])
      BY <1>6 DEF Index, workVars, schedVars
    <2>2. \A h \in Hosts : mem'[h].startedAt = mem[h].startedAt
      BY <1>0, <2>1 DEF TInv, TypeOK, Rendered, MetricsRecord
    <2>3. \A h \in Hosts : h \notin cut' => h \notin cut /\ mem'[h] = mem[h]
      BY <1>6 DEF Index
    <2>4. \A h \in Hosts : BackingUp(h)' = BackingUp(h)
      BY <2>1 DEF BackingUp
    <2>5. StartsArePast' /\ SettledOnDisk'
      BY <2>1, <2>2, <2>3, <2>4 DEF DiskInv, StartsArePast, SettledOnDisk
    <2>6. RunningIsActive'
      BY <2>1, <2>3, <2>4 DEF DiskInv, RunningIsActive, Up
    <2>7. Down'
      BY <1>0, <2>1 DEF Down, Up
    <2> QED BY <1>0, <2>5, <2>6, <2>7 DEF DiskInv
  <1>7. CASE Tick
    <2>1. now' = now + 1 /\ UNCHANGED <<main, sched, jobs, mem, disk, cut, begun, task>>
      BY <1>7 DEF Tick, schedVars, workVars, history
    <2>2. now \in Instants /\ now' \in Instants /\ now <= now'
      BY <1>0, <2>1, NowTypes DEF Instants
    <2>3. Unix(now) <= Unix(now') /\ Unix(now) \in Int /\ Unix(now') \in Int
      BY <2>2, UnixMonotone, UnixTypes DEF Instants, Never
    <2>4. \A h \in Hosts : mem[h].startedAt \in Int /\ disk[h].lastStart \in Int
      BY <1>0 DEF TInv, TypeOK, MetricsRecord, ZProps, Instants, Never
    <2>5. StartsArePast'
      BY <2>1, <2>2, <2>3, <2>4 DEF DiskInv, StartsArePast, Instants, Never
    <2>6. \A h \in Hosts : BackingUp(h)' = BackingUp(h)
      BY <2>1 DEF BackingUp
    <2>7. SettledOnDisk' /\ RunningIsActive' /\ Down'
      BY <2>1, <2>6 DEF DiskInv, SettledOnDisk, RunningIsActive, Down, Up
    <2> QED BY <1>0, <2>5, <2>7 DEF DiskInv
  <1>8. ASSUME NEW w \in Workers, TakeTask(w) \/ CreateFails(w) PROVE DiskInv'
    <2>1. UNCHANGED <<now, main, mem, disk, cut, begun>> /\ w \notin begun
      BY <1>0, <1>8, Constants DEF TakeTask, CreateFails, history, TInv
    <2>2. \A v \in begun : task'[v] = task[v]
      BY <1>0, <1>8, <2>1 DEF TakeTask, CreateFails, TInv, TypeOK
    <2>3. \A h \in Hosts : BackingUp(h)' = BackingUp(h)
      BY <2>1, <2>2 DEF BackingUp
    <2>4. Up /\ Up'
      BY <1>0, <1>8, <2>1 DEF TakeTask, CreateFails, Down, Up
    <2>5. StartsArePast' /\ SettledOnDisk' /\ RunningIsActive'
      BY <2>1, <2>3, <2>4 DEF DiskInv, StartsArePast, SettledOnDisk, RunningIsActive
    <2> QED BY <1>0, <2>4, <2>5 DEF DiskInv, Down
  <1>9. ASSUME NEW w \in Workers, NEW stored \in BOOLEAN, StartBackup(w, stored) PROVE DiskInv'
    BY <1>0, <1>9, StartKeepsDisk
  <1>10. ASSUME NEW w \in Workers, NEW ok \in BOOLEAN, NEW stored \in BOOLEAN,
                EndBackup(w, ok, stored)
         PROVE  DiskInv'
    BY <1>0, <1>10, EndKeepsDisk
  <1>11. Stored \subseteq BOOLEAN
    BY DEF Stored
  <1> QED BY <1>1, <1>2, <1>3, <1>4, <1>5, <1>6, <1>7, <1>8, <1>9, <1>10, <1>11
          DEF Next, StopSteps, Worker

\* A host whose status is "running" is being backed up, or its last backup has
\* no stored or no intact result: there is no other way for run() to skip a
\* host for good.
THEOREM DaemonRunningIsActive == Spec => []RunningIsActive
  <1>1. DiskInv => RunningIsActive
    BY DEF DiskInv
  <1> QED BY <1>1, DiskInvInit, DiskInvNext, PTL DEF Spec

----------------------------------------------------------------------------
(* The last success.                                                       *)

CounterInv == TInv /\ Down /\ LastSuccessIsStored

\* Page views truncate to the second that is stored, restarts load it.
LEMMA CounterNext ==
    ASSUME CounterInv, TInv', Down', [Next]_vars, "zfs set" \notin Events, NEW h \in Hosts, Up'
    PROVE  LastSuccess(mem'[h]) = disk'[h].sDate
  <1>0. mem[h] \in MetricsRecord /\ disk[h] \in ZProps
    BY DEF CounterInv, TInv, TypeOK
  <1>1. CASE Restart
    <2>1. mem'[h] = LoadHost(disk[h]) /\ disk' = disk
      BY <1>1 DEF Restart, Boot
    <2>2. LoadHost(disk[h]).succeededAt = FromUnix(disk[h].sDate)
      BY DEF LoadHost
    <2>3. disk[h].sDate \in Instants
      BY <1>0 DEF ZProps
    <2> QED BY <2>1, <2>2, <2>3, UnixOfFromUnix DEF LastSuccess
  <1>2. CASE StopPanics \/ Shutdown \/ Crash
    BY <1>2 DEF StopPanics, Shutdown, Crash, Gone, Up
  <1>3. ASSUME Up PROVE LastSuccess(mem[h]) = disk[h].sDate
    BY <1>3 DEF CounterInv, LastSuccessIsStored
  <1>4. CASE Scheduler \/ Signal \/ CloseQuit \/ Tick \/ UNCHANGED vars
    <2>1. UNCHANGED <<mem, disk>>
      BY <1>4 DEF Scheduler, MakeQuit, ClearStop, Poll, EnqueueJob, Reschedule, RunReturns,
                  SeeQuit, Visit, Ignore, Choose, Signal, CloseQuit, Tick, vars
    <2>2. Up
      BY <1>4 DEF Scheduler, MakeQuit, ClearStop, Poll, EnqueueJob, Reschedule, RunReturns,
                  SeeQuit, Visit, Ignore, Choose, Signal, CloseQuit, Tick, vars, Up
    <2> QED BY <1>3, <2>1, <2>2
  <1>5. CASE Index
    <2>1. mem'[h] = Rendered(mem[h]) /\ disk' = disk /\ Up
      BY <1>5 DEF Index
    <2>2. Unix(TruncateTime(mem[h].succeededAt)) = Unix(mem[h].succeededAt)
      BY <1>0, UnixTypes, UnixOfFromUnix DEF TruncateTime, MetricsRecord
    <2>3. LastSuccess(Rendered(mem[h])) = LastSuccess(mem[h])
      BY <1>0, <2>2 DEF LastSuccess, Rendered, MetricsRecord
    <2> QED BY <1>3, <2>1, <2>3
  <1>6. ASSUME NEW w \in Workers, Worker(w) PROVE LastSuccess(mem'[h]) = disk'[h].sDate
    <2>1. Up
      BY <1>6 DEF Worker, TakeTask, CreateFails, StartBackup, EndBackup, Up
    <2>2. CASE TakeTask(w) \/ CreateFails(w)
      BY <1>3, <2>1, <2>2 DEF TakeTask, CreateFails
    <2>3. CASE StartBackup(w, TRUE)
      <3>1. mem'[h] \in {mem[h], Started(mem[h], now)}
        BY <2>3 DEF CounterInv, TInv, TypeOK, StartBackup
      <3>2. disk'[h] \in {disk[h], StoreStart(disk[h], now)}
        BY <2>3 DEF CounterInv, TInv, TypeOK, StartBackup
      <3>3. mem'[h].succeededAt = mem[h].succeededAt /\ disk'[h].sDate = disk[h].sDate
        BY <1>0, <3>1, <3>2 DEF Started, StoreStart, MetricsRecord, ZProps
      <3> QED BY <1>3, <2>1, <3>3 DEF LastSuccess
    <2>4. ASSUME NEW ok \in BOOLEAN, EndBackup(w, ok, TRUE)
          PROVE  LastSuccess(mem'[h]) = disk'[h].sDate
      <3>1. CASE h = task[w]
        <4>1. mem'[h] = Finished(mem[h], ok, now) /\ disk'[h] = StoreResult(disk[h], ok, now)
          BY <2>4, <3>1 DEF CounterInv, TInv, TypeOK, EndBackup
        <4>2. CASE ok
          BY <1>0, <4>1, <4>2 DEF Finished, StoreResult, LastSuccess, MetricsRecord, ZProps
        <4>3. CASE ~ok
          <5>1. mem'[h].succeededAt = mem[h].succeededAt /\ disk'[h].sDate = disk[h].sDate
            BY <1>0, <4>1, <4>3 DEF Finished, StoreResult, MetricsRecord, ZProps
          <5> QED BY <1>3, <2>1, <5>1 DEF LastSuccess
        <4> QED BY <4>2, <4>3
      <3>2. CASE h # task[w]
        <4>1. mem'[h] = mem[h] /\ disk'[h] = disk[h]
          BY <2>4, <3>2 DEF CounterInv, TInv, TypeOK, EndBackup
        <4> QED BY <1>3, <2>1, <4>1
      <3> QED BY <3>1, <3>2
    <2>5. Stored = {TRUE}
      BY DEF Stored
    <2> QED BY <1>6, <2>2, <2>3, <2>4, <2>5 DEF Worker
  <1> QED BY <1>1, <1>2, <1>4, <1>5, <1>6 DEF Next, StopSteps

\* As long as no zfs set fails, a scrape shows the stored second of the last
\* success, whatever is viewed, killed or restarted.
THEOREM DaemonLastSuccess == Spec => []LastSuccessIsStored
  <1>1. Init => DiskInv /\ LastSuccessIsStored
    <2> SUFFICES ASSUME Init, NEW h \in Hosts PROVE LastSuccess(mem[h]) = disk[h].sDate
      BY DiskInvInit DEF LastSuccessIsStored
    <2> QED BY DEF Init, LastSuccess, LoadHost, NoProps, FromUnix, Unix
  <1>2. DiskInv /\ LastSuccessIsStored /\ [Next]_vars => DiskInv' /\ LastSuccessIsStored'
    <2> SUFFICES ASSUME DiskInv, LastSuccessIsStored, [Next]_vars PROVE LastSuccessIsStored'
      BY DiskInvNext
    <2>1. CounterInv /\ TInv' /\ Down'
      BY DiskInvNext DEF DiskInv, CounterInv
    <2> QED BY <2>1, CounterNext DEF LastSuccessIsStored
  <1> QED BY <1>1, <1>2, PTL DEF Spec

----------------------------------------------------------------------------
(* The verdict survives.                                                   *)

\* A result in memory that belongs to the last start is the stored one, in
\* seconds.  An older one may differ from what is stored (its zfs set may have
\* failed), but neither is newer than the start.
Recorded(x, a, X, A) == IF x # Never /\ a <= x THEN X = Unix(x) ELSE X <= A

Agrees(m, p) ==
    /\ Unix(m.startedAt) = p.lastStart
    /\ Recorded(m.succeededAt, m.startedAt, p.sDate, p.lastStart)
    /\ Recorded(m.failedAt, m.startedAt, p.fDate, p.lastStart)

ResultsArePast == \A h \in Hosts : disk[h].sDate <= Unix(now) /\ disk[h].fDate <= Unix(now)

MemoryAgrees == Up => \A h \in Hosts \ cut : Agrees(mem[h], disk[h])

VerdictInv == DiskInv /\ ResultsArePast /\ MemoryAgrees

\* What has just been loaded agrees with what it was loaded from.
LEMMA LoadAgrees == ASSUME NEW p \in ZProps PROVE Agrees(LoadHost(p), p)
  <1>1. p.lastStart \in Instants /\ p.sDate \in Instants /\ p.fDate \in Instants
    BY DEF ZProps
  <1>2. ASSUME NEW X \in Instants
        PROVE  Recorded(FromUnix(X), FromUnix(p.lastStart), X, p.lastStart)
    <2>1. Unix(FromUnix(X)) = X
      BY UnixOfFromUnix
    <2>2. p.lastStart <= X => FromUnix(p.lastStart) <= FromUnix(X)
      BY <1>1, FromUnixMonotone
    <2>3. X = Never => FromUnix(X) = Never
      BY DEF FromUnix
    <2>4. X <= p.lastStart \/ p.lastStart <= X
      BY <1>1 DEF Instants, Never
    <2>5. FromUnix(X) = Never => X = Never
      BY UnixOfFromUnix DEF Unix
    <2>6. X = Never => X <= p.lastStart
      BY <1>1 DEF Instants, Never
    <2> QED BY <2>1, <2>2, <2>3, <2>4, <2>5, <2>6 DEF Recorded
  <1>3. Unix(FromUnix(p.lastStart)) = p.lastStart
    BY <1>1, UnixOfFromUnix
  <1> QED BY <1>1, <1>2, <1>3 DEF Agrees, LoadHost

\* A later second comes from a later instant, and is loaded as one.
LEMMA SecondsOrder ==
    ASSUME NEW t \in Instants, NEW u \in Instants
    PROVE  /\ Unix(t) > Unix(u) => t > u
           /\ FromUnix(t) > FromUnix(u) => t > u
  <1>1. t \in Int /\ u \in Int /\ Unix(t) \in Int /\ Unix(u) \in Int
        /\ FromUnix(t) \in Int /\ FromUnix(u) \in Int
    BY UnixTypes DEF Instants, Never
  <1>2. t <= u => Unix(t) <= Unix(u) /\ FromUnix(t) <= FromUnix(u)
    BY UnixMonotone, FromUnixMonotone
  <1> QED BY <1>1, <1>2

\* The seconds of an instant are not negative.
LEMMA UnixOfInstant ==
    ASSUME NEW t \in Instants, t # Never
    PROVE  Unix(t) \in Nat
  <1>1. t \in Nat
    BY DEF Instants
  <1>2. /\ t \div Second \in Int /\ t % Second \in 0..Second - 1
        /\ t = Second * (t \div Second) + (t % Second)
    BY <1>1, TicksAssumption, DivMod
  <1>3. t \div Second \in Nat
    BY <1>1, <1>2, TicksAssumption
  <1> QED BY <1>3 DEF Unix

\* When the stored result X of the last start is the newer one, so is the
\* result x in memory: one of the two belongs to the start, and if it were y
\* alone, X would not be later than Y.
LEMMA NewerResult ==
    ASSUME NEW a \in Instants, NEW x \in Instants, NEW y \in Instants,
           NEW X \in Instants, NEW Y \in Instants,
           Recorded(x, a, X, Unix(a)), Recorded(y, a, Y, Unix(a)),
           a # Never, a <= x \/ a <= y,
           X # Never, Unix(a) <= X, Y = Never \/ X > Y
    PROVE  x # Never /\ a <= x /\ (y = Never \/ x > y) /\ X = Unix(x)
  <1>1. a \in Nat /\ a \in Instants /\ x \in Int /\ y \in Int /\ X \in Nat /\ Y \in Int
    BY DEF Instants, Never
  <1>2. Unix(a) \in Nat
    BY <1>1, UnixOfInstant DEF Never
  <1>3. a <= x
    <2> SUFFICES ASSUME ~(a <= x) PROVE FALSE
      OBVIOUS
    <2>1. X <= Unix(a)
      BY DEF Recorded
    <2>2. y # Never /\ a <= y
      BY <1>1 DEF Never
    <2>3. Y = Unix(y) /\ Unix(a) <= Unix(y)
      BY <2>2, UnixMonotone DEF Recorded
    <2>4. Y # Never /\ X <= Y
      BY <1>1, <1>2, <2>1, <2>3 DEF Never
    <2> QED BY <1>1, <2>4
  <1>4. x # Never /\ X = Unix(x)
    BY <1>1, <1>3 DEF Recorded, Never
  <1>5. y = Never \/ x > y
    <2>1. CASE y # Never /\ a <= y
      <3>1. Y = Unix(y) /\ Unix(a) <= Unix(y)
        BY <2>1, UnixMonotone DEF Recorded
      <3>2. X > Y
        BY <1>1, <1>2, <3>1 DEF Never
      <3> QED BY <1>4, <3>1, <3>2, SecondsOrder
    <2>2. CASE ~(a <= y)
      BY <1>1, <1>3, <2>2
    <2> QED BY <2>1, <2>2
  <1> QED BY <1>3, <1>4, <1>5

\* When memory and disk agree and neither says "running", they say the same,
\* or the disk cannot tell.
LEMMA AgreeingVerdicts ==
    ASSUME NEW m \in MetricsRecord, NEW p \in ZProps, Agrees(m, p),
           Status(m) # "running", Status(LoadHost(p)) # "running"
    PROVE  \/ StatusLine(LoadHost(p)) = StatusLine(m)
           \/ Status(LoadHost(p)) = "unknown"
  <1> DEFINE n == LoadHost(p)
  <1>0. n \in MetricsRecord
    BY LoadTypes
  <1>1. /\ m.startedAt \in Instants /\ m.succeededAt \in Instants /\ m.failedAt \in Instants
        /\ p.lastStart \in Instants /\ p.sDate \in Instants /\ p.fDate \in Instants
    BY DEF MetricsRecord, ZProps
  <1>2. /\ n.startedAt = FromUnix(p.lastStart)
        /\ n.succeededAt = FromUnix(p.sDate) /\ n.failedAt = FromUnix(p.fDate)
    BY DEF LoadHost
  <1>3. /\ p.lastStart = Unix(m.startedAt)
        /\ Recorded(m.succeededAt, m.startedAt, p.sDate, Unix(m.startedAt))
        /\ Recorded(m.failedAt, m.startedAt, p.fDate, Unix(m.startedAt))
    BY DEF Agrees
  <1>4. \A X \in Instants : FromUnix(X) = Never <=> X = Never
    BY UnixOfFromUnix DEF FromUnix, Unix
  <1>5. m.startedAt = Never <=> p.lastStart = Never
    <2>1. m.startedAt # Never => Unix(m.startedAt) \in Nat
      BY <1>1, UnixOfInstant
    <2> QED BY <1>3, <2>1 DEF Unix, Never
  <1>6. m.startedAt = Never \/ m.startedAt <= m.succeededAt \/ m.startedAt <= m.failedAt
    BY <1>1, RunningIff DEF Instants, Never
  \* The times that StatusLine shows.
  <1>7. ASSUME NEW X \in Instants, NEW x \in Instants, X = Unix(x)
        PROVE  TruncateTime(FromUnix(X)) = TruncateTime(x)
    BY <1>7, UnixOfFromUnix DEF TruncateTime
  <1>8. Status(n) # "running"
    OBVIOUS
  <1>9. SUFFICES ASSUME Status(n) # "unknown" PROVE StatusLine(n) = StatusLine(m)
    OBVIOUS
  <1> HIDE DEF n
  <1>10. CASE n.startedAt = Never
    <2>1. m.startedAt = Never
      BY <1>1, <1>2, <1>4, <1>5, <1>10
    <2>2. Status(n) = "primed" /\ Status(m) = "primed"
      BY <1>10, <2>1 DEF Status
    <2> QED BY <2>2 DEF StatusLine
  <1>11. CASE n.startedAt # Never /\ Status(n) = "success"
    <2>1. /\ n.succeededAt # Never /\ ~(n.startedAt > n.succeededAt)
          /\ n.failedAt = Never \/ n.succeededAt > n.failedAt
      BY <1>0, <1>11 DEF Status, MetricsRecord, Instants, Never
    <2>2. /\ p.sDate # Never /\ Unix(m.startedAt) <= p.sDate
          /\ p.fDate = Never \/ p.sDate > p.fDate
      <3>1. ~(p.lastStart > p.sDate)
        <4>1. p.lastStart > p.sDate => Unix(n.startedAt) > Unix(n.succeededAt)
          BY <1>1, <1>2, UnixOfFromUnix
        <4> QED BY <1>0, <2>1, <4>1, SecondsOrder DEF MetricsRecord
      <3>2. p.fDate = Never \/ p.sDate > p.fDate
        BY <1>1, <1>2, <1>4, <2>1, SecondsOrder
      <3> QED BY <1>1, <1>2, <1>3, <1>4, <2>1, <3>1, <3>2 DEF Instants, Never
    <2>3. m.startedAt # Never
      BY <1>1, <1>2, <1>4, <1>5, <1>11
    <2>4. /\ m.succeededAt # Never /\ m.startedAt <= m.succeededAt
          /\ m.failedAt = Never \/ m.succeededAt > m.failedAt
          /\ p.sDate = Unix(m.succeededAt)
      BY <1>1, <1>3, <1>6, <2>2, <2>3, NewerResult
    <2>5. Status(m) = "success"
      BY <1>1, <2>3, <2>4 DEF Status, Instants, Never
    <2>6. TruncateTime(n.succeededAt) = TruncateTime(m.succeededAt)
      BY <1>1, <1>2, <1>7, <2>4
    <2> QED BY <1>11, <2>5, <2>6 DEF StatusLine
  <1>12. CASE n.startedAt # Never /\ Status(n) = "failed"
    <2>1. /\ n.failedAt # Never /\ ~(n.startedAt > n.failedAt)
          /\ n.succeededAt = Never \/ n.failedAt > n.succeededAt
      BY <1>0, <1>12 DEF Status, MetricsRecord, Instants, Never
    <2>2. /\ p.fDate # Never /\ Unix(m.startedAt) <= p.fDate
          /\ p.sDate = Never \/ p.fDate > p.sDate
      <3>1. ~(p.lastStart > p.fDate)
        <4>1. p.lastStart > p.fDate => Unix(n.startedAt) > Unix(n.failedAt)
          BY <1>1, <1>2, UnixOfFromUnix
        <4> QED BY <1>0, <2>1, <4>1, SecondsOrder DEF MetricsRecord
      <3>2. p.sDate = Never \/ p.fDate > p.sDate
        BY <1>1, <1>2, <1>4, <2>1, SecondsOrder
      <3> QED BY <1>1, <1>2, <1>3, <1>4, <2>1, <3>1, <3>2 DEF Instants, Never
    <2>3. m.startedAt # Never
      BY <1>1, <1>2, <1>4, <1>5, <1>12
    <2>4. /\ m.failedAt # Never /\ m.startedAt <= m.failedAt
          /\ m.succeededAt = Never \/ m.failedAt > m.succeededAt
          /\ p.fDate = Unix(m.failedAt)
      BY <1>1, <1>3, <1>6, <2>2, <2>3, NewerResult
    <2>5. Status(m) = "failed"
      BY <1>1, <2>3, <2>4 DEF Status, Instants, Never
    <2>6. TruncateTime(n.failedAt) = TruncateTime(m.failedAt)
      BY <1>1, <1>2, <1>7, <2>4
    <2> QED BY <1>12, <2>5, <2>6 DEF StatusLine
  <1> QED BY <1>8, <1>9, <1>10, <1>11, <1>12 DEF Status

\* A new start makes all earlier results older ones.
LEMMA StartAgrees ==
    ASSUME NEW m \in MetricsRecord, NEW p \in ZProps, NEW t \in Nat,
           t > m.succeededAt, t > m.failedAt, p.sDate <= Unix(t), p.fDate <= Unix(t)
    PROVE  Agrees(Started(m, t), StoreStart(p, t))
  <1>1. /\ Started(m, t).startedAt = t
        /\ Started(m, t).succeededAt = m.succeededAt /\ Started(m, t).failedAt = m.failedAt
        /\ StoreStart(p, t).lastStart = Unix(t)
        /\ StoreStart(p, t).sDate = p.sDate /\ StoreStart(p, t).fDate = p.fDate
    BY DEF Started, StoreStart, MetricsRecord, ZProps
  <1>2. m.succeededAt \in Int /\ m.failedAt \in Int
    BY DEF MetricsRecord, Instants, Never
  <1>3. ~(t <= m.succeededAt) /\ ~(t <= m.failedAt)
    BY <1>2
  <1> QED BY <1>1, <1>3 DEF Agrees, Recorded

\* A result that is stored agrees, and leaves the other one alone.
LEMMA EndAgrees ==
    ASSUME NEW m \in MetricsRecord, NEW p \in ZProps, NEW t \in Nat, NEW ok \in BOOLEAN,
           m.startedAt <= t, Agrees(m, p)
    PROVE  Agrees(Finished(m, ok, t), StoreResult(p, ok, t))
  <1>1. t # Never
    BY DEF Never
  <1>2. CASE ok
    <2>1. /\ Finished(m, ok, t).startedAt = m.startedAt
          /\ Finished(m, ok, t).succeededAt = t /\ Finished(m, ok, t).failedAt = m.failedAt
          /\ StoreResult(p, ok, t).lastStart = p.lastStart
          /\ StoreResult(p, ok, t).sDate = Unix(t) /\ StoreResult(p, ok, t).fDate = p.fDate
      BY <1>2 DEF Finished, StoreResult, MetricsRecord, ZProps
    <2> QED BY <1>1, <2>1 DEF Agrees, Recorded
  <1>3. CASE ~ok
    <2>1. /\ Finished(m, ok, t).startedAt = m.startedAt
          /\ Finished(m, ok, t).succeededAt = m.succeededAt /\ Finished(m, ok, t).failedAt = t
          /\ StoreResult(p, ok, t).lastStart = p.lastStart
          /\ StoreResult(p, ok, t).sDate = p.sDate /\ StoreResult(p, ok, t).fDate = Unix(t)
      BY <1>3 DEF Finished, StoreResult, MetricsRecord, ZProps
    <2> QED BY <1>1, <2>1 DEF Agrees, Recorded
  <1> QED BY <1>2, <1>3

\* Nothing has been stored yet, and that was loaded.
LEMMA VerdictInvInit == Init => VerdictInv
  <1> SUFFICES ASSUME Init PROVE VerdictInv
    OBVIOUS
  <1>1. DiskInv /\ NoProps \in ZProps
    BY DiskInvInit DEF NoProps, ZProps, Instants
  <1>2. \A h \in Hosts : disk[h] = NoProps /\ mem[h] = LoadHost(NoProps)
    BY DEF Init
  <1>3. ResultsArePast
    <2>1. Never <= Unix(now)
      BY <1>1, NowTypes DEF DiskInv, Instants, Never
    <2>2. \A h \in Hosts : disk[h].sDate = Never /\ disk[h].fDate = Never
      BY <1>2 DEF NoProps
    <2> QED BY <2>1, <2>2 DEF ResultsArePast
  <1>4. MemoryAgrees
    BY <1>1, <1>2, LoadAgrees DEF MemoryAgrees
  <1> QED BY <1>1, <1>3, <1>4 DEF VerdictInv

\* Stored results stay in the past.
LEMMA ResultsArePastNext ==
    ASSUME VerdictInv, [Next]_vars
    PROVE  ResultsArePast'
  <1>0. TInv /\ TInv' /\ now \in Nat /\ now \in Instants
    BY NowTypes, TInvNext DEF VerdictInv, DiskInv
  <1>1. CASE Tick
    <2>1. now' \in Instants /\ now <= now' /\ disk' = disk
      BY <1>0, <1>1 DEF Tick, Instants
    <2>2. Unix(now) <= Unix(now') /\ Unix(now) \in Int /\ Unix(now') \in Int
      BY <1>0, <2>1, UnixMonotone, UnixTypes DEF Instants, Never
    <2>3. \A h \in Hosts : disk[h].sDate \in Int /\ disk[h].fDate \in Int
      BY <1>0 DEF TInv, TypeOK, ZProps, Instants, Never
    <2> QED BY <2>1, <2>2, <2>3 DEF VerdictInv, ResultsArePast
  <1>2. ASSUME NEW w \in Workers, NEW stored \in BOOLEAN, StartBackup(w, stored)
        PROVE  ResultsArePast'
    <2> SUFFICES ASSUME NEW h \in Hosts
                 PROVE  disk'[h].sDate <= Unix(now') /\ disk'[h].fDate <= Unix(now')
      BY DEF ResultsArePast
    <2>1. now' = now /\ disk'[h] \in {disk[h], StoreStart(disk[h], now)}
      BY <1>0, <1>2 DEF TInv, TypeOK, StartBackup
    <2>2. disk'[h].sDate = disk[h].sDate /\ disk'[h].fDate = disk[h].fDate
      BY <1>0, <2>1 DEF TInv, TypeOK, StoreStart, ZProps
    <2> QED BY <2>1, <2>2 DEF VerdictInv, ResultsArePast
  <1>3. ASSUME NEW w \in Workers, NEW ok \in BOOLEAN, NEW stored \in BOOLEAN,
               EndBackup(w, ok, stored)
        PROVE  ResultsArePast'
    <2> SUFFICES ASSUME NEW h \in Hosts
                 PROVE  disk'[h].sDate <= Unix(now') /\ disk'[h].fDate <= Unix(now')
      BY DEF ResultsArePast
    <2>1. now' = now /\ disk'[h] \in {disk[h], StoreResult(disk[h], ok, now)}
      BY <1>0, <1>3 DEF TInv, TypeOK, EndBackup
    <2>2. disk'[h].sDate \in {disk[h].sDate, Unix(now)} /\ disk'[h].fDate \in {disk[h].fDate, Unix(now)}
      BY <1>0, <2>1 DEF TInv, TypeOK, StoreResult, ZProps
    <2>3. Unix(now) <= Unix(now)
      BY <1>0, UnixTypes DEF Instants, Never
    <2> QED BY <2>1, <2>2, <2>3 DEF VerdictInv, ResultsArePast
  <1>4. ASSUME UNCHANGED <<now, disk>> PROVE ResultsArePast'
    BY <1>4 DEF VerdictInv, ResultsArePast
  <1>5. CASE Scheduler \/ Signal \/ StopSteps \/ Restart \/ Crash \/ Index \/ UNCHANGED vars
    BY <1>4, <1>5 DEF Scheduler, MakeQuit, ClearStop, Poll, EnqueueJob, Reschedule, RunReturns,
                 SeeQuit, Visit, Ignore, Choose, Signal, StopSteps, CloseQuit, StopPanics,
                 Shutdown, Gone, Restart, Boot, Crash, Index, vars
  <1>6. ASSUME NEW w \in Workers, TakeTask(w) \/ CreateFails(w) PROVE ResultsArePast'
    BY <1>4, <1>6 DEF TakeTask, CreateFails
  <1>7. Stored \subseteq BOOLEAN
    BY DEF Stored
  <1> QED BY <1>1, <1>2, <1>3, <1>5, <1>6, <1>7 DEF Next, Worker

\* Only a zfs set that fails, a page view or the end of the process parts
\* memory from disk; the first two put the host into cut, a restart heals.
LEMMA MemoryAgreesNext ==
    ASSUME VerdictInv, [Next]_vars
    PROVE  MemoryAgrees'
  <1>0. /\ TInv /\ TInv' /\ now \in Nat
        /\ \A h \in Hosts : mem[h] \in MetricsRecord /\ disk[h] \in ZProps
    BY NowTypes, TInvNext DEF VerdictInv, DiskInv, TInv, TypeOK
  <1>1. CASE StopPanics \/ Shutdown \/ Crash
    BY <1>1 DEF StopPanics, Shutdown, Crash, Gone, Up, MemoryAgrees
  <1>2. CASE Restart
    BY <1>0, <1>2, LoadAgrees DEF Restart, Boot, MemoryAgrees
  <1>3. ASSUME Up, \A h \in Hosts \ cut' : h \notin cut /\ mem'[h] = mem[h] /\ disk'[h] = disk[h]
        PROVE  MemoryAgrees'
    BY <1>3 DEF VerdictInv, MemoryAgrees
  <1>4. CASE Scheduler \/ Signal \/ CloseQuit \/ Tick
    <2>1. UNCHANGED <<mem, disk, cut>> /\ (Up' => Up)
      BY <1>4 DEF Scheduler, MakeQuit, ClearStop, Poll, EnqueueJob, Reschedule, RunReturns,
                  SeeQuit, Visit, Ignore, Choose, Signal, CloseQuit, Tick, Up, history
    <2> QED BY <1>3, <2>1 DEF MemoryAgrees
  <1>5. CASE UNCHANGED vars
    BY <1>5 DEF VerdictInv, MemoryAgrees, vars, history, Up
  <1>6. CASE Index
    BY <1>3, <1>6 DEF Index
  <1>7. ASSUME NEW w \in Workers, Worker(w) PROVE Up /\ main' = main
    <2>1. Worker(w) => task[w] # Nil \/ jobs # <<>>
      BY <1>0, Constants DEF Worker, TakeTask, CreateFails, StartBackup, EndBackup, TInv
    <2>2. Up
      BY <1>7, <2>1 DEF VerdictInv, DiskInv, Down
    <2> QED BY <1>7, <2>2 DEF Worker, TakeTask, CreateFails, StartBackup, EndBackup
  <1>8. ASSUME NEW w \in Workers, TakeTask(w) \/ CreateFails(w), Up PROVE MemoryAgrees'
    BY <1>3, <1>8 DEF TakeTask, CreateFails, history
  <1>9. ASSUME NEW w \in Workers, NEW stored \in BOOLEAN, StartBackup(w, stored), Up
        PROVE  MemoryAgrees'
    <2> SUFFICES ASSUME NEW h \in Hosts \ cut' PROVE Agrees(mem'[h], disk'[h])
      BY DEF MemoryAgrees
    <2>1. CASE h = task[w]
      <3>1. stored
        BY <1>9, <2>1 DEF StartBackup
      <3>2. mem'[h] = Started(mem[h], now) /\ disk'[h] = StoreStart(disk[h], now)
        BY <1>0, <1>9, <2>1, <3>1 DEF StartBackup, TInv, TypeOK
      <3>3. now > mem[h].succeededAt /\ now > mem[h].failedAt
        BY <1>9, <2>1 DEF StartBackup
      <3>4. disk[h].sDate <= Unix(now) /\ disk[h].fDate <= Unix(now)
        BY DEF VerdictInv, ResultsArePast
      <3> QED BY <1>0, <3>2, <3>3, <3>4, StartAgrees
    <2>2. CASE h # task[w]
      <3>1. mem'[h] = mem[h] /\ disk'[h] = disk[h] /\ h \notin cut
        BY <1>0, <1>9, <2>2 DEF StartBackup, TInv, TypeOK
      <3> QED BY <1>9, <3>1 DEF VerdictInv, MemoryAgrees
    <2> QED BY <2>1, <2>2
  <1>10. ASSUME NEW w \in Workers, NEW ok \in BOOLEAN, NEW stored \in BOOLEAN,
                EndBackup(w, ok, stored), Up
         PROVE  MemoryAgrees'
    <2> SUFFICES ASSUME NEW h \in Hosts \ cut' PROVE Agrees(mem'[h], disk'[h])
      BY DEF MemoryAgrees
    <2>0. h \notin cut
      BY <1>10 DEF EndBackup
    <2>1. Agrees(mem[h], disk[h])
      BY <1>10, <2>0 DEF VerdictInv, MemoryAgrees
    <2>2. CASE h = task[w]
      <3>1. stored
        BY <1>10, <2>2 DEF EndBackup
      <3>2. mem'[h] = Finished(mem[h], ok, now) /\ disk'[h] = StoreResult(disk[h], ok, now)
        BY <1>0, <1>10, <2>2, <3>1 DEF EndBackup, TInv, TypeOK
      <3>3. mem[h].startedAt <= now
        BY DEF VerdictInv, DiskInv, StartsArePast
      <3> QED BY <1>0, <2>1, <3>2, <3>3, EndAgrees
    <2>3. CASE h # task[w]
      <3>1. mem'[h] = mem[h] /\ disk'[h] = disk[h]
        BY <1>0, <1>10, <2>3 DEF EndBackup, TInv, TypeOK
      <3> QED BY <2>1, <3>1
    <2> QED BY <2>2, <2>3
  <1>11. Stored \subseteq BOOLEAN
    BY DEF Stored
  <1> QED BY <1>1, <1>2, <1>4, <1>5, <1>6, <1>7, <1>8, <1>9, <1>10, <1>11
          DEF Next, StopSteps, Worker

\* What "zackup status" or a restarted daemon makes of the stored properties is
\* the verdict in memory, with its time, or "unknown" when the seconds cannot
\* tell: after any number of failing zfs sets, page views, kills and restarts.
THEOREM DaemonVerdictSurvives == Spec => []VerdictSurvives
  <1>1. VerdictInv /\ [Next]_vars => VerdictInv'
    BY DiskInvNext, ResultsArePastNext, MemoryAgreesNext DEF VerdictInv
  <1>2. VerdictInv => VerdictSurvives
    <2> SUFFICES ASSUME VerdictInv, NEW h \in Hosts \ cut, Up, BackingUp(h) = {}
                 PROVE  \/ StatusLine(LoadHost(disk[h])) = StatusLine(mem[h])
                        \/ Status(LoadHost(disk[h])) = "unknown"
      BY DEF VerdictSurvives
    <2>1. mem[h] \in MetricsRecord /\ disk[h] \in ZProps
      BY DEF VerdictInv, DiskInv, TInv, TypeOK
    <2>2. Agrees(mem[h], disk[h])
      BY DEF VerdictInv, MemoryAgrees
    <2>3. Status(mem[h]) # "running"
      BY DEF VerdictInv, DiskInv, RunningIsActive
    <2>4. Status(LoadHost(disk[h])) # "running"
      BY <2>1, SettledLoads DEF VerdictInv, DiskInv, SettledOnDisk
    <2> QED BY <2>1, <2>2, <2>3, <2>4, AgreeingVerdicts
  <1> QED BY <1>1, <1>2, VerdictInvInit, PTL DEF Spec
=============================================================================
