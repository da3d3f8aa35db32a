------------------------------- MODULE Queue -------------------------------
(***************************************************************************)
(* The job queue of app/queue.go: a buffered channel of jobs, a pool of    *)
(* worker goroutines that Resize grows and shrinks through one quit        *)
(* channel per worker, and the two wait groups that count what is          *)
(* outstanding.                                                            *)
(*                                                                         *)
(* Every lock-protected section of the code is one action.  What the code  *)
(* does in steps another goroutine can see is several actions: Enqueue     *)
(* adds to jobGroup before it sends (Enqueue, Send), and Resize only       *)
(* starts goroutines that put themselves into q.workers later (Resize,     *)
(* Register).                                                              *)
(***************************************************************************)
EXTENDS Integers, Sequences, FiniteSets

CONSTANTS
    Jobs,            \* one element per call of Enqueue
    Workers,         \* the goroutines newWorker starts, each with its quit channel
    Sizes,           \* the arguments Resize is called with
    MaxParallelity,  \* const maxParallelity
    JobQueueSize,    \* const jobQueueSize
    Nil              \* Go's nil: no job, no quit channel

ASSUME QueueAssumption ==
    /\ IsFiniteSet(Jobs)
    /\ IsFiniteSet(Workers)
    /\ Workers # {}
    /\ Sizes \subseteq Int
    /\ MaxParallelity \in Nat \ {0}
    /\ JobQueueSize \in Nat \ {0}
    /\ Nil \notin Jobs \cup Workers

VARIABLES
    backing,      \* the array under the slice q.workers, as far as it was ever written
    len,          \* len(q.workers)
    closed,       \* the workers whose quit channel is closed
    life,         \* life[w]: where the goroutine of w is
    running,      \* running[w]: the job w performs, or Nil
    jobs,         \* the buffer of the channel q.jobs
    sending,      \* jobs whose Enqueue has added to jobGroup and not yet sent
    done,         \* jobs whose worker has called jobGroup.Done (history)
    jobGroup,     \* the counter of q.jobGroup
    workerGroup   \* the counter of q.workerGroup

poolVars == <<backing, len, closed, life, workerGroup>>
jobVars  == <<running, jobs, sending, done, jobGroup>>
qvars    == <<poolVars, jobVars>>

Lives == {"unborn", "starting", "looping", "gone"}

Unborn == {w \in Workers : life[w] = "unborn"}
Alive  == {w \in Workers : life[w] \in {"starting", "looping"}}
Busy   == {w \in Workers : running[w] # Nil}

\* The jobs jobGroup is meant to count: blocked in Enqueue, buffered, or
\* being performed.
Buffered    == {jobs[i] : i \in DOMAIN jobs}
Performed   == {running[w] : w \in Busy}
Outstanding == sending \cup Buffered \cup Performed

----------------------------------------------------------------------------
(* The slice of quit channels.                                             *)

\* append(q.workers, quit): the slot after the last one, or a fresh one.
AppendQuit(b, n, w) ==
    IF n < Len(b) THEN [b EXCEPT ![n + 1] = w] ELSE Append(b, w)

\* copy(q.workers, q.workers[diff:]) on a slice of length n.
CopyDown(b, diff, n) ==
    [i \in DOMAIN b |-> IF i + diff <= n THEN b[i + diff] ELSE b[i]]

\* Mutant of NilTail: the references are not dropped.
KeepTail(b, size, n) == b

\* The loop that drops the references the copy left behind in size..n.
NilTail(b, size, n) ==
    [i \in DOMAIN b |-> IF size < i /\ i <= n THEN Nil ELSE b[i]]

----------------------------------------------------------------------------
(* NewQueue: an empty channel, and one worker that is registered before    *)
(* the call returns.                                                       *)
QInit ==
    /\ \E w \in Workers :
          /\ backing = <<w>>
          /\ life = [v \in Workers |-> IF v = w THEN "looping" ELSE "unborn"]
    /\ len = 1
    /\ closed = {}
    /\ workerGroup = 1
    /\ running = [w \in Workers |-> Nil]
    /\ jobs = <<>>
    /\ sending = {}
    /\ done = {}
    /\ jobGroup = 0

\* First half of Enqueue: q.jobGroup.Add(1).
Enqueue(j) ==
    /\ j \notin Outstanding \cup done
    /\ jobGroup' = jobGroup + 1
    /\ sending' = sending \cup {j}
    /\ UNCHANGED <<poolVars, running, jobs, done>>

\* Mutant of Send: the channel has no limit.
SendUnbounded(j) ==
    /\ j \in sending
    /\ jobs' = Append(jobs, j)
    /\ sending' = sending \ {j}
    /\ UNCHANGED <<poolVars, running, done, jobGroup>>

\* Second half of Enqueue: q.jobs <- job blocks while the buffer is full.
Send(j) ==
    /\ j \in sending
    /\ Len(jobs) < JobQueueSize
    /\ jobs' = Append(jobs, j)
    /\ sending' = sending \ {j}
    /\ UNCHANGED <<poolVars, running, done, jobGroup>>

\* The locked part of a newWorker that Resize started with go.
Register(w) ==
    /\ life[w] = "starting"
    /\ backing' = AppendQuit(backing, len, w)
    /\ len' = len + 1
    /\ life' = [life EXCEPT ![w] = "looping"]
    /\ UNCHANGED <<closed, workerGroup, jobVars>>

\* Mutant of TakeJob: the job is looked at, not received.
PeekJob(w) ==
    /\ life[w] = "looping"
    /\ running[w] = Nil
    /\ jobs # <<>>
    /\ running' = [running EXCEPT ![w] = Head(jobs)]
    /\ UNCHANGED <<poolVars, jobs, sending, done, jobGroup>>

\* The worker's select takes a job.  It may do so with its quit channel
\* closed: select picks any ready case.
TakeJob(w) ==
    /\ life[w] = "looping"
    /\ running[w] = Nil
    /\ jobs # <<>>
    /\ running' = [running EXCEPT ![w] = Head(jobs)]
    /\ jobs' = Tail(jobs)
    /\ UNCHANGED <<poolVars, sending, done, jobGroup>>

\* Mutant of FinishJob: no q.jobGroup.Done().
FinishWithoutDone(w) ==
    /\ running[w] # Nil
    /\ done' = done \cup {running[w]}
    /\ running' = [running EXCEPT ![w] = Nil]
    /\ UNCHANGED <<poolVars, jobs, sending, jobGroup>>

\* Mutant of FinishJob: the worker puts its job back into the channel.
FinishRequeues(w) ==
    /\ running[w] # Nil
    /\ Len(jobs) < JobQueueSize
    /\ jobs' = Append(jobs, running[w])
    /\ running' = [running EXCEPT ![w] = Nil]
    /\ UNCHANGED <<poolVars, sending, done, jobGroup>>

\* Mutant of FinishJob: the worker performs its job again and again.
FinishRetries(w) == running[w] # Nil /\ UNCHANGED qvars

\* PerformBackup has returned and the worker calls q.jobGroup.Done().
FinishJob(w) ==
    /\ running[w] # Nil
    /\ done' = done \cup {running[w]}
    /\ running' = [running EXCEPT ![w] = Nil]
    /\ jobGroup' = jobGroup - 1
    /\ UNCHANGED <<poolVars, jobs, sending>>

\* The worker's select sees its quit channel closed; q.workerGroup.Done().
Quit(w) ==
    /\ life[w] = "looping"
    /\ running[w] = Nil
    /\ w \in closed
    /\ life' = [life EXCEPT ![w] = "gone"]
    /\ workerGroup' = workerGroup - 1
    /\ UNCHANGED <<backing, len, closed, jobVars>>

Clamp(newSize) ==
    IF newSize < 0 THEN 1
    ELSE IF newSize > MaxParallelity THEN MaxParallelity
    ELSE newSize

\* Mutant of Shrink: the last diff channels are closed, the first cut off.
ShrinkWrongEnd(size) ==
    LET diff == len - size IN
    /\ diff > 0
    /\ closed' = closed \cup {backing[i] : i \in size + 1 .. len}
    /\ backing' = NilTail(CopyDown(backing, diff, len), size, len)
    /\ len' = size
    /\ UNCHANGED <<life, workerGroup, jobVars>>

\* Surplus workers: close the first diff quit channels and cut them off.
Shrink(size) ==
    LET diff == len - size IN
    /\ diff > 0
    /\ closed' = closed \cup {backing[i] : i \in 1..diff}
    /\ backing' = NilTail(CopyDown(backing, diff, len), size, len)
    /\ len' = size
    /\ UNCHANGED <<life, workerGroup, jobVars>>

\* Mutant of Grow: the loop runs once too often.
GrowOneMore(size) ==
    /\ len <= size
    /\ \E S \in SUBSET Unborn :
          /\ Cardinality(S) = size - len + 1
          /\ life' = [w \in Workers |-> IF w \in S THEN "starting" ELSE life[w]]
    /\ workerGroup' = workerGroup + (size - len) + 1
    /\ UNCHANGED <<backing, len, closed, jobVars>>

\* Missing workers: count them and start their goroutines, all at once.
Grow(size) ==
    /\ len <= size
    /\ \E S \in SUBSET Unborn :
          /\ Cardinality(S) = size - len
          /\ life' = [w \in Workers |-> IF w \in S THEN "starting" ELSE life[w]]
    /\ workerGroup' = workerGroup + (size - len)
    /\ UNCHANGED <<backing, len, closed, jobVars>>

Resize(newSize) == Shrink(Clamp(newSize)) \/ Grow(Clamp(newSize))

\* What the goroutine of worker w may do next.
WorkerStep(w) == Register(w) \/ TakeJob(w) \/ FinishJob(w) \/ Quit(w)

\* What the queue's callers may do next.
CallerStep ==
    \/ \E j \in Jobs : Enqueue(j) \/ Send(j)
    \/ \E n \in Sizes : Resize(n)

QNext == CallerStep \/ \E w \in Workers : WorkerStep(w)

QSpec == QInit /\ [][QNext]_qvars

----------------------------------------------------------------------------
(* Properties.                                                             *)

\* Every variable has its type; neither wait group is ever negative (which
\* would panic in the Go runtime).
QTypeOK ==
    /\ backing \in Seq(Workers \cup {Nil})
    /\ len \in 0..Len(backing)
    /\ closed \subseteq Workers
    /\ life \in [Workers -> Lives]
    /\ workerGroup \in Nat
    /\ running \in [Workers -> Jobs \cup {Nil}]
    /\ jobs \in Seq(Jobs)
    /\ Len(jobs) <= JobQueueSize
    /\ sending \subseteq Jobs
    /\ done \subseteq Jobs
    /\ jobGroup \in Nat

\* q.jobGroup counts exactly the jobs that are still owed to a caller, in
\* whatever part of the queue they are: so Wait (which returns at zero)
\* returns if, and only if, every Enqueue that was called has been performed.
\* q.workerGroup counts the goroutines that were started and have not left
\* their loop, although they come to life after Resize has counted them.
GroupsExact ==
    /\ jobGroup = Cardinality(Outstanding)
    /\ workerGroup = Cardinality(Alive)

\* A job is in one place at a time: blocked in Enqueue, in one slot of the
\* channel, with one worker, or done.  So no job is performed twice, at the
\* same time or one after the other.
OnePlace ==
    /\ \A i, k \in DOMAIN jobs : jobs[i] = jobs[k] => i = k
    /\ \A v, w \in Busy : running[v] = running[w] => v = w
    /\ sending \cap (Buffered \cup Performed \cup done) = {}
    /\ Buffered \cap (Performed \cup done) = {}
    /\ Performed \cap done = {}

\* Whatever sequence of Resize calls and late registrations led here,
\* q.workers lists, once each, exactly the live workers that were not told to
\* quit: the next Resize closes only open channels (closing a closed or nil
\* channel panics), there is no worker that no Resize can stop, and whoever
\* performs a job is still in its loop ("surplus running jobs will finish").
WorkersExact ==
    /\ \A i \in 1..len :
          /\ backing[i] \in Workers \ closed
          /\ life[backing[i]] = "looping"
          /\ \A k \in 1..len : backing[i] = backing[k] => i = k
    /\ \A w \in Workers \ closed :
          life[w] = "looping" => \E i \in 1..len : backing[i] = w
    /\ \A w \in closed : life[w] \in {"looping", "gone"}
    /\ \A w \in Busy : life[w] = "looping"

\* The promise of the notes at the end of queue.go: after sizing down, the
\* array under q.workers keeps no reference to a removed quit channel.
NoRetainedReference == \A i \in len + 1 .. Len(backing) : backing[i] = Nil

\* The place of job j in the queue, as JobPool sees it.
Stage(j) ==
    IF j \in done THEN "finished"
    ELSE IF j \in Performed THEN "running"
    ELSE IF j \in sending \cup Buffered THEN "waiting"
    ELSE "new"

Pool == INSTANCE JobPool WITH stage <- [j \in Jobs |-> Stage(j)]

\* The queue implements the abstract job pool: each step leaves every job
\* alone or moves one job one stage on.
PoolSpec == Pool!Spec
=============================================================================
