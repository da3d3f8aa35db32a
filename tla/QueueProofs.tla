---------------------------- MODULE QueueProofs ----------------------------
(***************************************************************************)
(* The invariants of Queue, for every set of jobs and workers, every       *)
(* channel capacity and every sequence of calls, the refinement of         *)
(* JobPool, and the invariants of RunCommand, the process that drives it.  *)
(*                                                                         *)
(* QInv is inductive.  Its parts need each other: a counter stays exact    *)
(* because a job is in one place at a time (OnePlace), and Shrink closes   *)
(* each quit channel once because q.workers lists every worker once and    *)
(* only open ones (WorkersExact).                                          *)
(***************************************************************************)
EXTENDS RunCommand, FiniteSetTheorems, TLAPS

QInv ==
    /\ QTypeOK
    /\ GroupsExact
    /\ OnePlace
    /\ WorkersExact
    /\ NoRetainedReference

\* The sets the wait groups count are finite.
LEMMA CountedFinite ==
    ASSUME QTypeOK
    PROVE  /\ Outstanding \subseteq Jobs
           /\ IsFiniteSet(Outstanding)
           /\ Alive \subseteq Workers
           /\ IsFiniteSet(Alive)
           /\ Cardinality(Outstanding) \in Nat
           /\ Cardinality(Alive) \in Nat
<1>1. Outstanding \subseteq Jobs
  BY DEF QTypeOK, Outstanding, Buffered, Performed, Busy
<1>2. Alive \subseteq Workers
  BY DEF Alive
<1>3. IsFiniteSet(Outstanding) /\ IsFiniteSet(Alive)
  BY <1>1, <1>2, FS_Subset, QueueAssumption
<1> QED BY <1>1, <1>2, <1>3, FS_CardinalityType

\* NewQueue establishes the invariant.
LEMMA InitInv == QInit => QInv
<1> SUFFICES ASSUME QInit PROVE QInv
  OBVIOUS
<1> USE QueueAssumption DEF QInit
<1>1. QTypeOK
  BY DEF QTypeOK, Lives
<1>2. Busy = {} /\ Outstanding = {}
  BY DEF Busy, Outstanding, Buffered, Performed
<1>3. GroupsExact
  <2>1. PICK w \in Workers : life = [v \in Workers |-> IF v = w THEN "looping" ELSE "unborn"]
    OBVIOUS
  <2>2. Alive = {w}
    BY <2>1 DEF Alive
  <2> QED BY <1>2, <2>2, FS_EmptySet, FS_Singleton DEF GroupsExact
<1>4. OnePlace
  BY <1>2 DEF OnePlace, Buffered, Performed
<1>5. WorkersExact
  BY <1>2 DEF WorkersExact
<1>6. NoRetainedReference
  BY DEF NoRetainedReference
<1> QED BY <1>1, <1>3, <1>4, <1>5, <1>6 DEF QInv

\* The pool's part of the invariant when only jobs move.
LEMMA PoolUnchanged ==
    ASSUME QInv, UNCHANGED poolVars, running' \in [Workers -> Jobs \cup {Nil}],
           \A w \in Workers : running'[w] # Nil => life[w] = "looping"
    PROVE  /\ workerGroup' = Cardinality(Alive')
           /\ WorkersExact'
           /\ NoRetainedReference'
<1>1. Alive' = Alive
  BY DEF poolVars, Alive
<1>2. workerGroup' = Cardinality(Alive')
  BY <1>1 DEF QInv, GroupsExact, poolVars
<1>3. WorkersExact'
  BY DEF QInv, WorkersExact, poolVars, Busy
<1>4. NoRetainedReference'
  BY DEF QInv, NoRetainedReference, poolVars
<1> QED BY <1>2, <1>3, <1>4

\* Enqueue adds one to jobGroup and one job to what it counts.
LEMMA EnqueueInv ==
    ASSUME QInv, NEW j \in Jobs, Enqueue(j)
    PROVE  QInv' /\ Buffered' = Buffered /\ Performed' = Performed
<1> USE QueueAssumption DEF Enqueue
<1>1. QTypeOK'
  BY DEF QInv, QTypeOK, poolVars
<1>2. Buffered' = Buffered /\ Performed' = Performed /\ Busy' = Busy
  BY DEF Buffered, Performed, Busy
<1>3. Outstanding' = Outstanding \cup {j} /\ j \notin Outstanding
  BY <1>2 DEF Outstanding
<1>4. jobGroup' = Cardinality(Outstanding')
  BY <1>3, CountedFinite, FS_AddElement DEF QInv, GroupsExact
<1>5. OnePlace'
  BY <1>2, <1>3 DEF QInv, OnePlace, Outstanding
<1>6. workerGroup' = Cardinality(Alive') /\ WorkersExact' /\ NoRetainedReference'
  BY PoolUnchanged DEF QInv, QTypeOK, WorkersExact, Busy
<1> QED BY <1>1, <1>2, <1>4, <1>5, <1>6 DEF QInv, GroupsExact

\* Send moves a job from its caller into the channel.
LEMMA SendInv ==
    ASSUME QInv, NEW j \in Jobs, Send(j)
    PROVE  QInv' /\ Buffered' = Buffered \cup {j} /\ Performed' = Performed
<1> USE QueueAssumption DEF Send
<1>1. QTypeOK'
  BY DEF QInv, QTypeOK, poolVars
<1>2. Performed' = Performed /\ Busy' = Busy
  BY DEF Performed, Busy
<1>3. Buffered' = Buffered \cup {j} /\ j \notin Buffered
  <2>1. jobs \in Seq(Jobs) /\ jobs' = Append(jobs, j) /\ j \notin Buffered
    BY DEF QInv, QTypeOK, OnePlace
  <2>2. Buffered' \subseteq Buffered \cup {j}
    BY <2>1 DEF Buffered
  <2>3. Buffered \subseteq Buffered'
    BY <2>1 DEF Buffered
  <2>4. j \in Buffered'
    <3>1. Len(jobs) + 1 \in DOMAIN jobs' /\ jobs'[Len(jobs) + 1] = j
      BY <2>1
    <3> QED BY <3>1 DEF Buffered
  <2> QED BY <2>1, <2>2, <2>3, <2>4
<1>4. Outstanding' = Outstanding
  BY <1>2, <1>3 DEF Outstanding
<1>5. jobGroup' = Cardinality(Outstanding')
  BY <1>4 DEF QInv, GroupsExact
<1>6. \A i, k \in DOMAIN jobs' : jobs'[i] = jobs'[k] => i = k
  BY <1>3 DEF QInv, QTypeOK, OnePlace, Buffered
<1>7. OnePlace'
  BY <1>2, <1>3, <1>6 DEF QInv, OnePlace
<1>8. workerGroup' = Cardinality(Alive') /\ WorkersExact' /\ NoRetainedReference'
  BY PoolUnchanged DEF QInv, QTypeOK, WorkersExact, Busy
<1> QED BY <1>1, <1>2, <1>3, <1>5, <1>7, <1>8 DEF QInv, GroupsExact

\* TakeJob moves the head of the channel to a worker.
LEMMA TakeJobInv ==
    ASSUME QInv, NEW w \in Workers, TakeJob(w)
    PROVE  /\ QInv'
           /\ Head(jobs) \in Jobs
           /\ Buffered = Buffered' \cup {Head(jobs)} /\ Head(jobs) \notin Buffered'
           /\ Performed' = Performed \cup {Head(jobs)}
<1> USE QueueAssumption DEF TakeJob
<1> DEFINE j == Head(jobs)
<1>1. /\ jobs \in Seq(Jobs) /\ jobs # <<>>
      /\ running \in [Workers -> Jobs \cup {Nil}]
      /\ j = jobs[1] /\ 1 \in DOMAIN jobs /\ j \in Jobs /\ j # Nil
  BY DEF QInv, QTypeOK
<1>2. QTypeOK'
  BY <1>1 DEF QInv, QTypeOK, poolVars
<1>3. /\ Len(jobs') = Len(jobs) - 1
      /\ \A i \in DOMAIN jobs' : i + 1 \in DOMAIN jobs /\ jobs'[i] = jobs[i + 1]
  BY <1>1
<1>4. \A i \in DOMAIN jobs : i # 1 => i - 1 \in DOMAIN jobs' /\ jobs'[i - 1] = jobs[i]
  BY <1>1
<1>5. Buffered = Buffered' \cup {j}
  <2>1. Buffered' \subseteq Buffered
    BY <1>3 DEF Buffered
  <2>2. \A i \in DOMAIN jobs : jobs[i] \in Buffered' \cup {j}
    BY <1>1, <1>4 DEF Buffered
  <2>3. j \in Buffered
    BY <1>1 DEF Buffered
  <2> QED BY <2>1, <2>2, <2>3 DEF Buffered
<1>6. j \notin Buffered'
  BY <1>1, <1>3 DEF QInv, OnePlace, Buffered
<1>7. Busy' = Busy \cup {w} /\ w \notin Busy
  BY <1>1 DEF Busy
<1>8. Performed' = Performed \cup {j}
  BY <1>1, <1>7 DEF Performed, Busy
<1>9. j \notin Performed /\ j \notin sending /\ j \notin done
  BY <1>5 DEF QInv, OnePlace
<1>10. Outstanding' = Outstanding
  BY <1>5, <1>8 DEF Outstanding
<1>11. jobGroup' = Cardinality(Outstanding')
  BY <1>10 DEF QInv, GroupsExact
<1>12. OnePlace'
  <2>1. \A i, k \in DOMAIN jobs' : jobs'[i] = jobs'[k] => i = k
    BY <1>1, <1>3 DEF QInv, OnePlace
  <2>2. \A u, v \in Busy' : running'[u] = running'[v] => u = v
    BY <1>1, <1>7, <1>9 DEF QInv, OnePlace, Performed, Busy
  <2> QED BY <2>1, <2>2, <1>5, <1>6, <1>8, <1>9 DEF QInv, OnePlace
<1>13. workerGroup' = Cardinality(Alive') /\ WorkersExact' /\ NoRetainedReference'
  <2>1. \A v \in Workers : running'[v] # Nil => life[v] = "looping"
    BY <1>1 DEF QInv, WorkersExact, Busy
  <2> QED BY <1>2, <2>1, PoolUnchanged DEF QTypeOK
<1> QED BY <1>1, <1>2, <1>5, <1>6, <1>8, <1>11, <1>12, <1>13 DEF QInv, GroupsExact

\* FinishJob takes one from jobGroup and one job from what it counts.
LEMMA FinishJobInv ==
    ASSUME QInv, NEW w \in Workers, FinishJob(w)
    PROVE  /\ QInv'
           /\ running[w] \in Performed /\ running[w] \in Jobs
           /\ Performed' = Performed \ {running[w]} /\ Buffered' = Buffered
<1> USE QueueAssumption DEF FinishJob
<1> DEFINE j == running[w]
<1>1. j \in Jobs /\ w \in Busy /\ running \in [Workers -> Jobs \cup {Nil}]
  BY DEF QInv, QTypeOK, Busy
<1>2. Busy' = Busy \ {w} /\ Buffered' = Buffered
  BY <1>1 DEF Busy, Buffered
<1>3. Performed' = Performed \ {j} /\ j \in Performed
  <2>1. \A v \in Busy : v # w => running'[v] = running[v] /\ running[v] # j
    BY <1>1 DEF QInv, OnePlace
  <2> QED BY <1>1, <1>2, <2>1 DEF Performed
<1>4. j \notin sending /\ j \notin Buffered /\ j \notin done
  BY <1>3 DEF QInv, OnePlace
<1>5. Outstanding' = Outstanding \ {j} /\ j \in Outstanding
  BY <1>2, <1>3, <1>4 DEF Outstanding
<1>6. Cardinality(Outstanding') = Cardinality(Outstanding) - 1
  BY <1>5, CountedFinite, FS_RemoveElement DEF QInv
<1>7. jobGroup' = Cardinality(Outstanding')
  BY <1>6 DEF QInv, GroupsExact
<1>8. jobGroup' \in Nat
  <2>1. IsFiniteSet(Outstanding')
    BY <1>5, CountedFinite, FS_RemoveElement DEF QInv
  <2> QED BY <1>7, <2>1, FS_CardinalityType
<1>9. QTypeOK'
  BY <1>1, <1>8 DEF QInv, QTypeOK, poolVars
<1>10. OnePlace'
  BY <1>1, <1>2, <1>3, <1>4 DEF QInv, OnePlace, Busy
<1>11. workerGroup' = Cardinality(Alive') /\ WorkersExact' /\ NoRetainedReference'
  <2>1. \A v \in Workers : running'[v] # Nil => life[v] = "looping"
    BY <1>1 DEF QInv, WorkersExact, Busy
  <2> QED BY <1>9, <2>1, PoolUnchanged DEF QTypeOK
<1> QED BY <1>1, <1>2, <1>3, <1>7, <1>9, <1>10, <1>11 DEF QInv, GroupsExact

\* The jobs' part of the invariant when only the pool changes.
LEMMA JobsUnchanged ==
    ASSUME QInv, UNCHANGED jobVars
    PROVE  /\ jobGroup' = Cardinality(Outstanding')
           /\ OnePlace'
           /\ Busy' = Busy
<1>1. Busy' = Busy /\ Buffered' = Buffered /\ Performed' = Performed
  BY DEF jobVars, Busy, Buffered, Performed
<1>2. Outstanding' = Outstanding
  BY <1>1 DEF Outstanding, jobVars
<1>3. OnePlace'
  BY <1>1 DEF QInv, OnePlace, jobVars
<1> QED BY <1>1, <1>2, <1>3 DEF QInv, GroupsExact, jobVars

\* A late newWorker puts its quit channel into the slot after the last one.
LEMMA RegisterInv ==
    ASSUME QInv, NEW w \in Workers, Register(w)
    PROVE  QInv'
<1> USE QueueAssumption DEF Register
<1>1. /\ backing \in Seq(Workers \cup {Nil}) /\ len \in 0..Len(backing) /\ len \in Nat
      /\ life \in [Workers -> Lives] /\ w \notin closed
  BY DEF QInv, QTypeOK, WorkersExact
<1>2. /\ backing' \in Seq(Workers \cup {Nil})
      /\ len + 1 \in 1..Len(backing')
      /\ backing'[len + 1] = w
      /\ \A i \in 1..len : backing'[i] = backing[i]
      /\ \A i \in len + 2 .. Len(backing') : i <= Len(backing) /\ backing'[i] = backing[i]
  <2>1. CASE len < Len(backing)
    BY <1>1, <2>1 DEF AppendQuit
  <2>2. CASE ~(len < Len(backing))
    BY <1>1, <2>2 DEF AppendQuit
  <2> QED BY <2>1, <2>2
<1>3. QTypeOK'
  BY <1>1, <1>2 DEF QInv, QTypeOK, jobVars, Lives
<1>4. Alive' = Alive
  BY <1>1 DEF Alive
<1>5. workerGroup' = Cardinality(Alive')
  BY <1>4 DEF QInv, GroupsExact
<1>6. WorkersExact'
  <2>1. \A i \in 1..len : backing[i] # w
    BY DEF QInv, WorkersExact
  <2>2. \A i \in 1..len + 1 : /\ backing'[i] \in Workers \ closed
                               /\ life'[backing'[i]] = "looping"
    BY <1>1, <1>2 DEF QInv, WorkersExact
  <2>3. \A i, k \in 1..len + 1 : backing'[i] = backing'[k] => i = k
    BY <1>1, <1>2, <2>1 DEF QInv, WorkersExact
  <2>4. \A v \in Workers \ closed :
           life'[v] = "looping" => \E i \in 1..len + 1 : backing'[i] = v
    <3> SUFFICES ASSUME NEW v \in Workers \ closed, life'[v] = "looping"
                 PROVE  \E i \in 1..len + 1 : backing'[i] = v
      OBVIOUS
    <3>1. CASE v = w
      BY <1>1, <1>2, <3>1
    <3>2. CASE v # w
      <4>1. PICK i \in 1..len : backing[i] = v
        BY <1>1, <3>2 DEF QInv, WorkersExact
      <4> QED BY <1>1, <1>2, <4>1
    <3> QED BY <3>1, <3>2
  <2>5. \A v \in closed : life'[v] \in {"looping", "gone"}
    BY <1>1 DEF QInv, WorkersExact
  <2>6. \A v \in Busy' : life'[v] = "looping"
    BY <1>1, JobsUnchanged DEF QInv, WorkersExact, Busy
  <2> QED BY <2>2, <2>3, <2>4, <2>5, <2>6 DEF WorkersExact
<1>7. NoRetainedReference'
  BY <1>1, <1>2 DEF QInv, NoRetainedReference
<1> QED BY <1>3, <1>5, <1>6, <1>7, JobsUnchanged DEF QInv, GroupsExact

\* A worker that quits takes one from workerGroup.
LEMMA QuitInv ==
    ASSUME QInv, NEW w \in Workers, Quit(w)
    PROVE  QInv'
<1> USE QueueAssumption DEF Quit
<1>1. life \in [Workers -> Lives] /\ w \in closed /\ w \notin Busy
  BY DEF QInv, QTypeOK, Busy
<1>2. Alive' = Alive \ {w} /\ w \in Alive
  BY <1>1 DEF Alive
<1>3. IsFiniteSet(Alive') /\ Cardinality(Alive') = Cardinality(Alive) - 1
  BY <1>2, CountedFinite, FS_RemoveElement DEF QInv
<1>4. workerGroup' = Cardinality(Alive') /\ workerGroup' \in Nat
  BY <1>3, FS_CardinalityType DEF QInv, GroupsExact
<1>5. QTypeOK'
  BY <1>1, <1>4 DEF QInv, QTypeOK, jobVars, Lives
<1>6. WorkersExact'
  BY <1>1, JobsUnchanged DEF QInv, WorkersExact, Busy
<1>7. NoRetainedReference'
  BY DEF QInv, NoRetainedReference
<1> QED BY <1>4, <1>5, <1>6, <1>7, JobsUnchanged DEF QInv, GroupsExact

\* Clamp returns a size of at least 0 and at most maxParallelity.
LEMMA ClampRange ==
    ASSUME NEW n \in Int
    PROVE  Clamp(n) \in 0..MaxParallelity
BY QueueAssumption DEF Clamp

\* Sizing down closes the first diff quit channels, keeps the others in
\* order, and clears the slots behind them.
LEMMA ShrinkInv ==
    ASSUME QInv, NEW size \in Nat, Shrink(size)
    PROVE  QInv'
<1> USE QueueAssumption DEF Shrink
<1> DEFINE diff == len - size
<1> DEFINE cut  == {backing[i] : i \in 1..diff}
<1>1. /\ backing \in Seq(Workers \cup {Nil}) /\ len \in 0..Len(backing)
      /\ len \in Nat /\ diff \in 1..len /\ size < len /\ len = size + diff
  <2>1. backing \in Seq(Workers \cup {Nil}) /\ len \in 0..Len(backing)
    BY DEF QInv, QTypeOK
  <2>2. Len(backing) \in Nat /\ len \in Nat
    BY <2>1
  <2>3. diff > 0
    OBVIOUS
  <2> QED BY <2>1, <2>2, <2>3
<1>2. /\ backing' \in Seq(Workers \cup {Nil}) /\ Len(backing') = Len(backing)
      /\ \A i \in 1..size : backing'[i] = backing[i + diff]
      /\ \A i \in size + 1 .. len : backing'[i] = Nil
      /\ \A i \in len + 1 .. Len(backing) : backing'[i] = backing[i]
  BY <1>1 DEF NilTail, CopyDown
<1>3. /\ cut \subseteq Workers \ closed
      /\ \A v \in cut : life[v] = "looping"
      /\ \A i \in diff + 1 .. len : backing[i] \notin cut
  BY <1>1 DEF QInv, WorkersExact
<1>4. QTypeOK'
  BY <1>1, <1>2, <1>3 DEF QInv, QTypeOK, jobVars
<1>5. Alive' = Alive
  BY DEF Alive
<1>6. workerGroup' = Cardinality(Alive')
  BY <1>5 DEF QInv, GroupsExact
<1>7. WorkersExact'
  <2>1. \A i \in 1..size : /\ backing'[i] \in Workers \ closed'
                            /\ life'[backing'[i]] = "looping"
    BY <1>1, <1>2, <1>3 DEF QInv, WorkersExact
  <2>2. \A i, k \in 1..size : backing'[i] = backing'[k] => i = k
    BY <1>1, <1>2 DEF QInv, WorkersExact
  <2>3. ASSUME NEW v \in Workers \ closed', life'[v] = "looping"
        PROVE  \E i \in 1..size : backing'[i] = v
    <3>1. PICK i \in 1..len : backing[i] = v
      BY <2>3 DEF QInv, WorkersExact
    <3>2. i > diff
      BY <1>1, <2>3, <3>1
    <3>3. i - diff \in 1..size /\ backing'[i - diff] = v
      BY <1>1, <1>2, <3>1, <3>2
    <3> QED BY <3>3
  <2>4. \A v \in closed' : life'[v] \in {"looping", "gone"}
    BY <1>3 DEF QInv, WorkersExact
  <2>5. \A v \in Busy' : life'[v] = "looping"
    BY JobsUnchanged DEF QInv, WorkersExact
  <2> QED BY <2>1, <2>2, <2>3, <2>4, <2>5 DEF WorkersExact
<1>8. NoRetainedReference'
  BY <1>1, <1>2 DEF QInv, NoRetainedReference
<1> QED BY <1>4, <1>6, <1>7, <1>8, JobsUnchanged DEF QInv, GroupsExact

\* Sizing up counts the workers it starts; they are not in q.workers yet.
LEMMA GrowInv ==
    ASSUME QInv, NEW size \in Nat, Grow(size)
    PROVE  QInv'
<1> USE QueueAssumption DEF Grow
<1>1. PICK S \in SUBSET Unborn :
         /\ Cardinality(S) = size - len
         /\ life' = [w \in Workers |-> IF w \in S THEN "starting" ELSE life[w]]
  OBVIOUS
<1>2. len \in Nat /\ size - len \in Nat /\ life \in [Workers -> Lives]
  BY DEF QInv, QTypeOK
<1>3. S \subseteq Workers /\ \A w \in S : life[w] = "unborn"
  BY DEF Unborn
<1>4. QTypeOK'
  BY <1>1, <1>2, <1>3 DEF QInv, QTypeOK, jobVars, Lives
<1>5. Alive' = Alive \cup S /\ Alive \cap S = {}
  BY <1>1, <1>3 DEF Alive
<1>6. IsFiniteSet(S)
  BY <1>3, FS_Subset
<1>7. Cardinality(Alive') = Cardinality(Alive) + Cardinality(S)
  <2>1. IsFiniteSet(Alive) /\ Cardinality(Alive) \in Nat /\ Cardinality(S) \in Nat
    BY <1>6, CountedFinite, FS_CardinalityType DEF QInv
  <2>2. Cardinality(Alive \cup S)
           = Cardinality(Alive) + Cardinality(S) - Cardinality(Alive \cap S)
    BY <1>6, <2>1, FS_Union
  <2>3. Cardinality(Alive \cap S) = 0
    BY <1>5, FS_EmptySet
  <2> QED BY <1>5, <2>1, <2>2, <2>3
<1>8. workerGroup' = Cardinality(Alive')
  BY <1>1, <1>7 DEF QInv, GroupsExact
<1>9. WorkersExact'
  <2>1. \A w \in Workers : life'[w] = "looping" => life[w] = "looping"
    BY <1>1, <1>3
  <2>2. UNCHANGED <<backing, len, closed>> /\ Busy' = Busy
    BY JobsUnchanged
  <2>3. closed \subseteq Workers /\ Busy \subseteq Workers
    BY DEF QInv, QTypeOK, Busy
  <2>4. \A i \in 1..len : /\ backing[i] \in Workers \ closed
                           /\ life'[backing[i]] = "looping"
                           /\ \A k \in 1..len : backing[i] = backing[k] => i = k
    <3>1. \A i \in 1..len : /\ backing[i] \in Workers \ closed
                             /\ life[backing[i]] = "looping"
                             /\ \A k \in 1..len : backing[i] = backing[k] => i = k
      BY Zenon DEF QInv, WorkersExact
    <3>2. \A w \in Workers : life[w] = "looping" => life'[w] = "looping"
      BY <1>1, <1>3
    <3> QED BY <3>1, <3>2, Zenon
  <2>5. \A w \in Workers \ closed :
           life'[w] = "looping" => \E i \in 1..len : backing[i] = w
    BY <2>1 DEF QInv, WorkersExact
  <2>6. \A w \in closed : life'[w] \in {"looping", "gone"}
    <3> TAKE w \in closed
    <3>1. w \in Workers /\ life[w] \in {"looping", "gone"}
      BY <2>3 DEF QInv, WorkersExact
    <3>2. w \notin S
      BY <1>3, <3>1
    <3> QED BY <1>1, <3>1, <3>2
  <2>7. \A w \in Busy : life'[w] = "looping"
    <3> TAKE w \in Busy
    <3>1. w \in Workers /\ life[w] = "looping"
      BY <2>3 DEF QInv, WorkersExact
    <3>2. w \notin S
      BY <1>3, <3>1
    <3> QED BY <1>1, <3>1, <3>2
  <2> QED BY <2>2, <2>4, <2>5, <2>6, <2>7 DEF WorkersExact
<1>10. NoRetainedReference'
  BY DEF QInv, NoRetainedReference
<1> QED BY <1>4, <1>8, <1>9, <1>10, JobsUnchanged DEF QInv, GroupsExact

\* Resize keeps the invariant for every argument.
LEMMA ResizeInv ==
    ASSUME QInv, NEW n \in Int, Resize(n)
    PROVE  QInv'
BY ClampRange, ShrinkInv, GrowInv, QueueAssumption DEF Resize

\* Every step of the queue keeps the invariant.  Modules that drive the queue
\* use this lemma: each of their steps is a QNext step or leaves qvars alone.
LEMMA StepInv == QInv /\ [QNext]_qvars => QInv'
<1> SUFFICES ASSUME QInv, [QNext]_qvars PROVE QInv'
  OBVIOUS
<1>1. CASE UNCHANGED qvars
  <2>1. UNCHANGED poolVars /\ UNCHANGED jobVars
    BY <1>1 DEF qvars
  <2>2. workerGroup' = Cardinality(Alive') /\ WorkersExact' /\ NoRetainedReference'
    BY <2>1, PoolUnchanged DEF QInv, QTypeOK, WorkersExact, Busy, jobVars
  <2>3. QTypeOK'
    BY <2>1 DEF QInv, QTypeOK, poolVars, jobVars
  <2> QED BY <2>1, <2>2, <2>3, JobsUnchanged DEF QInv, GroupsExact
<1>2. ASSUME NEW j \in Jobs, Enqueue(j) PROVE QInv'
  BY <1>2, EnqueueInv
<1>3. ASSUME NEW j \in Jobs, Send(j) PROVE QInv'
  BY <1>3, SendInv
<1>4. ASSUME NEW n \in Sizes, Resize(n) PROVE QInv'
  BY <1>4, ResizeInv, QueueAssumption
<1>5. ASSUME NEW w \in Workers, WorkerStep(w) PROVE QInv'
  BY <1>5, RegisterInv, TakeJobInv, FinishJobInv, QuitInv DEF WorkerStep
<1> QED BY <1>1, <1>2, <1>3, <1>4, <1>5 DEF QNext, CallerStep

\* The inductive invariant of the queue.
THEOREM QueueInvariant == QSpec => []QInv
<1>1. QInit => QInv
  BY InitInv
<1>2. QInv /\ [QNext]_qvars => QInv'
  BY StepInv
<1> QED BY <1>1, <1>2, PTL DEF QSpec

\* Type correctness: no wait group is ever negative, no index out of range.
THEOREM QueueTypes == QSpec => []QTypeOK
<1>1. QInv => QTypeOK
  BY DEF QInv
<1> QED BY <1>1, QueueInvariant, PTL

\* Both wait groups are exact: Wait returns exactly when no job is owed.
THEOREM QueueGroups == QSpec => []GroupsExact
<1>1. QInv => GroupsExact
  BY DEF QInv
<1> QED BY <1>1, QueueInvariant, PTL

\* A job is in one place at a time, so it is performed at most once.
THEOREM QueueOnePlace == QSpec => []OnePlace
<1>1. QInv => OnePlace
  BY DEF QInv
<1> QED BY <1>1, QueueInvariant, PTL

\* q.workers lists exactly the live workers that were not told to quit, so
\* Resize never closes a closed or nil channel.
THEOREM QueueWorkers == QSpec => []WorkersExact
<1>1. QInv => WorkersExact
  BY DEF QInv
<1> QED BY <1>1, QueueInvariant, PTL

\* Sizing down leaves no removed quit channel in the array under q.workers.
THEOREM QueueReferences == QSpec => []NoRetainedReference
<1>1. QInv => NoRetainedReference
  BY DEF QInv
<1> QED BY <1>1, QueueInvariant, PTL

----------------------------------------------------------------------------
(* The refinement of JobPool.                                              *)

\* One job changes its place, and thereby its stage; the others keep theirs.
LEMMA OneJobMoves ==
    ASSUME NEW j \in Jobs, NEW from, NEW to,
           Stage(j) = from, Stage(j)' = to,
           \A k \in Jobs : k # j => Stage(k)' = Stage(k)
    PROVE  Pool!Move(j, from, to)
<1>1. [k \in Jobs |-> Stage(k)]' = [[k \in Jobs |-> Stage(k)] EXCEPT ![j] = to]
  OBVIOUS
<1> QED BY <1>1 DEF Pool!Move

\* Every step of the queue is a step of the abstract pool or leaves it alone.
LEMMA StepRefines ==
    ASSUME QInv, [QNext]_qvars
    PROVE  [Pool!Next]_([j \in Jobs |-> Stage(j)])
<1> DEFINE Kept == \A k \in Jobs : Stage(k)' = Stage(k)
<1>0. ASSUME Kept PROVE UNCHANGED [j \in Jobs |-> Stage(j)]
  BY <1>0
<1>1. ASSUME UNCHANGED jobVars PROVE Kept
  BY <1>1 DEF jobVars, Stage, Performed, Busy, Buffered
<1>2. ASSUME NEW j \in Jobs, Enqueue(j) PROVE Pool!Submit(j)
  <2>1. Buffered' = Buffered /\ Performed' = Performed
    BY <1>2, EnqueueInv
  <2>2. Stage(j) = "new" /\ Stage(j)' = "waiting"
    BY <1>2, <2>1 DEF Enqueue, Stage, Outstanding
  <2>3. \A k \in Jobs : k # j => Stage(k)' = Stage(k)
    BY <1>2, <2>1 DEF Enqueue, Stage
  <2> QED BY <2>2, <2>3, OneJobMoves DEF Pool!Submit
<1>3. ASSUME NEW j \in Jobs, Send(j) PROVE Kept
  <2>1. Buffered' = Buffered \cup {j} /\ Performed' = Performed
    BY <1>3, SendInv
  <2> QED BY <1>3, <2>1 DEF Send, Stage
<1>4. ASSUME NEW w \in Workers, TakeJob(w) PROVE \E j \in Jobs : Pool!Begin(j)
  <2>1. PICK j \in Jobs :
        /\ j = Head(jobs)
        /\ Buffered = Buffered' \cup {j} /\ j \notin Buffered'
        /\ Performed' = Performed \cup {j}
    BY <1>4, TakeJobInv
  <2>2. j \notin Performed /\ j \notin done
    BY <2>1 DEF QInv, OnePlace
  <2>3. Stage(j) = "waiting" /\ Stage(j)' = "running"
    BY <1>4, <2>1, <2>2 DEF TakeJob, Stage
  <2>4. \A k \in Jobs : k # j => Stage(k)' = Stage(k)
    BY <1>4, <2>1 DEF TakeJob, Stage
  <2> QED BY <2>1, <2>3, <2>4, OneJobMoves DEF Pool!Begin
<1>5. ASSUME NEW w \in Workers, FinishJob(w) PROVE \E j \in Jobs : Pool!Finish(j)
  <2>1. PICK j \in Jobs :
        /\ j = running[w] /\ j \in Performed
        /\ Performed' = Performed \ {j} /\ Buffered' = Buffered
    BY <1>5, FinishJobInv
  <2>2. j \notin done
    BY <2>1 DEF QInv, OnePlace
  <2>3. Stage(j) = "running" /\ Stage(j)' = "finished"
    BY <1>5, <2>1, <2>2 DEF FinishJob, Stage
  <2>4. \A k \in Jobs : k # j => Stage(k)' = Stage(k)
    BY <1>5, <2>1 DEF FinishJob, Stage
  <2> QED BY <2>1, <2>3, <2>4, OneJobMoves DEF Pool!Finish
<1>6. ASSUME NEW w \in Workers, Register(w) \/ Quit(w) PROVE Kept
  BY <1>1, <1>6 DEF Register, Quit
<1>7. ASSUME NEW n \in Sizes, Resize(n) PROVE Kept
  BY <1>1, <1>7 DEF Resize, Shrink, Grow
<1>8. CASE UNCHANGED qvars
  BY <1>0, <1>1, <1>8 DEF qvars
<1> HIDE DEF Kept
<1>9. CASE CallerStep
  BY <1>0, <1>2, <1>3, <1>7, <1>9 DEF CallerStep, Pool!Next
<1>10. CASE \E w \in Workers : WorkerStep(w)
  BY <1>0, <1>4, <1>5, <1>6, <1>10 DEF WorkerStep, Pool!Next
<1> QED BY <1>8, <1>9, <1>10 DEF QNext

\* The queue implements the abstract job pool.
THEOREM QueueRefinesPool == QSpec => PoolSpec
<1>1. QInit => Pool!Init
  <2>1. QInit => \A j \in Jobs : Stage(j) = "new"
    BY QueueAssumption DEF QInit, Stage, Performed, Busy, Buffered
  <2> QED BY <2>1 DEF Pool!Init
<1>2. QInv /\ [QNext]_qvars => [Pool!Next]_([j \in Jobs |-> Stage(j)])
  BY StepRefines
<1> QED BY <1>1, <1>2, QueueInvariant, PTL DEF QSpec, PoolSpec, Pool!Spec

----------------------------------------------------------------------------
(* The run command: every step of this process is a step of the queue or   *)
(* leaves it alone.                                                        *)

Remaining == {args[i] : i \in DOMAIN args} \cap Known
Accepted  == Outstanding \cup done

\* What the command was asked for is what the loop has still to visit and
\* what Enqueue was called for.
RInv ==
    /\ QInv
    /\ TypeOK
    /\ Accepted \cup Remaining = ToBackUp
    /\ pc = "send" => args # <<>> /\ Head(args) \in sending
    /\ pc = "exited" => args = <<>> /\ jobGroup = 0

\* Only Enqueue adds a job to the queue, and none is ever lost.
LEMMA AcceptedKept ==
    ASSUME QInv,
           \/ UNCHANGED qvars
           \/ \E j \in Jobs : Send(j)
           \/ \E n \in Sizes : Resize(n)
           \/ \E w \in Workers : WorkerStep(w)
    PROVE  Accepted' = Accepted
<1>1. ASSUME UNCHANGED jobVars PROVE Accepted' = Accepted
  BY <1>1 DEF jobVars, Accepted, Outstanding, Performed, Busy, Buffered
<1>2. ASSUME NEW j \in Jobs, Send(j) PROVE Accepted' = Accepted
  <2>1. Buffered' = Buffered \cup {j} /\ Performed' = Performed
    BY <1>2, SendInv
  <2> QED BY <1>2, <2>1 DEF Send, Accepted, Outstanding
<1>3. ASSUME NEW w \in Workers, TakeJob(w) PROVE Accepted' = Accepted
  <2>1. /\ Buffered = Buffered' \cup {Head(jobs)}
        /\ Performed' = Performed \cup {Head(jobs)}
    BY <1>3, TakeJobInv
  <2> QED BY <1>3, <2>1 DEF TakeJob, Accepted, Outstanding
<1>4. ASSUME NEW w \in Workers, FinishJob(w) PROVE Accepted' = Accepted
  <2>1. /\ running[w] \in Performed
        /\ Performed' = Performed \ {running[w]} /\ Buffered' = Buffered
    BY <1>4, FinishJobInv
  <2> QED BY <1>4, <2>1 DEF FinishJob, Accepted, Outstanding
<1>5. ASSUME NEW w \in Workers, Register(w) \/ Quit(w) PROVE UNCHANGED jobVars
  BY <1>5 DEF Register, Quit
<1>6. ASSUME NEW n \in Sizes, Resize(n) PROVE UNCHANGED jobVars
  BY <1>6 DEF Resize, Shrink, Grow
<1>7. UNCHANGED qvars => UNCHANGED jobVars
  BY DEF qvars
<1> QED BY <1>1, <1>2, <1>3, <1>4, <1>5, <1>6, <1>7 DEF WorkerStep

\* The first element of a list and the rest of it make up the list.
LEMMA HeadAndTail ==
    ASSUME NEW s \in Seq(Jobs), s # <<>>
    PROVE  /\ Head(s) \in Jobs /\ Tail(s) \in Seq(Jobs)
           /\ {s[i] : i \in DOMAIN s}
                = {Head(s)} \cup {Tail(s)[i] : i \in DOMAIN Tail(s)}
<1>1. Head(s) = s[1] /\ 1 \in DOMAIN s /\ Len(Tail(s)) = Len(s) - 1
  OBVIOUS
<1>2. \A i \in DOMAIN Tail(s) : i + 1 \in DOMAIN s /\ Tail(s)[i] = s[i + 1]
  OBVIOUS
<1>3. \A i \in DOMAIN s : i # 1 => i - 1 \in DOMAIN Tail(s) /\ Tail(s)[i - 1] = s[i]
  OBVIOUS
<1>4. {s[i] : i \in DOMAIN s}
        \subseteq {Head(s)} \cup {Tail(s)[i] : i \in DOMAIN Tail(s)}
  BY <1>1, <1>3
<1>5. {Tail(s)[i] : i \in DOMAIN Tail(s)} \subseteq {s[i] : i \in DOMAIN s}
  BY <1>2
<1> QED BY <1>1, <1>4, <1>5

\* The process starts with an empty queue and the whole list before it.
LEMMA RunInit == Init => RInv
<1> SUFFICES ASSUME Init PROVE RInv
  OBVIOUS
<1> USE QueueAssumption, RunAssumption DEF Init
<1>1. QInv
  BY InitInv
<1>2. TypeOK
  BY <1>1 DEF TypeOK, QInv
<1>3. Accepted = {}
  BY DEF Accepted, QInit, Outstanding, Buffered, Performed, Busy
<1>4. Remaining = ToBackUp
  BY DEF Remaining, ToBackUp
<1> QED BY <1>1, <1>2, <1>3, <1>4 DEF RInv

\* Every step of the process keeps the invariant.
LEMMA RunStep == RInv /\ [Next]_vars => RInv'
<1> SUFFICES ASSUME RInv, [Next]_vars PROVE RInv'
  OBVIOUS
<1> USE RunAssumption
<1>1. /\ QInv /\ args \in Seq(Jobs)
      /\ pc \in {"initConfig", "runCmd", "loop", "send", "exited"}
      /\ parallel \in Sizes /\ runParallel \in Sizes
  BY DEF RInv, TypeOK
<1>2. ASSUME QInv', UNCHANGED flags, args' \in Seq(Jobs),
             pc' \in {"initConfig", "runCmd", "loop", "send", "exited"}
      PROVE  TypeOK' /\ ToBackUp' = ToBackUp
  BY <1>2 DEF RInv, TypeOK, flags, ToBackUp, QInv
<1>3. ASSUME UNCHANGED args PROVE Remaining' = Remaining
  BY <1>3 DEF Remaining
<1>4. CASE InitConfig
  <2>1. Resize(parallel) /\ pc' = "runCmd" /\ UNCHANGED args /\ UNCHANGED flags
    BY <1>4 DEF InitConfig
  <2>2. QInv' /\ Accepted' = Accepted
    BY <1>1, <2>1, StepInv, AcceptedKept DEF QNext, CallerStep
  <2> QED BY <1>1, <1>2, <1>3, <2>1, <2>2 DEF RInv
<1>5. CASE ApplyFlag
  <2>1. /\ pc' = "loop" /\ UNCHANGED args /\ UNCHANGED flags
        /\ Resize(runParallel) \/ UNCHANGED qvars
    BY <1>5 DEF ApplyFlag
  <2>2. QInv' /\ Accepted' = Accepted
    BY <1>1, <2>1, StepInv, AcceptedKept DEF QNext, CallerStep
  <2> QED BY <1>1, <1>2, <1>3, <2>1, <2>2 DEF RInv
<1>6. CASE SkipUnknown
  <2>1. /\ pc = "loop" /\ pc' = pc /\ UNCHANGED flags /\ UNCHANGED qvars
        /\ args # <<>> /\ Head(args) \notin Known /\ args' = Tail(args)
    BY <1>6 DEF SkipUnknown
  <2>2. QInv' /\ Accepted' = Accepted
    BY <1>1, <2>1, StepInv, AcceptedKept
  <2>3. args' \in Seq(Jobs) /\ Remaining' = Remaining
    BY <1>1, <2>1, HeadAndTail DEF Remaining
  <2> QED BY <1>1, <1>2, <2>1, <2>2, <2>3 DEF RInv
<1>7. CASE EnqueueNext
  <2>1. /\ pc' = "send" /\ UNCHANGED args /\ UNCHANGED flags
        /\ args # <<>> /\ Head(args) \in Known /\ Enqueue(Head(args))
    BY <1>7 DEF EnqueueNext
  <2>2. PICK j \in Jobs : j = Head(args) /\ Enqueue(j) /\ j \in Remaining
    BY <1>1, <2>1, HeadAndTail DEF Remaining
  <2>3. QInv' /\ Buffered' = Buffered /\ Performed' = Performed
    BY <1>1, <2>2, EnqueueInv
  <2>4. sending' = sending \cup {j} /\ done' = done
    BY <2>2 DEF Enqueue
  <2>5. Accepted' = Accepted \cup {j}
    BY <2>3, <2>4 DEF Accepted, Outstanding
  <2> QED BY <1>1, <1>2, <1>3, <2>1, <2>2, <2>3, <2>4, <2>5 DEF RInv
<1>8. CASE SendNext
  <2>1. /\ pc = "send" /\ pc' = "loop" /\ UNCHANGED flags
        /\ Send(Head(args)) /\ args' = Tail(args)
    BY <1>8 DEF SendNext
  <2>2. args # <<>> /\ Head(args) \in Jobs /\ Head(args) \in Accepted
    BY <1>1, <2>1, HeadAndTail DEF RInv, Accepted, Outstanding
  <2>3. QInv' /\ Accepted' = Accepted
    BY <1>1, <2>1, <2>2, StepInv, AcceptedKept DEF QNext, CallerStep
  <2>4. args' \in Seq(Jobs) /\ Accepted \cup Remaining' = Accepted \cup Remaining
    BY <1>1, <2>1, <2>2, HeadAndTail DEF Remaining
  <2> QED BY <1>1, <1>2, <2>1, <2>3, <2>4 DEF RInv
<1>9. CASE WaitReturns
  <2>1. /\ pc' = "exited" /\ UNCHANGED args /\ UNCHANGED flags /\ UNCHANGED qvars
        /\ args = <<>> /\ jobGroup = 0 /\ jobGroup' = jobGroup
    BY <1>9 DEF WaitReturns, qvars, jobVars
  <2>2. QInv' /\ Accepted' = Accepted
    BY <1>1, <2>1, StepInv, AcceptedKept
  <2> QED BY <1>1, <1>2, <1>3, <2>1, <2>2 DEF RInv
<1>10. ASSUME NEW w \in Workers, Goroutine(w) PROVE RInv'
  <2>1. /\ pc # "exited" /\ WorkerStep(w)
        /\ pc' = pc /\ UNCHANGED args /\ UNCHANGED flags
    BY <1>10 DEF Goroutine, mainVars, flags
  <2>2. QInv' /\ Accepted' = Accepted
    BY <1>1, <2>1, StepInv, AcceptedKept DEF QNext
  <2>3. sending' = sending
    BY <2>1 DEF WorkerStep, Register, TakeJob, FinishJob, Quit, jobVars
  <2> QED BY <1>1, <1>2, <1>3, <2>1, <2>2, <2>3 DEF RInv
<1>11. CASE UNCHANGED vars
  <2>1. /\ pc' = pc /\ UNCHANGED args /\ UNCHANGED flags /\ UNCHANGED qvars
        /\ sending' = sending /\ jobGroup' = jobGroup
    BY <1>11 DEF vars, mainVars, flags, qvars, jobVars
  <2>2. QInv' /\ Accepted' = Accepted
    BY <1>1, <2>1, StepInv, AcceptedKept
  <2> QED BY <1>1, <1>2, <1>3, <2>1, <2>2 DEF RInv
<1> QED
  BY <1>4, <1>5, <1>6, <1>7, <1>8, <1>9, <1>10, <1>11 DEF Next, MainStep, Exited

\* An exited process has an empty wait group, so nothing is outstanding.
LEMMA ExitedIsDone == RInv => ExitMeansDone
<1> SUFFICES ASSUME RInv, pc = "exited" PROVE done = ToBackUp /\ Busy = {}
  BY DEF ExitMeansDone
<1>1. Outstanding = {}
  BY CountedFinite, FS_EmptySet DEF RInv, QInv, GroupsExact
<1>2. Remaining = {}
  BY DEF RInv, Remaining
<1>3. Busy = {}
  BY <1>1 DEF Outstanding, Performed
<1> QED BY <1>1, <1>2, <1>3 DEF RInv, Accepted

\* The run command returns only when each known host it was asked for was
\* backed up and no backup is running, for every pool size and host list.
THEOREM RunExitMeansDone == Spec => []ExitMeansDone
<1>1. Init => RInv
  BY RunInit
<1>2. RInv /\ [Next]_vars => RInv'
  BY RunStep
<1>3. RInv => ExitMeansDone
  BY ExitedIsDone
<1> QED BY <1>1, <1>2, <1>3, PTL DEF Spec

\* Type correctness of the run command and of the queue inside it: no wait
\* group goes negative, however Resize, the loop and the workers interleave.
THEOREM RunTypes == Spec => []TypeOK
<1>1. Init => RInv
  BY RunInit
<1>2. RInv /\ [Next]_vars => RInv'
  BY RunStep
<1>3. RInv => TypeOK
  BY DEF RInv
<1> QED BY <1>1, <1>2, <1>3, PTL DEF Spec

----------------------------------------------------------------------------
(* The two limits.                                                         *)

\* The workers whose goroutine was ever started.
Started == Workers \ Unborn

\* What ConfigBoundsParallelism allows.
Limit ==
    IF parallel = 0 THEN 1 + Asked
    ELSE IF runParallel > 0 THEN Clamp(parallel) + Asked - 1
    ELSE Clamp(parallel)

\* Each sizing starts what the list q.workers lacks, so what counts is how
\* short the list can be: it has the first worker on it when initConfig sizes
\* the queue, and still has it for the second sizing unless the first one
\* cut it off.
LimitInv ==
    /\ RInv
    /\ pc = "initConfig" => Cardinality(Started) <= 1 /\ len >= 1
    /\ pc = "runCmd" /\ parallel = 0 => Cardinality(Started) <= 1
    /\ pc = "runCmd" /\ parallel > 0 => Cardinality(Started) <= Clamp(parallel) /\ len >= 1
    /\ pc \in {"loop", "send", "exited"} => Cardinality(Started) <= Limit

\* Sets of workers are finite and can be counted.
LEMMA StartedFinite ==
    /\ IsFiniteSet(Started)
    /\ Cardinality(Started) \in Nat
<1>1. IsFiniteSet(Started)
  BY QueueAssumption, FS_Subset DEF Started
<1> QED BY <1>1, FS_CardinalityType

\* Clamp asks for a worker unless it was asked for none.
LEMMA ClampKeepsSign ==
    ASSUME NEW n \in Int
    PROVE  /\ Clamp(n) \in Nat
           /\ n > 0 => Clamp(n) >= 1
           /\ n = 0 => Clamp(n) = 0
BY QueueAssumption DEF Clamp

\* The settings are a byte of config.yml and an integer flag.
LEMMA MainTypes ==
    RInv => /\ parallel \in Nat /\ runParallel \in Int
            /\ pc \in {"initConfig", "runCmd", "loop", "send", "exited"}
<1> SUFFICES ASSUME RInv
             PROVE  /\ parallel \in Nat /\ runParallel \in Int
                    /\ pc \in {"initConfig", "runCmd", "loop", "send", "exited"}
  OBVIOUS
<1>1. /\ pc \in {"initConfig", "runCmd", "loop", "send", "exited"}
      /\ <<parallel, runParallel>> \in Settings
  BY DEF RInv, TypeOK
<1>2. <<parallel, runParallel>> \in (0..255) \X Int
  BY <1>1, RunAssumption
<1> QED BY <1>1, <1>2

\* A resize to size starts size - len workers, or none.
LEMMA ResizeStarts ==
    ASSUME QTypeOK, NEW n \in Int, Resize(n)
    PROVE  \/ /\ len > Clamp(n) /\ len' = Clamp(n)
              /\ Cardinality(Started') = Cardinality(Started)
           \/ /\ len <= Clamp(n) /\ len' = len
              /\ Cardinality(Started') = Cardinality(Started) + Clamp(n) - len
<1> DEFINE size == Clamp(n)
<1>0. size \in Nat /\ len \in Nat /\ life \in [Workers -> Lives]
  BY ClampKeepsSign DEF QTypeOK
<1>1. CASE Shrink(size)
  <2>1. len - size > 0 /\ len' = size /\ life' = life
    BY <1>1 DEF Shrink
  <2>2. Started' = Started
    BY <2>1 DEF Started, Unborn
  <2> QED BY <1>0, <2>1, <2>2
<1>2. CASE Grow(size)
  <2>1. PICK S \in SUBSET Unborn :
          /\ Cardinality(S) = size - len
          /\ life' = [w \in Workers |-> IF w \in S THEN "starting" ELSE life[w]]
    BY <1>2 DEF Grow
  <2>2. len <= size /\ len' = len
    BY <1>2 DEF Grow
  <2>3. Started' = Started \cup S /\ Started \cap S = {}
    BY <1>0, <2>1 DEF Started, Unborn, Lives
  <2>4. IsFiniteSet(S)
    BY <2>1, QueueAssumption, FS_Subset DEF Unborn
  <2>5. Cardinality(Started \cup S)
          = Cardinality(Started) + Cardinality(S) - Cardinality(Started \cap S)
    BY <2>4, StartedFinite, FS_Union
  <2>6. Cardinality(Started \cap S) = 0
    BY <2>3, FS_EmptySet
  <2> QED BY <1>0, <2>1, <2>2, <2>3, <2>5, <2>6, StartedFinite
<1> QED BY <1>1, <1>2 DEF Resize

\* No other step starts a worker, and none but Resize shortens the list.
LEMMA OthersStartNone ==
    ASSUME QTypeOK,
           \/ UNCHANGED qvars
           \/ \E j \in Jobs : Enqueue(j) \/ Send(j)
           \/ \E w \in Workers : WorkerStep(w)
    PROVE  Cardinality(Started') = Cardinality(Started) /\ len' >= len
<1>0. len \in Nat /\ life \in [Workers -> Lives]
  BY DEF QTypeOK
<1>1. CASE UNCHANGED poolVars
  BY <1>0, <1>1 DEF poolVars, Started, Unborn
<1>2. ASSUME NEW w \in Workers, Register(w) \/ Quit(w)
      PROVE  Started' = Started /\ len' >= len
  <2>1. \E l \in {"looping", "gone"} : life' = [life EXCEPT ![w] = l]
    BY <1>2 DEF Register, Quit
  <2>2. life[w] # "unborn" /\ (len' = len + 1 \/ len' = len)
    BY <1>2 DEF Register, Quit
  <2> QED BY <1>0, <2>1, <2>2 DEF Started, Unborn
<1>3. ASSUME NEW w \in Workers, TakeJob(w) \/ FinishJob(w) PROVE UNCHANGED poolVars
  BY <1>3 DEF TakeJob, FinishJob
<1>4. ASSUME NEW j \in Jobs, Enqueue(j) \/ Send(j) PROVE UNCHANGED poolVars
  BY <1>4 DEF Enqueue, Send
<1>5. UNCHANGED qvars => UNCHANGED poolVars
  BY DEF qvars
<1> QED BY <1>1, <1>2, <1>3, <1>4, <1>5 DEF WorkerStep

\* One worker is started, and on the list, when the process begins.
LEMMA LimitInit == Init => LimitInv
<1> SUFFICES ASSUME Init PROVE LimitInv
  OBVIOUS
<1>1. pc = "initConfig" /\ len >= 1
  BY DEF Init, QInit
<1>2. PICK w \in Workers : life = [v \in Workers |-> IF v = w THEN "looping" ELSE "unborn"]
  BY DEF Init, QInit
<1>3. Started = {w}
  BY <1>2 DEF Started, Unborn
<1>4. Cardinality(Started) = 1
  BY <1>3, FS_Singleton
<1> QED BY <1>1, <1>4, RunInit DEF LimitInv

\* Every step of the process keeps the count within the limit.
LEMMA LimitStep == LimitInv /\ [Next]_vars => LimitInv'
<1> SUFFICES ASSUME LimitInv, [Next]_vars PROVE LimitInv'
  OBVIOUS
<1> USE RunAssumption
<1>1. /\ RInv' /\ QTypeOK /\ len \in Nat
      /\ parallel \in Nat /\ runParallel \in Int
      /\ pc \in {"initConfig", "runCmd", "loop", "send", "exited"}
  <2>1. RInv /\ RInv'
    BY RunStep DEF LimitInv
  <2>2. QTypeOK /\ len \in Nat
    BY <2>1 DEF RInv, TypeOK, QTypeOK
  <2> QED BY <2>1, <2>2, MainTypes
<1>2. /\ Clamp(parallel) \in Nat /\ Clamp(runParallel) \in Nat
      /\ parallel > 0 => Clamp(parallel) >= 1
      /\ parallel = 0 => Clamp(parallel) = 0
      /\ runParallel > 0 => Clamp(runParallel) >= 1
  BY <1>1, ClampKeepsSign
<1>3. parallel' = parallel /\ runParallel' = runParallel
  BY DEF Next, MainStep, InitConfig, ApplyFlag, SkipUnknown, EnqueueNext, SendNext,
         WaitReturns, Exited, Goroutine, vars, mainVars, flags
<1>4. Limit' = Limit /\ Clamp(parallel)' = Clamp(parallel)
  BY <1>3 DEF Limit, Asked, Clamp
<1>5. CASE InitConfig
  <2>1. pc = "initConfig" /\ pc' = "runCmd" /\ Resize(parallel)
    BY <1>5 DEF InitConfig
  <2>2. Cardinality(Started) <= 1 /\ len >= 1
    BY <2>1 DEF LimitInv
  <2>3. \/ /\ len > Clamp(parallel) /\ len' = Clamp(parallel)
           /\ Cardinality(Started') = Cardinality(Started)
        \/ /\ len <= Clamp(parallel) /\ len' = len
           /\ Cardinality(Started') = Cardinality(Started) + Clamp(parallel) - len
    BY <1>1, <2>1, ResizeStarts
  <2>4. /\ parallel = 0 => Cardinality(Started') <= 1
        /\ parallel > 0 => Cardinality(Started') <= Clamp(parallel) /\ len' >= 1
    BY <1>1, <1>2, <2>2, <2>3, StartedFinite
  <2> QED BY <1>1, <1>3, <1>4, <2>1, <2>4 DEF LimitInv
<1>6. CASE ApplyFlag
  <2>1. pc = "runCmd" /\ pc' = "loop"
    BY <1>6 DEF ApplyFlag
  <2>2. /\ parallel = 0 => Cardinality(Started) <= 1
        /\ parallel > 0 => Cardinality(Started) <= Clamp(parallel) /\ len >= 1
    BY <2>1 DEF LimitInv
  <2>3. CASE runParallel > 0 /\ Resize(runParallel)
    <3>1. \/ Cardinality(Started') = Cardinality(Started)
          \/ Cardinality(Started') = Cardinality(Started) + Clamp(runParallel) - len
      BY <1>1, <2>3, ResizeStarts
    <3>2. Asked = Clamp(runParallel)
      BY <2>3 DEF Asked
    <3>3. Cardinality(Started') <= Limit
      BY <1>1, <1>2, <2>2, <2>3, <3>1, <3>2, StartedFinite DEF Limit
    <3> QED BY <1>1, <1>4, <2>1, <3>3 DEF LimitInv
  <2>4. CASE runParallel <= 0 /\ UNCHANGED qvars
    <3>1. Cardinality(Started') = Cardinality(Started)
      BY <1>1, <2>4, OthersStartNone
    <3>2. Cardinality(Started') <= Limit
      BY <1>1, <1>2, <2>2, <2>4, <3>1, StartedFinite DEF Limit, Asked
    <3> QED BY <1>1, <1>4, <2>1, <3>2 DEF LimitInv
  <2> QED BY <1>6, <2>3, <2>4 DEF ApplyFlag
\* All other steps start nobody and leave the main goroutine on the side of
\* the sizings it is on.
<1>7. ASSUME \/ UNCHANGED qvars
             \/ \E j \in Jobs : Enqueue(j) \/ Send(j)
             \/ \E w \in Workers : WorkerStep(w),
             \/ pc' = pc
             \/ pc \in {"loop", "send", "exited"} /\ pc' \in {"loop", "send", "exited"}
      PROVE  LimitInv'
  <2>1. Cardinality(Started') = Cardinality(Started) /\ len' >= len /\ len' \in Nat
    BY <1>1, <1>7, OthersStartNone DEF RInv, TypeOK, QTypeOK
  <2>2. CASE pc' = pc
    BY <1>1, <1>3, <1>4, <2>1, <2>2 DEF LimitInv
  <2>3. CASE pc \in {"loop", "send", "exited"} /\ pc' \in {"loop", "send", "exited"}
    BY <1>1, <1>4, <2>1, <2>3 DEF LimitInv
  <2> QED BY <1>7, <2>2, <2>3
<1>8. CASE SkipUnknown \/ WaitReturns
  BY <1>7, <1>8 DEF SkipUnknown, WaitReturns
<1>9. CASE EnqueueNext
  <2>1. Head(args) \in Jobs /\ Enqueue(Head(args))
    BY <1>9, HeadAndTail DEF EnqueueNext, LimitInv, RInv, TypeOK
  <2> QED BY <1>7, <1>9, <2>1 DEF EnqueueNext
<1>10. CASE SendNext
  <2>1. Head(args) \in Jobs /\ Send(Head(args))
    BY <1>10, HeadAndTail DEF SendNext, LimitInv, RInv, TypeOK
  <2> QED BY <1>7, <1>10, <2>1 DEF SendNext
<1>11. ASSUME NEW w \in Workers, Goroutine(w) PROVE LimitInv'
  BY <1>7, <1>11 DEF Goroutine, mainVars
<1>12. CASE UNCHANGED vars
  BY <1>7, <1>12 DEF vars, mainVars
<1> QED
  BY <1>5, <1>6, <1>8, <1>9, <1>10, <1>11, <1>12 DEF Next, MainStep, Exited

\* The two pool sizes bound the number of concurrent backups in every state,
\* for every config, flag and list of hosts: only a started worker is busy.
THEOREM RunBoundsParallelism == Spec => []ConfigBoundsParallelism
<1>1. Init => LimitInv
  BY LimitInit
<1>2. LimitInv /\ [Next]_vars => LimitInv'
  BY LimitStep
<1>3. LimitInv => ConfigBoundsParallelism
  <2> SUFFICES ASSUME LimitInv PROVE Cardinality(Busy) <= Limit
    BY DEF ConfigBoundsParallelism, Limit
  <2>1. /\ parallel \in Nat /\ runParallel \in Int
        /\ pc \in {"initConfig", "runCmd", "loop", "send", "exited"}
    BY MainTypes DEF LimitInv
  <2>2. Busy \subseteq Started
    BY DEF LimitInv, RInv, QInv, WorkersExact, Busy, Started, Unborn
  <2>3. Cardinality(Busy) <= Cardinality(Started) /\ Cardinality(Busy) \in Nat
    BY <2>2, StartedFinite, FS_Subset, FS_CardinalityType
  <2>4. /\ Clamp(parallel) \in Nat /\ Clamp(runParallel) \in Nat
        /\ parallel > 0 => Clamp(parallel) >= 1
        /\ runParallel > 0 => Clamp(runParallel) >= 1
    BY <2>1, ClampKeepsSign
  <2>5. Cardinality(Started) <= Limit
    BY <2>1, <2>4, StartedFinite DEF LimitInv, Limit, Asked
  <2> QED BY <2>1, <2>3, <2>4, <2>5, StartedFinite DEF Limit, Asked
<1> QED BY <1>1, <1>2, <1>3, PTL DEF Spec
=============================================================================
