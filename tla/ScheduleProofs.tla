--------------------------- MODULE ScheduleProofs ---------------------------
(***************************************************************************)
(* The three properties of MCSchedule.tla for all schedules, jitters and   *)
(* reference times, and for all lengths of the units of time.  They are    *)
(* invariants of a specification whose every state is one call, so each    *)
(* proof is the lemma of ScheduleLemmas.tla about that call.               *)
(***************************************************************************)
EXTENDS MCSchedule, ScheduleLemmas

\* Every state is a call with arguments of the right types.
LEMMA Inputs == Spec => [](sc \in Schedules /\ jitter \in Int /\ ref \in Int)
  <1> DEFINE I == sc \in Schedules /\ jitter \in Jitters /\ ref \in Int
  <1>1. Init => I
    BY DEF Init
  <1>2. I /\ [Tick]_<<sc, jitter, ref>> => I'
    BY JittersAssumption DEF Tick
  <1>3. I => sc \in Schedules /\ jitter \in Int /\ ref \in Int
    BY JittersAssumption
  <1> QED BY <1>1, <1>2, <1>3, PTL DEF Spec

\* schedule.Next returns the first instant after its argument at which the
\* clock shows the scheduled time, whatever the lengths of the units.
THEOREM ScheduleNextIsLeast == Spec => []NextIsLeast
  <1>1. sc \in Schedules /\ jitter \in Int /\ ref \in Int => NextIsLeast
    BY NextIsLeastInDay DEF NextIsLeast
  <1> QED BY <1>1, Inputs, PTL

\* NextSchedule returns a time in the future, within half the jitter of an
\* instant of the schedule, whatever number is drawn.
THEOREM ScheduleJitterWindow == Spec => []JitterWindow
  <1>1. ASSUME sc \in Schedules, jitter \in Int, ref \in Int PROVE JitterWindow
    <2> USE <1>1
    <2> SUFFICES ASSUME NEW n \in NextSchedule(sc, jitter, ref)
                 PROVE  /\ n > ref
                        /\ \E d \in n - HalfJitter(jitter) .. n + HalfJitter(jitter) :
                              d % Day = Offset(sc)
      BY DEF JitterWindow
    <2> DEFINE b == Base(sc, jitter, ref)
               g == HalfJitter(jitter)
    <2>1. PICK a \in -g..g : n = b + a
      BY NearBase
    <2>2. b \in Int /\ b > ref + g /\ g \in Nat
      BY BaseIsNextWindow, HalfJitterType
    <2>3. b % Day = Offset(sc)
      <3>1. /\ Window(sc, jitter, ref) + 1 \in Int
            /\ b = (Window(sc, jitter, ref) + 1) * Day + Offset(sc)
        BY BaseIsNextWindow
      <3> DEFINE k == Window(sc, jitter, ref) + 1
      <3> HIDE DEF k, b
      <3>2. Offset(sc) \in 0..Day - 1 /\ Day \in Nat \ {0}
        BY OffsetInDay, Units
      <3>3. b = Day * k + Offset(sc)
        BY <3>1, <3>2 DEF k
      <3>4. k \in Int
        BY <3>1 DEF k
      <3> QED BY <2>2, <3>2, <3>3, <3>4, DivUnique
    <2> HIDE DEF b, g
    <2>4. n > ref /\ b \in n - g .. n + g
      BY <2>1, <2>2
    <2> QED BY <2>3, <2>4 DEF g
  <1> QED BY <1>1, Inputs, PTL

\* NextSchedule returns a time in a later window than its argument's, near
\* the instant of the very next one: rescheduling at each enqueueing neither
\* repeats nor leaves out a day.
THEOREM ScheduleNextWindow == Spec => []NextWindow
  <1>1. sc \in Schedules /\ jitter \in Int /\ ref \in Int => NextWindow
    BY LaterWindow, BaseIsNextWindow DEF NextWindow
  <1> QED BY <1>1, Inputs, PTL
=============================================================================
