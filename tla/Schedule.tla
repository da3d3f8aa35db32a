------------------------------ MODULE Schedule ------------------------------
(***************************************************************************)
(* The daily schedule of config/service.go: schedule.Next and              *)
(* ServiceConfig.NextSchedule.                                             *)
(*                                                                         *)
(* Time is a number of ticks since midnight (UTC) of some day.  How many   *)
(* ticks, seconds, minutes and hours make the next larger unit is a        *)
(* parameter, so that the comparison of hours, minutes and seconds can be  *)
(* checked on small days.  NextSchedule works in UTC, where every day has  *)
(* the same length and the day after the last of a month is the first of   *)
(* the next (time.Date normalises), so days are simply counted.            *)
(***************************************************************************)
EXTENDS Ticks

CONSTANTS
    SecondsPerMinute,
    MinutesPerHour,
    HoursPerDay,
    Quantum            \* ticks in 100ms, what the jitter is truncated to

ASSUME ScheduleAssumption ==
    {SecondsPerMinute, MinutesPerHour, HoursPerDay, Quantum} \subseteq Nat \ {0}

Minute == Second * SecondsPerMinute
Hour   == Minute * MinutesPerHour
Day    == Hour * HoursPerDay

\* type schedule: the values UnmarshalYAML accepts, everything else is
\* errScheduleOutOfRange.
Schedules == [h : 0..HoursPerDay - 1, m : 0..MinutesPerHour - 1, s : 0..SecondsPerMinute - 1]

\* t.Clock(): the fraction of a second is dropped.
Clock(t) == [h |-> (t % Day) \div Hour,
             m |-> (t % Hour) \div Minute,
             s |-> (t % Minute) \div Second]

\* The time of day sc, in ticks after midnight.
Offset(sc) == sc.h * Hour + sc.m * Minute + sc.s * Second

\* Mutant of Passed: s > sc.s for s >= sc.s.
PassedStrictly(sc, c) ==
    \/ c.h > sc.h
    \/ c.h = sc.h /\ c.m > sc.m
    \/ c.h = sc.h /\ c.m = sc.m /\ c.s > sc.s

\* The clock shows sc or later.
Passed(sc, c) ==
    \/ c.h > sc.h
    \/ c.h = sc.h /\ c.m > sc.m
    \/ c.h = sc.h /\ c.m = sc.m /\ c.s >= sc.s

\* schedule.Next: today's instant, or tomorrow's when it has passed.
ScheduleNext(sc, t) ==
    ((t \div Day) + (IF Passed(sc, Clock(t)) THEN 1 ELSE 0)) * Day + Offset(sc)

\* Integer division and Duration.Truncate of Go round towards zero.
Towards0(a, b) == IF a >= 0 THEN a \div b ELSE -((-a) \div b)
Truncate(a, q) == Towards0(a, q) * q

HalfJitter(jitter) == IF jitter > 0 THEN jitter \div 2 ELSE 0

\* Mutant of Base: the reference time is not advanced.
BaseAtRef(sc, jitter, ref) == ScheduleNext(sc, ref)

\* schedule.Next of the reference time advanced by half the jitter.
Base(sc, jitter, ref) == ScheduleNext(sc, ref + HalfJitter(jitter))

\* Mutant of NextSchedule: the jitter is not centred.
NextScheduleLate(sc, jitter, ref) ==
    LET base == Base(sc, jitter, ref) IN
    IF jitter > 0
    THEN {base + Truncate(rnd, Quantum) : rnd \in 0..jitter - 1}
    ELSE {base}

\* NextSchedule: all the results the random number can give.
NextSchedule(sc, jitter, ref) ==
    LET base == Base(sc, jitter, ref) IN
    IF jitter > 0
    THEN {base + Truncate(rnd - jitter \div 2, Quantum) : rnd \in 0..jitter - 1}
    ELSE {base}

\* Days as the schedule sees them: window k begins half the jitter before the
\* schedule instant of day k and ends where window k + 1 begins.
Window(sc, jitter, t) == (t + HalfJitter(jitter) - Offset(sc)) \div Day
=============================================================================
