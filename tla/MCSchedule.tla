----------------------------- MODULE MCSchedule -----------------------------
(* Schedule on a day of 3 hours of 2 minutes of 2 seconds of 2 ticks: every *)
(* time of day the config accepts, every reference time of more than two   *)
(* days, and jitters that are negative, absent, smaller, and larger than a *)
(* day.                                                                    *)
EXTENDS Schedule

CONSTANTS
    Jitters,   \* the values of daemon.jitter
    MaxTime    \* bound on the reference time

ASSUME JittersAssumption == Jitters \subseteq Int /\ MaxTime \in Nat \ {0}

MCJitters == {-3, 0, 1, 2, 5, 8, 30}

VARIABLES
    sc,       \* daemon.schedule
    jitter,   \* daemon.jitter
    ref       \* the argument of NextSchedule

Init == sc \in Schedules /\ jitter \in Jitters /\ ref = 0
Tick == ref' = (ref + 1) % MaxTime /\ UNCHANGED <<sc, jitter>>
Spec == Init /\ [][Tick]_<<sc, jitter, ref>>

\* The comment of schedule.Next, "returns the next schedule time > t": the
\* least instant after t at which the clock shows the scheduled time.  The
\* reference definition searches; the code compares hours, minutes and
\* seconds one after the other.
NextIsLeast ==
    LET after == {d \in ref + 1 .. ref + Day : d % Day = Offset(sc)}
    IN  after = {ScheduleNext(sc, ref)}

\* README: "The actual backup will start in the time range schedule +-
\* jitter/2".  Whatever number is drawn, the result is in the future and no
\* further than half the jitter from an instant of the schedule.
JitterWindow ==
    \A n \in NextSchedule(sc, jitter, ref) :
        /\ n > ref
        /\ \E d \in n - HalfJitter(jitter) .. n + HalfJitter(jitter) :
              d % Day = Offset(sc)

\* A result always lies in a later window than its reference time: a job that
\* is rescheduled whenever it is enqueued is enqueued at most once a day,
\* whatever the jitter.  And it lies in the window right after it: no day is
\* left out by rescheduling.
NextWindow ==
    \A n \in NextSchedule(sc, jitter, ref) :
        LET k == Window(sc, jitter, ref) IN
        /\ Window(sc, jitter, n) > k
        /\ Base(sc, jitter, ref) = (k + 1) * Day + Offset(sc)
=============================================================================
