------------------------------ MODULE Metrics ------------------------------
(***************************************************************************)
(* What zackup knows about the backups of one host: the metrics record of  *)
(* app/state.go, the status derived from it (app/metric_status.go), and    *)
(* the user properties of the host's ZFS dataset it is stored in and       *)
(* restored from (app/state.go, app/zprops.go).                            *)
(*                                                                         *)
(* In memory a time is exact; a property holds whole seconds (t.Unix()).   *)
(* Durations and space figures, which no decision depends on, are left     *)
(* out.                                                                    *)
(***************************************************************************)
EXTENDS Ticks

\* The zero time of StartedAt, the nil pointers SucceededAt and FailedAt, and
\* a property that is not set.
Never == -1

Instants == Nat \cup {Never}

MetricsRecord == [startedAt : Instants, succeededAt : Instants, failedAt : Instants]
ZProps        == [lastStart : Instants, sDate : Instants, fDate : Instants]

NoMetrics == [startedAt |-> Never, succeededAt |-> Never, failedAt |-> Never]
NoProps   == [lastStart |-> Never, sDate |-> Never, fDate |-> Never]

\* Mutant of Status: only the first backup of a host is ever "running".
StatusFirstOnly(m) ==
    IF m.startedAt = Never THEN "primed"
    ELSE IF m.succeededAt = Never /\ m.failedAt = Never THEN "running"
    ELSE IF m.succeededAt > m.failedAt THEN "success"
    ELSE "failed"

Status(m) ==
    LET t0   == m.startedAt
        tOK  == m.succeededAt
        tErr == m.failedAt
    IN  IF t0 = Never THEN "primed"
        ELSE IF (tOK = Never \/ t0 > tOK) /\ (tErr = Never \/ t0 > tErr) THEN "running"
        ELSE IF tOK # Never /\ (tErr = Never \/ tOK > tErr) /\ tOK >= t0 THEN "success"
        ELSE IF tErr # Never /\ (tOK = Never \/ tErr > tOK) /\ tErr >= t0 THEN "failed"
        ELSE "unknown"

\* Mutant of Finished: a failure is not recorded.
FinishedIfOK(m, ok, t) == IF ok THEN [m EXCEPT !.succeededAt = t] ELSE m

\* The in-memory halves of State.start, State.success and State.failure.
Started(m, t)      == [m EXCEPT !.startedAt = t]
Finished(m, ok, t) == IF ok THEN [m EXCEPT !.succeededAt = t] ELSE [m EXCEPT !.failedAt = t]

\* t.Unix() and time.Unix(s, 0).
Unix(t)     == IF t = Never THEN Never ELSE t \div Second
FromUnix(s) == IF s = Never THEN Never ELSE s * Second

\* Mutant of StoreResult: the names of the properties are swapped.
StoreResultSwapped(p, ok, t) ==
    IF ok THEN [p EXCEPT !.fDate = Unix(t)] ELSE [p EXCEPT !.sDate = Unix(t)]

\* zfs set, when it succeeds.
StoreStart(p, t)      == [p EXCEPT !.lastStart = Unix(t)]
StoreResult(p, ok, t) == IF ok THEN [p EXCEPT !.sDate = Unix(t)] ELSE [p EXCEPT !.fDate = Unix(t)]

\* loadHost with propDecoder: an absent property ("-") leaves its field alone.
LoadHost(p) == [startedAt   |-> FromUnix(p.lastStart),
                succeededAt |-> FromUnix(p.sDate),
                failedAt    |-> FromUnix(p.fDate)]

\* The value of zackup_last_success, -1 without a success.
LastSuccess(m) == Unix(m.succeededAt)

\* Mutant of TruncateTime: the seconds are rounded up.
RoundUpTime(t) == IF t = Never THEN t ELSE FromUnix(Unix(t + Second - 1))

\* tplFmtTime on the pointers SucceededAt and FailedAt: the index page is made
\* from copies of the record that share them, and truncates the times they
\* point to.  A host that was never started has its row filled with n/a.
TruncateTime(t) == FromUnix(Unix(t))

Rendered(m) ==
    IF m.startedAt = Never THEN m
    ELSE [m EXCEPT !.succeededAt = TruncateTime(m.succeededAt),
                   !.failedAt    = TruncateTime(m.failedAt)]

\* What "zackup status" prints of a host: the times its status is about.
StatusLine(m) ==
    LET s              == Status(m)
        Shown(t, when) == IF s \in {"unknown", when} THEN TruncateTime(t) ELSE Never
    IN  [status    |-> s,
         started   |-> Shown(m.startedAt, "running"),
         succeeded |-> Shown(m.succeededAt, "success"),
         failed    |-> Shown(m.failedAt, "failed")]
=============================================================================
