------------------------------ MODULE Graylog ------------------------------
(***************************************************************************)
(* The logging middleware (graylog/graylog.go): a hook of logrus with a    *)
(* level and an endpoint of its own.  The hook it installs is asynchronous:*)
(* an entry is sent by a goroutine, some time after it was fired.  logrus  *)
(* and the GELF hook are external.                                         *)
(***************************************************************************)
EXTENDS Integers

VARIABLES
    level,       \* gl.level
    hook,        \* gl.hook's endpoint, "none" when it is nil
    std,         \* the level of the logrus standard logger
    pending      \* entries fired to the hook and not sent yet

glVars == <<level, hook, std, pending>>

Panic == 0
Fatal == 1
Info  == 4
Debug == 5

Names == {"panic", "fatal", "info", "debug", "trace"}

\* logrus.ParseLevel; "" and anything else it does not know is an error.
ParseLevel(s) ==
    CASE s = "panic" -> Panic [] s = "fatal" -> Fatal [] s = "info" -> Info
      [] s = "debug" -> Debug [] s = "trace" -> 6

\* NewMiddleware: level is the zero value.
GlInit == level = Panic /\ hook = "none" /\ std = Info /\ pending = 0

\* Mutant of SetLevel: the logger itself keeps its level.
SetLevelHookOnly(s) ==
    IF s \in Names /\ ParseLevel(s) # level
    THEN level' = ParseLevel(s) /\ std' = std
    ELSE UNCHANGED <<level, std>>

SetLevel(s) ==
    IF s \in Names /\ ParseLevel(s) # level
    THEN level' = ParseLevel(s) /\ std' = ParseLevel(s)
    ELSE UNCHANGED <<level, std>>

\* gl.endpoint is never assigned, so only "" counts as no change; an old hook
\* is flushed.
SetEndpoint(s) ==
    /\ s # "" /\ hook # "none" => pending = 0
    /\ hook' = IF s = "" THEN hook ELSE s

\* logrus fires for the entries its own level admits, Fire passes on those of
\* gl.level.
Fires(entry, toHook, upTo, stdUpTo) == toHook # "none" /\ entry <= upTo /\ entry <= stdUpTo

\* One entry is logged, with the hook and the levels that this step leaves.
Log(entry) == pending' = pending + (IF Fires(entry, hook', level', std') THEN 1 ELSE 0)

\* The goroutine of the hook.
Deliver ==
    /\ pending > 0
    /\ pending' = pending - 1
    /\ UNCHANGED <<level, hook, std>>

\* Flush returns once everything is sent.
Flushed == pending = 0
=============================================================================
