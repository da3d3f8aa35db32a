CONSTANTS
    Second = 2
    SecondsPerMinute = 2
    MinutesPerHour = 2
    HoursPerDay = 3
    Quantum = 2
    Jitters <- MCJitters
    MaxTime = 50
SPECIFICATION Spec
INVARIANTS
    NextIsLeast
    JitterWindow
    NextWindow
