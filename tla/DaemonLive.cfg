CONSTANTS
    h1 = h1
    h2 = h2
    w1 = w1
    w2 = w2
    Nil = Nil
    Second = 2
    SecondsPerMinute = 2
    MinutesPerHour = 1
    HoursPerDay = 2
    Quantum = 1
    DailyAt <- MCDailyAt
    Jitter = 2
    Hosts = {h1, h2}
    Workers = {w1}
    JobQueueSize = 1
    MaxTime = 5
    Events = {"crash", "index"}
SPECIFICATION Spec
 
PROPERTIES
    StopReturns
    
