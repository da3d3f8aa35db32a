CONSTANTS
    j1 = j1
    j2 = j2
    j3 = j3
    w1 = w1
    w2 = w2
    w3 = w3
    w4 = w4
    w5 = w5
    Nil = Nil
    Jobs <- MCJobs
    Workers <- MCWorkers
    Sizes <- MCSizes
    MaxParallelity = 2
    JobQueueSize = 1
    Settings <- Sized
    ArgLists <- MCArgLists
    Known <- MCKnown
SPECIFICATION Spec
INVARIANTS
    TypeOK
    
    
PROPERTY Terminates
