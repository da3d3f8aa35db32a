CONSTANTS
    j1 = j1
    j2 = j2
    j3 = j3
    w1 = w1
    w2 = w2
    w3 = w3
    w4 = w4
    Nil = Nil
    Jobs <- MCJobs
    Workers <- MCWorkers
    Sizes <- MCSizes
    MaxParallelity = 3
    JobQueueSize = 1
SPECIFICATION QSpec
SYMMETRY Symmetry
INVARIANTS
    QTypeOK
    GroupsExact
    OnePlace
    WorkersExact
    NoRetainedReference
PROPERTY PoolSpec
