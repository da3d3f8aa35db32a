CONSTANTS
    MaxIncluded = 3
    MaxArguments = 2
SPECIFICATION Spec
INVARIANTS
    FilterNeverWidens
    FilterExact
    ArgVectorRead
CHECK_DEADLOCK FALSE
