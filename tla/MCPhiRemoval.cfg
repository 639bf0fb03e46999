CONSTANTS
    MaxWalk = 6
    Functions <- MCNoLeak
SPECIFICATION Spec
INVARIANTS
    SameExecutions
    CachesAreLocal
CHECK_DEADLOCK FALSE
