CONSTANTS
    Main = Main
    w1 = w1
    w2 = w2
    w3 = w3
    w4 = w4
    Workers = {w1, w2, w3, w4}
    PerLoop = 2
    Loops = 2
    MaxLocks = 2
    Refusals = 1
SPECIFICATION Spec
INVARIANTS
    TypeOK
    MutualExclusion
PROPERTIES
    Implements
    PassReturnsIfCreated
CHECK_DEADLOCK FALSE
