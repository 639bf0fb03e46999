CONSTANTS
    Width = 8
    Programs <- MCPrograms
    Inputs = {0, 1, 2}
    Steps = 30
    Fuel = 60
SPECIFICATION Spec
INVARIANTS
    GraphsMatchCode
    StaticSingleAssignment
    DominatorTreeRight
    NoAssertionFails
    SameOutcome
CHECK_DEADLOCK FALSE
