CONSTANTS
    Width = 8
    Programs <- Left
    Inputs = {0, 1, 2}
    Steps = 30
    Fuel = 60
SPECIFICATION Spec
INVARIANTS
    BranchesFallThrough
CHECK_DEADLOCK FALSE
