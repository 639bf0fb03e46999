CONSTANTS
    Width = 8
    Programs <- Wrong
    Inputs = {0, 1, 2}
    Steps = 30
    Fuel = 60
SPECIFICATION Spec
INVARIANTS
    SameOutcome
CHECK_DEADLOCK FALSE
