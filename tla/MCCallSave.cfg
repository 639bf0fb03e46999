CONSTANTS
    Vregs = {1, 2, 3, 4, 5}
    ArgRegs <- MCArgRegs
    TmpRegs <- MCTmpRegs
    CalleeSave = {8}
    None = None
    Inputs <- MCInputs
SPECIFICATION Spec
INVARIANTS
    OperandsRight
    NothingLost
    FreeBeforeSaving
    BlockEndsRestored
CHECK_DEADLOCK FALSE
