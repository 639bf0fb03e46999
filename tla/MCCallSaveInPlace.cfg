CONSTANTS
    Vregs = {1, 2, 3, 4, 5}
    ArgRegs <- MCArgRegs
    TmpRegs <- MCTmpRegs
    CalleeSave = {8}
    None = None
    Inputs <- MCInPlace
SPECIFICATION Spec
INVARIANTS
    FreeBeforeSaving
CHECK_DEADLOCK FALSE
