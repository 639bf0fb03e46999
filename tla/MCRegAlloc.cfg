CONSTANTS
    MaxVregs = 14
    Vregs <- MCVregs
    CallerSave = {1, 2}
    CalleeSave = {3}
    NoColor = NoColor
    Programs <- MCPrograms
SPECIFICATION Spec
INVARIANTS
    TypeOK
    OkMeansAllColored
    KeptApart
    SavedAcrossCalls
    SpillCodeIsTransparent
PROPERTIES
    Terminates
CHECK_DEADLOCK FALSE
