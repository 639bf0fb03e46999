CONSTANTS
    par = par
    ret = ret
    tmp = tmp
    loc = loc
    Vregs = {par, ret, tmp, loc}
    CallerSave = {1, 2}
    CalleeSave = {3}
    NoColor = NoColor
    Positions = 3
    MaxSegments = 4
    Inputs <- MCInputs
    Traits <- MCTraits
SPECIFICATION AllocSpec
INVARIANTS
    AllocTypeOK
    EdgesAreOverlaps
    OverlapsKeptApart
    CalleeSavedRecorded
    SpillOnlyUnderPressure
PROPERTIES
    Settles
CHECK_DEADLOCK FALSE
