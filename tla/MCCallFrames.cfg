CONSTANTS
    StackParams = {0, 2}
    Locals <- MCLocals
    CalleeSave = {18, 19}
    MaxSlots = 5
    MaxDepth = 2
    MaxSaves = 2
    MaxCalls = 2
SPECIFICATION Spec
INVARIANTS
    TypeOK
    LayoutSound
    SpillCodeFindsSlots
    FramesIntact
    ReturnsRestored
CHECK_DEADLOCK FALSE
