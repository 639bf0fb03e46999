CONSTANTS
    sp = sp
    p = p
    t = t
    u = u
    Regs = {sp, p, t, u}
    MaxLength = 4
    Blocks <- MCBlocks
SPECIFICATION Spec
INVARIANTS
    NothingChanged
    NoPairLeft
PROPERTIES
    Ends
CHECK_DEADLOCK FALSE
