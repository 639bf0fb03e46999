CONSTANTS
    N = 3
    x = x
    p = p
    Vregs = {x, p}
    Programs <- MCPrograms
SPECIFICATION Spec
INVARIANTS
    TypeOK
    NeverTooMuch
    StopsAtFixpoint
    ResultIsReachableUse
PROPERTIES
    Terminates
CHECK_DEADLOCK FALSE
