CONSTANTS
    c1 = c1
    c2 = c2
    d1 = d1
    d2 = d2
    Conns = {c1, c2}
    Displays = {d1, d2}
    MaxWait = 2
    MaxFrames = 2
SPECIFICATION Spec
INVARIANTS
    BacklogIsBounded
PROPERTIES
    NobodyHoldsTheOthersUp
CHECK_DEADLOCK FALSE
