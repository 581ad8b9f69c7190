CONSTANTS
    c1 = c1
    c2 = c2
    Conns = {c1, c2}
    None = None
    MaxRequests = 2
    MaxSwitches = 1
SYMMETRY Symmetry
SPECIFICATION Spec
INVARIANTS
    OwnerIsConnected
    BelievedMeansOn
    CoverGoesWithOwner
    WayBackIsStored
CONSTRAINT NothingLeft
CHECK_DEADLOCK FALSE
