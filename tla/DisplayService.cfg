CONSTANTS
    c1 = c1
    c2 = c2
    d1 = d1
    d2 = d2
    Conns = {c1, c2}
    NeedSnapshot = TRUE
    Displays = {d1, d2}
    NoDisplays = NoDisplays
    MaxChanges = 2
SPECIFICATION DisplaySpec
INVARIANTS
    SyncedMeansKnown
PROPERTIES
    NewcomerIsResynced
    LayoutReachesSubscribers
CHECK_DEADLOCK FALSE
