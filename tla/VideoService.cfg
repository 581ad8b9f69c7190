CONSTANTS
    c1 = c1
    c2 = c2
    Conns = {c1, c2}
    NeedSnapshot = TRUE
    MaxRequests = 3
SPECIFICATION VideoSpec
INVARIANTS
    RemovedStaysOut
    TableMatchesRequests
    StartsWithKeyFrame
PROPERTIES
    RefreshGivesKeyFrame
    UsesTheTable
CHECK_DEADLOCK FALSE
