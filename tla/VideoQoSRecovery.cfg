CONSTANTS
    c1 = c1
    Conns = {c1}
    None = None
    Unit = 100
    Samples = {0, 3, 12, 30}
    CustomFps = {0, 1, 5, 200}
    AutoFps = {0, 10}
    ImageQualities = {2, 3, 4, 25600, 1048320}
SPECIFICATION RecoverySpec
INVARIANTS
    FpsIsCurrent
    GoodNetworkMeansAskedQuality
    SlowUserCounts
PROPERTIES
    Recovers
CHECK_DEADLOCK FALSE
