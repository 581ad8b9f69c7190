CONSTANTS
    r1 = r1
    r2 = r2
    f1 = f1
    hd = hd
    MaxBacklog = 2
    s1 = s1
    Remote = {r1, r2}
    Other = {f1}
    Screens = {s1}
    Original = Original
    Resolutions = {hd}
SYMMETRY ConnSymmetry
CONSTRAINTS SmallBacklog DisplaysOnLinux
SPECIFICATION Spec
INVARIANTS
    WallpaperRestored
    WakeLockIsRight
    OriginalIsOnRecord
CHECK_DEADLOCK FALSE
