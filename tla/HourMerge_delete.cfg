SPECIFICATION Spec
CONSTANTS
    Segments = {s1, s2}
    Hours = {h1, h2}
    InitialHours = {h1}
    ApiTargets = {s1, s2, h1, h2}
    CleanupTargets = {s1, s2, h1, h2}
    PeriodicPass = TRUE
    MinSegments = 2
    DBMayFail = TRUE
    SyncMayFail = FALSE
    MaxCrashes = 0
    None = none
SYMMETRY SegmentSymmetry
INVARIANTS
    TypeOK
    
    FootageListedOnce
CONSTRAINT NoVictimGrows
CHECK_DEADLOCK FALSE
