SPECIFICATION Spec
CONSTANTS
    Segments = {s1, s2, s3}
    Hours = {h1, h2}
    InitialHours = {h1}
    ApiTargets = {}
    CleanupTargets = {}
    PeriodicPass = FALSE
    MinSegments = 2
    DBMayFail = FALSE
    SyncMayFail = TRUE
    MaxCrashes = 2
    None = none
SYMMETRY SegmentSymmetry
INVARIANTS
    TornIsJournalled
    FootageKept
CHECK_DEADLOCK FALSE
