SPECIFICATION SpecBoth
CONSTANTS
    Segments = {s1, s2, s3}
    Hours = {h1}
    InitialHours = {h1}
    ApiTargets = {}
    CleanupTargets = {}
    PeriodicPass = FALSE
    MinSegments = 2
    DBMayFail = FALSE
    SyncMayFail = TRUE
    MaxCrashes = 2
    None = none
    Cameras = {c1, c2}
    Capacity = 1
    LastHour = 2
    MaxSegments = 2
PROPERTIES ImplementsArchive LatestHourMerged
CHECK_DEADLOCK FALSE
