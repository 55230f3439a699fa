SPECIFICATION FairSpec
CONSTANTS
    Recorders = {r1, r2, r3}
    r1 = r1
    r2 = r2
    r3 = r3
    Plans <- MixedPlans
    MaxInputs = 2
    MaxFired = 1
    QueryFails = TRUE
    Shutdown = TRUE
    None = None
INVARIANTS
    TypeOK
    RecordersAreOwned
PROPERTIES
    
    TaskIsDropped
CHECK_DEADLOCK FALSE
