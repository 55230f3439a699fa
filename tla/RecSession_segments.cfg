SPECIFICATION Spec
CONSTANTS
    QueueSize = 2
    GOPLimit = 2
    Configs = {a, b}
    Faults <- SomeFaults
    MaxMessages = 5
    MaxFlips = 1
    MaxFaults = 1
    None = none
SYMMETRY AnyConfig
INVARIANTS
    TypeOK
    
    FramesMatchTrack
    KeepsFootage
    FootageOnce
    StopDrains
CHECK_DEADLOCK FALSE
