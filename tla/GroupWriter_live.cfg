SPECIFICATION FairSpec
CONSTANTS
    Attachers = {}
    Detachers = {}
    Switchers = {}
    Closers = {}
    Sessions = {s1, s2, s3}
    Groups = {g1, g2}
    LossyEvents = FALSE
    SerialInput = TRUE
    MaxEvents = 3
    Run = run
    None = none
PROPERTIES
    
    DroppedIsHalted
