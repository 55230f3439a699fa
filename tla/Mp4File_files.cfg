SPECIFICATION Spec
CONSTANTS
    Limit = 11
    Configs = {a}
    Sounds <- SomeSounds
    Shapes <- SomeShapes
    SoundShape <- OneShape
    MaxFrames = 6
    MaxPending = 2
    MaxTorn = 1
    MaxCrashes = 1
    None = None
INVARIANTS
    TypeOK
    ReadsBack
    BaseIntact
    SegmentsSeek
PROPERTY AppendsGoOn
CHECK_DEADLOCK FALSE
