SPECIFICATION Spec
CONSTANTS
    Attachers = {sched}
    Detachers = {sched}
    Switchers = {sched}
    Closers = {sched}
    Sessions = {s1, s2, s3}
    Groups = {g1, g2}
    LossyEvents = TRUE
    SerialInput = FALSE
    MaxEvents = 1
    Run = run
    None = none
SYMMETRY Identities
VIEW LiveState
INVARIANTS
    TypeOK
    MapEntryRuns
    NoLeakedLoop
    SubscriberIsLive
    SwitchFollows
PROPERTY ImplementsSlot
