SPECIFICATION PatternSpec
CONSTANTS
    QueueSize = 3
    MaxCalls = 4
    MaxFaults = 1
    MaxDirect = 1
    MayBeMissing = {"green"}
    LeftFlashing = {}
INVARIANTS
    TypeOK
    NoLostWakeup
    ShutdownDrains
    ShowsTheOutcome
PROPERTIES
    ShutdownReturns
    DropsOnlyTheOldest
CHECK_DEADLOCK FALSE
