SPECIFICATION PatternSpec
CONSTANTS
    QueueSize = 3
    MaxCalls = 2
    MaxFaults = 0
    MaxDirect = 0
    MayBeMissing = {}
    LeftFlashing = {}
PROPERTIES
    FrequencyAsAsked
CHECK_DEADLOCK FALSE
