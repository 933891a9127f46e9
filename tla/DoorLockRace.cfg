SPECIFICATION Spec
CONSTANTS
    FullCircle = 4
    StepsPerRev = 8
    Movers = {"cli", "cmd"}
    Reporting = TRUE
    MaxFaults = 0
INVARIANT
    RotationReached
CHECK_DEADLOCK FALSE
