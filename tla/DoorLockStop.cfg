SPECIFICATION Spec
CONSTANTS
    FullCircle = 4
    StepsPerRev = 8
    Movers = {"cmd"}
    Reporting = TRUE
    MaxFaults = 0
PROPERTY
    StopReturns
CHECK_DEADLOCK FALSE
