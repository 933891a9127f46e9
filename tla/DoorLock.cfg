SPECIFICATION Spec
CONSTANTS
    FullCircle = 4
    StepsPerRev = 8
    Movers = {"cmd"}
    Reporting = TRUE
    MaxFaults = 2
INVARIANTS
    TypeOK
    RotationReached
    OneThreadTurns
    RestsOnTarget
    ReplyIsTrue
PROPERTIES
    Answered
CHECK_DEADLOCK FALSE
