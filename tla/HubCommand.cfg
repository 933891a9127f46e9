SPECIFICATION Spec
CONSTANTS
    Callers = {http}
    Actions = {LOCK, UNLOCK}
    Status = STATUS
    Told = STATUS_TOLD
    None = none
    Retries = 2
    MaxId = 2
    MaxNodeId = 1
    MaxRestarts = 1
INVARIANTS
    TypeOK
    AckMeansExecuted
PROPERTIES
    CallsReturn
