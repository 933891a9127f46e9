SPECIFICATION Spec
CONSTANTS
    Reporters = {"beat", "cmd"}
    MaxChanges = 1
    MaxErrors = 1
    MaxQueue = 1
    MaxStartFaults = 1
    MaxFd = 12
INVARIANTS
    TypeOK
    DescriptorsAreOwned
PROPERTIES
    ViewConverges

CHECK_DEADLOCK FALSE
