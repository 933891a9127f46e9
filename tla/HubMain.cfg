SPECIFICATION Spec
CONSTANTS
    MaxMessages = 3
    MaxRequests = 2
    MaxHeard = 3
INVARIANTS
    TypeOK
    ResourcesOutliveUsers
    OneThreadOperates
    MessagesDelivered
PROPERTIES
    QuitReturns
    AlertsCatchUp
CHECK_DEADLOCK FALSE
