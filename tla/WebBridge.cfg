SPECIFICATION Spec
CONSTANTS
    Modules = {"D1"}
    MaxPending = 2
    MaxId = 2
    MaxOthers = 1
    MaxRegistered = 3
INVARIANTS
    TypeOK
    AnsweredOnce
    FeedbackMeansExecuted
PROPERTIES
    RequestsSettle
    EvictsOnlyTheOldest
CHECK_DEADLOCK FALSE
