SPECIFICATION Spec
CONSTANTS
    Pages = {p1, p2}
    MaxPolls = 2
    MaxClicks = 1
    MaxMoves = 1
    MaxErrors = 1
    MaxAnswers = 2
INVARIANTS
    TypeOK
    EnabledMeansReported
PROPERTIES
    CacheConverges
