SPECIFICATION Spec
CONSTANTS
    d1 = d1
    d2 = d2
    d3 = d3
    long = long
    Ids <- MCIds
    Stored <- MCStored
    Addrs = {x, y}
    None = none
    MaxDoors = 2
    MaxModules = 2
    MaxHistory = 2
    Timeout = 1
    MaxTime = 2
    MaxLines = 4
INVARIANTS
    TypeOK
    AddressesAgree
    NoTwins
    HistoryMatchesFlags
PROPERTIES
    SlotsKeepTheirModule
    SilenceShows
    ShutdownReturns
    HistoryIsRecent
CHECK_DEADLOCK FALSE
