SPECIFICATION FairSpec
CONSTANTS
    Requests = {q1, q2}
    Monitors = {m1}
    Regions = {r1}
    Settings <- MCSettings
    DayLength = 3
    TTL = 1
    gomaxprocs = 4
    None = None
    FirstTime = 3
    MaxTime = 6
    MaxWrites = 1
    MaxFaults = 1
INVARIANTS
    EachDayOnce
    NothingHidden
    CancelIsPrivate
PROPERTIES
    OneLoad
    RequestsAnswered
CHECK_DEADLOCK FALSE
