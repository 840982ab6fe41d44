SPECIFICATION FairSpec
CONSTANTS
    Monitors = {"every", "other"}
    Interval <- MCInterval
    Configs <- Assigned
    Slots = 1
    MinutesInCycle = 2
    FetchPeriod = 1
    maxAttempts = 2
    MaxChanges = 1
    MaxFaults = 0
PROPERTY AssignmentReachesAll
CHECK_DEADLOCK FALSE
