SPECIFICATION Spec
CONSTANTS
    Monitors = {"every", "other"}
    Interval <- MCInterval
    Configs <- Assigned
    Slots = 1
    MinutesInCycle = 2
    FetchPeriod = 1
    maxAttempts = 2
    MaxChanges = 1
    MaxFaults = 0
INVARIANT CheckedWhenDue
CHECK_DEADLOCK FALSE
