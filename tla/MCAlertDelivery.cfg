SPECIFICATION FairSpec
CONSTANTS
    Monitors = {"web", "db"}
    Targets <- MCTargets
    Ntfy = "ntfy"
    Configurations <- SomeNames
    NoName = ""
    SuppressWindow = 1
    DigestEnabled = TRUE
    Nackable = TRUE
    DurableQueue = TRUE
    MaxTime = 1
    MaxAlerts <- SomeAlerts
    MaxFaults = 1
INVARIANTS
    NoRepeatByRetry
    RecoveriesAreEarned
    HandledOrOwed
PROPERTIES
    AlertsDrain
    DigestFlushed
CHECK_DEADLOCK FALSE
