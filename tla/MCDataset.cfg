SPECIFICATION FairSpec
CONSTANTS
    Monitors = {m1}
    RemovedMonitors = {gone}
    Regions = {"r1", "r2"}
    TimesOfDay = {1, 2}
    RetentionDays = 2
    CleanupBatchSize = 1
    Nackable = TRUE
    DurableQueue = TRUE
    Submissions <- MCSubmissions
    MaxDay = 3
    MaxSubmissions = 2
    MaxFaults = 1
INVARIANTS
    TypeOK
    AggregatesFresh
    SubmissionsKept
PROPERTIES
    RetentionEnforced
    AggregationCatchesUp
CHECK_DEADLOCK FALSE
