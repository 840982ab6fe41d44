SPECIFICATION FairSpec
CONSTANTS
    Regions = {"r1", "r2"}
    Categories = {"none", "timeout"}
    StatusCodes = {0, 200}
    ExpectedStatusCodes = {200}
    TicksPerMinute = 1
    PerRegionFailureThresholdPercent = 50
    FailureThresholdPercent = 50
    DegradedThresholdMinutes = 1
    DegradedThresholdConsecutiveBuckets = 1
    Monitors = {"web"}
    HTTPMonitors = {"web", "gone"}
    RegisteredCheckers <- Checkers
    Content <- Requests
    Settings <- SomeSettings
    None = None
    MaxFaults = 1
    MaxSignals = 1
CHECK_DEADLOCK FALSE
INVARIANTS
    AcceptedIsKept
    VerdictCatchesUp
    ExitIsComplete
PROPERTIES
    GracefulShutdownEnds
    AcceptedIsStored
