SPECIFICATION Spec
CONSTANTS
    Regions = {r1, r2}
    Categories = {"none", "http_error"}
    StatusCodes = {200, 301}
    ExpectedStatusCodes = {200}
    TicksPerMinute = 1
    PerRegionFailureThresholdPercent = 40
    FailureThresholdPercent = 60
    DegradedThresholdMinutes = 0
    DegradedThresholdConsecutiveBuckets = 1
    Monitors = {m1}
    HTTPMonitors = {m1}
    UnknownMonitors = {gone}
    NoMonitor = NoMonitor
    Outcomes <- MCOutcomes
    ProcessingLookbackMinutes = 1
    Nackable = TRUE
    DurableQueue = TRUE
    OperatorImpacts = {"major_outage"}
    MaxTime = 1
    MaxRows = 3
    MaxSubmissions = 4
    MaxFaults = 1
    MaxEdits = 1
INVARIANT OverrideKept
CHECK_DEADLOCK FALSE
