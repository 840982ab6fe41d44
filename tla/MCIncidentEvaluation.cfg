SPECIFICATION Spec
CONSTANTS
    Regions = {r1, r2, r3}
    Categories = {"none", "timeout", "http_error"}
    StatusCodes = {0, 200, 301}
    ExpectedStatusCodes = {200}
    TicksPerMinute = 2
    PerRegionFailureThresholdPercent = 50
    FailureThresholdPercent = 60
    DegradedThresholdMinutes = 2
    DegradedThresholdConsecutiveBuckets = 3
    MaxTime = 5
    MaxRows = 4
SYMMETRY Symmetry
INVARIANTS
    StatusMatchesReference
    BreakdownExplainsRegions
    OldRowsAreIrrelevant
    MigrationKeepsVerdict
CHECK_DEADLOCK FALSE
