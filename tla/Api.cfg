SPECIFICATION ApiSpec
CONSTANTS
    Length <- MCLength
    Limit <- MCLimit
    MaxFaults = 1
    failure_threshold = 3
    success_threshold = 2
    timeout_seconds = 4
    window_seconds = 4
    MaxInFlight = 4
    Keys <- MCKeys
    Defaults <- MCDefaults
    Replicas = {r1, r2}
    Importable = TRUE
    Admins = {a1, a2}
    MaxRequests = 3
    MaxCrashes = 1
INVARIANTS
    TypeOK
    LimitsHoldInEveryWindow
    RetryAfterSuffices
    ClosedMeansFewFailures
    ReadyMeansResolvable
PROPERTIES
    OpensForCause
    Recovers
    SeedingSettles
CHECK_DEADLOCK FALSE
