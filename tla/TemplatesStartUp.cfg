SPECIFICATION FairSpec
CONSTANTS
    Keys <- MCKeys
    Defaults <- MCDefaults
    Replicas = {r1, r2}
    Importable = FALSE
    Admins = {a1, a2}
    MaxRequests = 3
    MaxCrashes = 1
PROPERTY
    StartsUp
CHECK_DEADLOCK FALSE
