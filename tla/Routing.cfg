SPECIFICATION FairSpec
CONSTANTS
    Requests = {r1, r2}
    Codes <- MCCodes
    Asked <- MCAsked
    Priorities = {3}
    Prefetch <- MCPrefetch
    MaxFaults = 1
    MaxCrashes = 1
INVARIANTS
    AcceptedIsOnKafka
    ExemptIsUrgent
    LostOnlyByFault
    HandedOver
PROPERTY
    QueuesDrain
CHECK_DEADLOCK FALSE
