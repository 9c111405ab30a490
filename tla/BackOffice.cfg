SPECIFICATION Spec
CONSTANTS
    Notifications = {n1, n2}
    Slots = {q1, q2}
    MaxRequests = 3
    MaxFaults = 1
SYMMETRY Symmetry
INVARIANTS RetriedWasQueued RetriesBounded RecordIsOneCount
CHECK_DEADLOCK FALSE
