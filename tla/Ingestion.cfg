SPECIFICATION FairSpec
CONSTANTS
    Consumers = {c1, c2}
    Channels = {email, sms}
    Keys = {k}
    NoKey = NoKey
    None = None
    LogLength = 3
    KeyOf <- MCKeyOf
    Invalid = {1}
    MaxMoves = 1
    MaxFaults = 1
INVARIANTS TypeOK EventsAccountedFor OneTaskPerKey QueuedRowHasTask
PROPERTY EventuallyHandled
CHECK_DEADLOCK FALSE
