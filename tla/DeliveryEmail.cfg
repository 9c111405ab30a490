SPECIFICATION Spec
CONSTANTS
  None = None
  Notifications = {n1}
  Workers = {w1, w2}
  Clients = {c1}
  MaxRetries = 2
  Receipts = {"DELIVERED", "FAILED", "OPENED"}
  RetryLimit = 1
  QueueBound = 1
  MaxRequests = 2
  MaxFaults = 1
SYMMETRY Symmetry
CHECK_DEADLOCK FALSE
INVARIANT TypeOK
INVARIANT OneSenderPerRow
INVARIANT AcceptedSendsAccountedFor
INVARIANT VerdictHasProviderId
PROPERTY ImplementsLifecycle
