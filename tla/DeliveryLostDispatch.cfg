SPECIFICATION FairSpec
CONSTANTS
  None = None
  Notifications = {n1}
  Workers = {w1, w2}
  Clients = {c1}
  MaxRetries = 2
  Receipts = {"DELIVERED", "FAILED"}
  RetryLimit = 1
  QueueBound = 1
  MaxRequests = 0
  MaxFaults = 0
CHECK_DEADLOCK FALSE
PROPERTY QueuedIsAttempted
