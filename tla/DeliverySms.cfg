SPECIFICATION FairSpec
CONSTANTS
  None = None
  Notifications = {n1}
  Workers = {w1, w2}
  Clients = {c1}
  MaxRetries = 2
  Receipts = {"DELIVERED", "FAILED"}
  RetryLimit = 1
  QueueBound = 1
  MaxRequests = 1
  MaxFaults = 1
CHECK_DEADLOCK FALSE
INVARIANT RetryingIsRecoverable
PROPERTY RetryingLeaves
PROPERTY RetriesDieOut
PROPERTY VisibleTaskSettles
