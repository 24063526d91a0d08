SPECIFICATION Spec
CONSTANTS
  Invoices = {r1}
  Payers = {p1}
  ResendOffsets <- MCResendOffsets
  FailRetryBackoff <- MCBackoff
  FastRetryWindow = 3
  RetryInterval = 2
  RetryMax = 4
  MaxPending = 1
  MaxExpiry = 1
  Expiries = {1}
  DuplicateEvents = FALSE
INVARIANT OfflineIsCovered
CHECK_DEADLOCK FALSE
