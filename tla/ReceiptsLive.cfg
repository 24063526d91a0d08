SPECIFICATION FairSpec
CONSTANTS
  Invoices = {r1}
  Payers = {p1}
  ResendOffsets <- MCLongOffsets
  FailRetryBackoff <- MCLongBackoff
  FastRetryWindow = 2
  RetryInterval = 2
  RetryMax = 2
  MaxPending = 2
  MaxExpiry = 1
  Expiries = {1}
  DuplicateEvents = TRUE
PROPERTY OwedIsSettled UnpaidIsCollected
CHECK_DEADLOCK FALSE
