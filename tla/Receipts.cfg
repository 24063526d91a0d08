SPECIFICATION Spec
CONSTANTS
  Invoices = {r1, r2, r3}
  Payers = {p1}
  ResendOffsets <- MCResendOffsets
  FailRetryBackoff <- MCBackoff
  FastRetryWindow = 1
  RetryInterval = 1
  RetryMax = 2
  MaxPending = 2
  MaxExpiry = 2
  Expiries = {1, 2}
  DuplicateEvents = FALSE
SYMMETRY Symmetry
INVARIANT TypeOK CapHeld NoOrphanRequest OwedIsPaid
PROPERTY PromiseKept NoHammering
CHECK_DEADLOCK FALSE
