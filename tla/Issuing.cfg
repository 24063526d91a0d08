SPECIFICATION Spec
CONSTANTS
  Invoices = {r1, r2, r3}
  Payers = {p1, p2}
  ResendOffsets <- MCOffsets
  FailRetryBackoff <- MCOffsets
  FastRetryWindow = 1
  RetryInterval = 1
  RetryMax = 1
  MaxPending = 2
  MaxExpiry = 2
  Events = {e1, e2}
  Amounts = {1, 2}
  Capacity = 2
  Expiries = {2}
  MaxRequestAge = 0
  MaxClockSkew = 1
  SeenMax = 1
  PayerMax = 1
  SelfTester = st
  Sessions = 2
SYMMETRY Symmetry
INVARIANT TypeOK ReservationsMatch RequestsTracked PayerCapHeld
PROPERTY NoOvercommit MintedOnce
CHECK_DEADLOCK FALSE
