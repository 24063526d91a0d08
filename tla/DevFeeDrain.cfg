SPECIFICATION Spec
CONSTANTS
  Invoices = {r1, r2}
  Fees = {5}
  Sat = 2
  MinPayout = 1
  DailyCap = 2
  Day = 2
  PendingMax = 2
  Tasks = {t1, t2}
  Generations = 2
  MaxPaidOut = 3
SYMMETRY Symmetry
INVARIANT DailyCapAlwaysHeld
CHECK_DEADLOCK FALSE
