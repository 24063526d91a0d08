SPECIFICATION MCSpec
CONSTANTS
  f1 = f1
  f2 = f2
  a1 = a1
  a2 = a2
  b1 = b1
  Files = {f1, f2}
  Wallets = {a1, a2, b1}
  FileOf <- MCFileOf
  Nobody = Nobody
  DefaultOn = FALSE
  Generations = 3
INVARIANT TypeOK NoStrays FollowsSetting
PROPERTY Reaped
CHECK_DEADLOCK FALSE
