SPECIFICATION Spec
CONSTANTS
  r1 = r1
  r2 = r2
  Relays = {r1, r2}
  OfferIds = {old, a, b}
  Legacy = {old}
  Lists <- MCLists
  Tasks = {t1, t2}
  MaxServers = 2
  TTL = 1
  Blank = blank
  Absent = absent
SYMMETRY Symmetry
INVARIANT PickFollowsSetting
CHECK_DEADLOCK FALSE
