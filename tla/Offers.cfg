SPECIFICATION MCSpec
CONSTANTS
  r1 = r1
  r2 = r2
  Relays = {r1, r2}
  OfferIds = {old, a, b}
  Legacy = {old}
  Lists <- MCLists
  Tasks = {t1, t2}
  MaxServers = 2
  TTL = 1
  Blank = blank
  Absent = absent
SYMMETRY Symmetry
INVARIANT TypeOK HandedOutKept AdvertisedAreHeard
PROPERTY PinsAreFinal
CHECK_DEADLOCK FALSE
