SPECIFICATION ChecksSpec
CONSTANTS
  Offers = {o1, o2, o3}
  Overlong = {o3}
  Removed = {o1}
  Heeded = {1}
  Payers = {1, 2}
  Callers = {c1, c2}
  Timeout = 1
  Settle = 0
  TTL = 4
  Relays = {r1}
  Watchers = {hourly, command}
  Pauses = {1, 2}
  Pause = 2
  Sinks = {s1, s2, s3}
  Radix = 5
  KeyBytes = 3
  PriceBytes = 2
  MaxAmount = 20000
  Requests <- MCRequests
  Codes <- MCCodes
  Lengths <- MCLengths
INVARIANT RecognisedInTime NoAnswerMissed OneRun RemovedForgotten BlipNeverFlagged AcceptanceHeard RangeIsPayable ReadBack
PROPERTY CallsReturn
