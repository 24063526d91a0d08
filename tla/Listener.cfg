SPECIFICATION ListenerFairSpec
CONSTANTS
  RelayUrls = {r1, r2}
  PingOn = TRUE
INVARIANT ListenerTypeOK
PROPERTY ListenerRecovers Ends StreamKept
CHECK_DEADLOCK FALSE
