SPECIFICATION FairSpec
CONSTANTS
  Workers = {"r1", "r2"}
  Receivers = {"i1", "i2"}
  MaxOps <- MCMaxOps
  NotificationChCap = 1
  RateLimitedEventChCap = 2
INVARIANT LogFollowsProgramOrder
PROPERTIES HandlersReturn LogPassesSanityCheck
CHECK_DEADLOCK FALSE
