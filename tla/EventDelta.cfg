SPECIFICATION Spec
CONSTANTS
  RandomValues = {"time1", "time2"}
INVARIANTS DiffIsExact SidesAgree
CHECK_DEADLOCK FALSE
