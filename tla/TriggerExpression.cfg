SPECIFICATION Spec
CONSTANTS
  Triggers <- FourTriggers
  MaxEvents = 5
INVARIANTS MeaningPreserved ProgressIsExact
CHECK_DEADLOCK FALSE
