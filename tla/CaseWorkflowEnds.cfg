SPECIFICATION Spec
CONSTANTS
  MaxTries = 2
  MaxRuns = 1
  MaxConditions = 1
  MaxInterrupts = 2
  MaxLate = 2
PROPERTY RunEnds
CHECK_DEADLOCK FALSE
