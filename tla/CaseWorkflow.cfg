SPECIFICATION Spec
CONSTANTS
  MaxTries = 2
  MaxRuns = 3
  MaxConditions = 2
  MaxInterrupts = 0
  MaxLate = 1
INVARIANTS
  ReadyIsJustified
  EndIsAnnounced
  RecoveryFollowsFailure
CHECK_DEADLOCK FALSE
