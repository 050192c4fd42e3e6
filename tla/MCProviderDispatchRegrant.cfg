SPECIFICATION MCSpec
CONSTANTS
  a1 = a1
  a2 = a2
  Attempts <- TwoAttempts
  NoAttempt = NoAttempt
  ConsumerReport = FALSE
  MaxConsents = 2
  IntentRows = {"i"}
  FactRows = {"f"}
  Procs = {"p", "q"}
  MaxKey = 2
PROPERTY RevocationInvalidatesGrants
CHECK_DEADLOCK FALSE
