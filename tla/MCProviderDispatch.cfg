SPECIFICATION MCSpec
CONSTANTS
  a1 = a1
  a2 = a2
  Attempts <- TwoAttempts
  NoAttempt = NoAttempt
  ConsumerReport = TRUE
  MaxConsents = 2
  IntentRows = {"i"}
  FactRows = {"f"}
  Procs = {"p", "q"}
  MaxKey = 2
INVARIANTS
  AtMostOneSubmission
  EvidenceIsAccepted
  
  
PROPERTIES
  TerminalIsFinal
  RevokedNeverDispatches
  ImplementsOnceOnly
  AmbiguityIsDecided
CHECK_DEADLOCK FALSE
