SPECIFICATION Spec
CONSTANTS
  Run = "run"
  Planner = TRUE
  MaxAttempts = 3
  MaxTries = 2
  MaxVersion = 2
  DeadlineMayPass = FALSE
  Ledgers <- MCLedgers
  Keys <- MCKeys
  Limits <- MCTightLimits
  Claims <- MCClaims
  Costs <- MCCosts
  Authorities <- MCAuthorities
  LedgerCurrency = "USD"
  MaxMonth = 1
PROPERTIES
  EvaluationEnds
  ImplementsLedger
CHECK_DEADLOCK FALSE
