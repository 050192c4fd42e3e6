SPECIFICATION Spec
CONSTANTS
  Run = "run"
  Planner = FALSE
  MaxAttempts = 2
  MaxTries = 2
  MaxVersion = 2
  DeadlineMayPass = FALSE
  Ledgers <- MCLedgers
  Keys <- MCKeys
  Limits <- MCLimits
  Claims <- MCClaims
  Costs <- MCCosts
  Authorities <- MCAuthorities
  LedgerCurrency = "USD"
  MaxMonth = 1
INVARIANT
  OneConditionPerEvaluation
CHECK_DEADLOCK FALSE
