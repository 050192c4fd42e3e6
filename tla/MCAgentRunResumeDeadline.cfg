SPECIFICATION Spec
CONSTANTS
  Run = "run"
  Planner = FALSE
  MaxAttempts = 2
  MaxTries = 1
  MaxVersion = 2
  DeadlineMayPass = TRUE
  Ledgers <- MCLedgers
  Keys <- MCKeys
  Limits <- MCLimits
  Claims <- MCClaims
  Costs <- MCCosts
  Authorities <- MCAuthorities
  LedgerCurrency = "USD"
  MaxMonth = 1
PROPERTY
  ResumeStartsInTime
CHECK_DEADLOCK FALSE
