SPECIFICATION Spec
CONSTANTS
  Run = "run"
  Planner = TRUE
  MaxAttempts = 2
  MaxTries = 2
  MaxVersion = 2
  DeadlineMayPass = TRUE
  Ledgers <- MCLedgers
  Keys <- MCKeys
  Limits <- MCLimits
  Claims <- MCClaims
  Costs <- MCCosts
  Authorities <- MCAuthorities
  LedgerCurrency = "USD"
  MaxMonth = 1
INVARIANTS
  RunIsSafe
CHECK_DEADLOCK FALSE
