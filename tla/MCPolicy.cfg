SPECIFICATION MCSpec
CONSTANTS
  x1 = x1
  x2 = x2
  y1 = y1
  y2 = y2
  z1 = z1
  z2 = z2
  Jurisdiction <- MCJurisdiction
  Source <- MCSource
  Version <- MCVersion
  Applicability <- MCApplicability
  Case <- MCCase
  Operators <- MCOperators
  People <- MCPeople
  Evaluators <- MCEvaluators
  Interval = 3
  Seeded = {"v1"}
  MaxTime = 2
  MaxRevisions = 1
  MaxAsked = 1
  MaxCalls = 4
  MaxEvaluations = 2
  MaxCrashes = 1
  Seeds = {0, 125, 170, 340, 510, 900}
  LoanSizes = {10000, 600000}
  Ledgers <- MCPeople
  Keys <- MCEvaluators
  Limits <- MCLimits
  Claims <- MCClaims
  Costs = {0, 2}
  Authorities <- MCAuthorities
  LedgerCurrency = "USD"
  MaxMonth = 2
SYMMETRY Symmetry
INVARIANTS
  CatalogIsSound
  RulesMeanWhatTheySay
  LoansAreDecidedOnce
  NeverOverspend
  BooksBalance
PROPERTIES
  AnswerOfItsTime
  SettledIsFinal
  MonthGrowsWithinAuthority
CHECK_DEADLOCK FALSE
