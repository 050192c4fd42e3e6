SPECIFICATION MCSpec
CONSTANTS
  c1 = c1
  c2 = c2
  p1 = p1
  p2 = p2
  operator = operator
  RowTenants = {"t1", "t2"}
  Connections = {"c"}
  Environments = {"development", "production"}
  Passes = {c1, c2}
  Endpoints = {"ep"}
  Limits = {1}
  MaxAttempts = 2
  EventBatch = 1
  DeliveryBatch = 1
  MaxBackoff = 1
  WindowLength = 1
  MaxEvents = 1
  MaxTime = 1
  MaxEdits = 1
  MaxAborts = 1
  Template <- Letters
  ReadyTemplate = "ready"
  Drafts <- BrokenDrafts
  ReadyDraft <- FittingDraft
  MessageCalls = {c1, c2}
  MaxMessages = 2
  MaxMessageCalls = 4
  Subjects = {"ada"}
  OperatorTenant = operator
  Callbacks = {c1, c2}
  Tabs = {p1, p2}
  SignupEnabled = TRUE
  SessionCap = 3
  AccessLife = 2
  RefreshLives = {0, 4}
  RefreshSkew = 0
  TouchInterval = 2
  MaxClock = 3
  MaxSessions = 1
  MaxTokens = 4
  Scripts = {"x1", "x2"}
  MaxSecrets = 4
  Admins = {p1, p2}
  Tuples = {"asset"}
  DrillTuple = "drill"
  Calls = {c1, c2}
  CertInputs = {"PASSED", "FAILED"}
  ApprovalInputs = {"APPROVED"}
  MaxManifests = 2
  MaxCerts = 1
  MaxApprovals = 2
  MaxDrills = 3
  Tenants = {"t1", "t2"}
  CaseKeys = {"k"}
  ApiCalls = {1, 2}
  MaxCaseRows = 2
  MaxConsents = 2
  OldCases <- OneOldCase
SYMMETRY Symmetry
INVARIANTS
  DeliveriesAreHonest
  MessagesAreApproved
  SignInIsSound
  PromotionIsGoverned
  IsolationHolds
  CasesAreSound

  
  
CHECK_DEADLOCK FALSE
