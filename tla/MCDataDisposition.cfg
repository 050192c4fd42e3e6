SPECIFICATION Spec
CONSTANTS
  a1 = a1
  a2 = a2
  w1 = w1
  r1 = r1
  h1 = h1
  NoAttempt = NoAttempt
  ConsumerReport = FALSE
  Attempts <- TwoAttempts
  Reviewers <- OneReviewer
  Requests <- OneRequest
  Holds <- OneHold
  MaxConsents = 2
  MaxTasks = 1
SYMMETRY AttemptSymmetry
INVARIANT ErasedIntentStaysEmpty
PROPERTY ImplementsOnceOnly
CHECK_DEADLOCK FALSE
