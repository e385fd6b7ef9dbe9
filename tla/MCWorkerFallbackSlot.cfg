SPECIFICATION FallbackSpec
CONSTANTS
  Jobs = {1}
  r1 = r1
  o1 = o1
  Runs = {r1}
  Owners = {o1}
  RunOf <- OneRun
  OwnerOf <- OneOwner
  Unsupported = {}
  Workers = {w1, w2}
  Operator = operator
  NULL = NULL
  GlobalConcurrency = 1
  OwnerConcurrency = 1
  RecoveryLimit = 2
  SessionSeconds = 2
  DevelopmentBudget = 4
  OwnerBudget = 10
  LifetimeLimit = 10
  Baseline = 1
  Durations = {1, 3}
  Outcomes = {"succeeded"}
  MaxFaults = 1
  MaxOperatorClaims = 1
  MaxWriteFailures = 1
INVARIANTS
  BrowserHoldsSlot
CHECK_DEADLOCK FALSE
