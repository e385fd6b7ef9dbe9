SPECIFICATION Spec
CONSTANTS
  Jobs = {1, 2, 3, 4}
  r1 = r1
  r2 = r2
  o1 = o1
  o2 = o2
  Runs = {r1, r2}
  Owners = {o1, o2}
  RunOf <- AlternatingRuns
  OwnerOf <- OwnerPerRun
  Unsupported = {1}
  Workers = {w1}
  Operator = operator
  NULL = NULL
  GlobalConcurrency = 2
  OwnerConcurrency = 1
  RecoveryLimit = 1
  SessionSeconds = 2
  DevelopmentBudget = 5
  OwnerBudget = 10
  LifetimeLimit = 10
  Baseline = 1
  Durations = {1}
  Outcomes = {"succeeded"}
  MaxFaults = 1
  MaxOperatorClaims = 0
INVARIANTS
  BrowsersBounded
  RecoveredAttemptsFail
CHECK_DEADLOCK FALSE
