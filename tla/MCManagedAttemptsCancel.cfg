SPECIFICATION Spec
CONSTANTS
  Attempts = {1}
  r1 = r1
  r2 = r2
  o1 = o1
  o2 = o2
  Runs = {r1}
  Owners = {o1}
  RunOf <- RunPerAttempt
  OwnerOf <- OneOwner
  NULL = NULL
  GlobalConcurrency = 1
  OwnerConcurrency = 1
  RecoveryLimit = 2
  SessionSeconds = 2
  DevelopmentBudget = 10
  OwnerBudget = 10
  LifetimeLimit = 10
  Baseline = 1
  Durations = {1, 3}
  MaxJobs = 0
  MaxFaults = 1
PROPERTIES
  CancellationReported
CHECK_DEADLOCK FALSE
