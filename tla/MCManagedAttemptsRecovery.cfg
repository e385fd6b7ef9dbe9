SPECIFICATION FairSpec
CONSTANTS
  Attempts = {1}
  r1 = r1
  r2 = r2
  o1 = o1
  o2 = o2
  Runs = {r1}
  Owners = {o1, o2}
  RunOf <- RunPerAttempt
  OwnerOf <- OneOwner
  NULL = NULL
  GlobalConcurrency = 2
  OwnerConcurrency = 1
  RecoveryLimit = 2
  SessionSeconds = 2
  DevelopmentBudget = 5
  OwnerBudget = 10
  LifetimeLimit = 10
  Baseline = 1
  Durations = {1, 3}
  MaxJobs = 1
  MaxFaults = 1
INVARIANTS
  CompletedIsVerified
  SharedLimits
PROPERTIES
  ImplementsPaidSlot
  AttemptsResolve
CHECK_DEADLOCK FALSE
