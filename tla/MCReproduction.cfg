SPECIFICATION FairSpec
CONSTANTS
  Pumps = {p1, p2}
  Recipe <- Three
  SessionsOf <- MayReuse
  CandidateLimit = 5
  StepLimit = 14
  SetupSteps = 1
  NULL = NULL
  MaxFaults = 1
INVARIANTS
  FoundIsMinimal
  OneChildPerCandidate
PROPERTIES
  BestIsProven
  SearchesEnd
CHECK_DEADLOCK FALSE
