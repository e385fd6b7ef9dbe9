SPECIFICATION AttendedSpec
CONSTANTS
  Tabs = {c1, c2}
  NULL = NULL
  HumanTimeout = 3
  ViewerGrant = 2
  LeaseTime = 3
  BackOff = 2
  MaxRequests = 2
  MaxReclaims = 1
  Criteria = {visit, claim}
  Milestones = {visit}
  Semantic = {claim}
  MaxSteps = 2
  MaxModelCalls = 3
  Patience = 2
  StallThreshold = 1
  MaxTakeovers = 1
INVARIANTS
  Exclusive
  FreshDecisions
  SuccessIsVerified
PROPERTIES
  AttendedControlReturns
  AttendedLoopEnds
CHECK_DEADLOCK FALSE
