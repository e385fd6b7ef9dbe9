SPECIFICATION FairSpec
CONSTANTS
  Tabs = {c1}
  NULL = NULL
  HumanTimeout = 2
  ViewerGrant = 1
  LeaseTime = 2
  BackOff = 2
  MaxRequests = 1
  MaxReclaims = 1
INVARIANTS
  TimeoutsAreLimits
