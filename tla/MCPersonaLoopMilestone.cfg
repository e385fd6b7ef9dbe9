SPECIFICATION LoopSpec
CONSTANTS
  Criteria = {visit, claim}
  Milestones = {visit}
  Semantic = {claim}
  MaxSteps = 2
  MaxModelCalls = 4
  Patience = 2
  StallThreshold = 1
  MaxTakeovers = 1
INVARIANTS
  ContradictionsInvalidate
CHECK_DEADLOCK FALSE
