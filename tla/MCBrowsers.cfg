SPECIFICATION BrowsersSpec
CONSTANTS
  Contexts <- OneContext
  Jobs = {j1, j2, j3}
  NULL = NULL
  MaxGeneration = 3
  RecoveryLimit = 1
  MaxWriteFaults = 1
  MaxExtractions = 2
  MaxDocuments = 2
  MaxRecords = 4
  TelemetryLimit = 2
  PageRequests = {p1, p2}
  GatewayRequests = {g1, g2}
  Urls = {u1}
  HandlerLimit = 3
  PermitLimit = 2
  GatewayConcurrency = 1
  Operations = {o1, o2}
  Links <- FewLinks
  ScopeHosts = {"shop"}
  ScopeSecure = TRUE
  PathPrefixes <- AppOnly
  PublicLiterals = {"192.88.0.1"}
  PrivateLiterals = {"10.0.0.1"}
  ControlHosts = {"provider"}
  RequestLimit = 2
  Concurrency = 2
  RedirectLimit = 1
  ByteLimit = 4
  MaxAnswers = 2
  Saves = {"s1", "s2", "s3"}
  CleanupSaves = {"s3"}
  AttemptFiles = 2
  AttemptBytes = 3
INVARIANTS
  BrowserHoldsContext
  SavedBeforeReuse
  SettledIsClean
  CleanCloseIsComplete
  PaidBrowserAccounted
  HitsWhatWasObserved
  TelemetryAccounted
  OnlyPublicConnections
  ArtifactBudgetKept
  EvidenceIsWhole
PROPERTIES
  DeletedIsFinal
  NothingAfterEnd
CHECK_DEADLOCK FALSE
