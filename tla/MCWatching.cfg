SPECIFICATION WatchingSpec
CONSTANTS
  Attempts = {a1}
  PageLimit = 3
  Nothing = Nothing
  MaxFaults = 1
  Kinds = {"controlled", "website", "managed", "rerun"}
  MaxOwners = 2
  MaxKeys = 2
  MaxSends = 3
  Paid = TRUE
  MaxMishaps = 2
  Pairs = {1, 2}
  Recordings = {"r1", "r2"}
  RequestLimit = 3
  FlightLimit = 1
  CacheLimit = 1
  ManifestLimit = 1
  MaxPages = 1
  MaxWorks = 4
  MaxCalls = 2
  Processes = {"p1", "p2"}
  Releases = {12, 16}
  Configurations = {"c1", "c2"}
  MaxRefreshes = 2
  MaxChecks = 2
  MaxVersion = 3
  MaxRequests = 4
  MaxRevisions = 2
INVARIANTS
  
  RestIsFinal
  WorkerGoesFirst
  OneRunPerLaunch
  
  FlightsCounted
  StoreIsWhole
  HiddenStaysHidden
PROPERTIES
  FixIsFinal
  WallNeverGoesBack
CHECK_DEADLOCK FALSE
