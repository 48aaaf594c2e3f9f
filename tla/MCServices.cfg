SPECIFICATION Spec
CONSTANTS
  SbFiles = {"", "a", "b"}
  MAX_ANALYSES = 2
  SbMaxId = 4
  SbPolls = {0, 1, 12, 60}
  ZgPeers = {"p", "q"}
  ZgMaxPorts = 2
  ZgMaxStarts = 2
  ZgMaxProbes = 2
  Workers = {w1, w2}
  Clients = {c1, c2}
  MaxTasks = 3
  DsFiles = {"f", "g"}
  DsInfected = {"f"}
  DsWorkers = 2
  DsMaxFiles = 2
  DsMaxScans = 2
  IpMaxConn = 2
  IpMaxMsg = 2
  IpBuffer = 1
  WhMaxEvents = 4
  WhMaxStarts = 3
  MAX_PAYLOADS = 2
  PayloadsDropped = 1
  SmMaxStarts = 2
  PsDefault <- MCPsDefault
  PsPolicies <- MCPsPolicies
  PsForeign <- MCPsForeign
  MAX_FINDING_WINDOW_MINUTES = 1440
  AtContents <- MCAtContents
  AtMaxWrites = 3
  AtMaxInspections = 2
INVARIANTS
  WhNothingLost
  PipeFaithful
  ServiceStateTrue
  PolicySurvives
  InspectionsTrue
  HoneyPortsClosed
  PoolSafe
PROPERTIES
  WaitIdleReturns
  QueueServed
  IpBroadcastReturns
  WhStopReturns
  ScansHonest
  ScanCallsReturn
CHECK_DEADLOCK FALSE
