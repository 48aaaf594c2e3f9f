SPECIFICATION Spec
CONSTANTS
  ArhsFiles = {"f"}
  ArhsContents = {"a", "x"}
  Encrypted = {"x"}
  MAX_SNAPSHOTS = 2
  RAPID_CHANGE_THRESH = 2
  RAPID_CHANGE_WINDOW = 0
  ArhsMaxTime = 1
  ArhsMaxChanges = 2
  FimFiles = {"h"}
  FimContents = {"a", "b"}
  FimMaxTime = 2
  FimPolls = 2
  RsPids = {1, 2}
  RsHoneyPaths = {"h"}
  RsContents = {"a", "b"}
  RsModified <- MCRsModified
  RsRenamed <- MCRsRenamed
  RsExtension <- MCRsRenamed
  RsDeleted <- MCRsRenamed
  RsMaxCount = 3
  MAX_IO_EVENTS = 2
  BURST_THRESHOLD = 2
  BURST_WINDOW = 1
  RsMaxTime = 2
  RsMaxHoney = 2
  SdModules = {"d3d11", "hook"}
  SdStandard = {"d3d11"}
  SdLoaded = {"d3d11"}
  SdMaxEntries = 2
  TiTypes = {"DOMAIN", "IPV4_ADDRESS"}
  TiValues = {"evil", "EVIL."}
  TiNorm <- MCTiNorm
  TiDefaults <- MCTiDefaults
  TiMaxId = 3
  FtCallers = {"threat", "obs"}
  FtReports <- MCFtReports
  MAX_EVENTS = 3
  MAX_CHAINS = 2
  FtMaxId = 3
  FtMaxTime = 1
  NdTargets = {"c2"}
  NdPackets <- MCNdPackets
  BEACON_MIN_CONNECTIONS = 3
  BeaconFull = 4
  NdMaxTimes = 4
  NdMaxAlerts = 2
  NdMaxPackets = 5
  NdMaxTime = 5
  LolMaxChars = 5
  LolMaxBytes = 4
  LolMaxText = 4
  LolWindow = 3
  LolBytes = {0, 1, 37, 200, 255}
  CrPids = {1, 2}
  CrTools = {"mimikatz"}
  CrNames = {"mimikatz", "svc"}
  CrMaxEvents = 3
  CrMaxTime = 2
  FwRules <- MCFwRules
  FwPackets <- MCFwPackets
  FwWidth = 2
  MAX_CONNECTION_LOG = 3
  FLOOD_THRESHOLD = 2
  DENY_RATIO_THRESH = 1
  FwScatter = 2
  FwMaxId = 8
  FwMaxQueries = 1
  FwIds = {1, 5}
  UpCallers = {"p", "q"}
  UpContents = {"a", "b"}
  UpExpected = {"", "a"}
  MAX_UPDATE_LOG = 2
  UpMaxId = 2
  UpMaxWrites = 1
  FlMaxParts = 9
  FlMaxTexts = 3
  DvDrives = {"E:"}
  DvOthers = {"usb"}
  DvRules <- MCDvRules
  DvCallers = {"p"}
  DvMaxRules = 1
  DvMaxReports = 2
  BsRaw <- MCBsRaw
  BsActive = {2, 8, 9}
  MAX_SCORES = 2
  BsMaxId = 2
  DnThreads = {"p", "q"}
  DnDomains = {"x", "b", "g"}
  DnBlocked = {"b"}
  DnGenerated = {"g"}
  MAX_QUERY_LOG = 2
  DnMaxCalls = 4
  DnBytes = {0, 1, 2, 192}
  DnMaxLen = 6
  DnMaxLabel = 6
  RmNames = {"a", "s", "t"}
  RmSubNames = {"s", "t"}
  RmData = {"1", "2", "L"}
  RmLarge = {"L"}
  RmMaxSubkeys = 1
  RmMaxWrites = 3
  RmMaxPolls = 3
  YrLetters = {"a", "A", "b"}
  YrFast = 3
  YrMaxPattern = 3
  YrMaxData = 4
  YrMaxLines = 5
  YrLines <- MCYrLines
  PeWord = 8
  PeCells = {0, 1, 2, 5}
  PeMaxCells = 5
  PeTables <- MCPeTables
  Md5Block = 4
  Md5Length = 2
  PeMaxMessage = 9
  PlPids = {1, 2}
  MAX_KNOWN_CREATE_TIMES = 2
  PlMaxTime = 2
  PlMaxCreated = 3
  PlMaxQueue = 2
  EsMaxStarts = 3
  PmAddrs = {2, 3, 4}
  PmCode = 2
  PmImports = 3
  RING_SIZE = 2
  PmMaxWrites = 2
  PmMaxCorrupt = 1
  PmMaxCalls = 3
  EtSources = {1, 2}
  FLOOD_THRESH = 1
  FLOOD_WINDOW = 1
  EtPruneAt = 1
  EtMaxPackets = 5
  EtMaxTime = 3
  AmPatches = {"ret"}
  AmHooks = {"jmp"}
  AmMaxChanges = 3
  AmMaxStarts = 2
  AmMaxChecks = 4
  TlCallers = {"p", "q"}
  TlLevels = {1, 3}
  MAX_LOG = 2
  LogDropped = 1
  LevelWindow = 2
  TlMaxId = 3
  TlMaxTime = 3
  TlStall = 1
  AlCallers = {"p", "q"}
  AlLevels = {1, 3}
  MAX_HISTORY = 2
  HIGH = 3
  SOUND_COOLDOWN = 1
  AlMaxId = 3
  AlMaxTime = 2
  BnByteBits = 1
  BnLimbBytes = 2
  BnMaxBytes = 5
  DerBytes = {0, 1, 2, 31, 48, 128, 129}
  DerMaxLen = 5
  DerMaxLenBytes = 8
  DerTagBits = 7
  DerArcBits = 14
  DerLengths = {0, 1, 127, 128, 255, 256, 300}
  AuNames = {"leaf", "mid", "root"}
  AuAnchors = {"root"}
  AuMaxCerts = 2
  kMaxChainDepth = 3
  AuMinPad = 1
  AuMaxEm = 7
  AuMaxFile = 6
  ScBytes = {"N", "J", "a"}
  ScMaxLen = 7
  ScSled = 2
  ScTail = 1
  ScRun = 2
  ScSigs <- MCScSigs
INVARIANTS
  FilesWatched
  TrafficJudged
  TimelineCausal
  EvidenceRead
  ContentSearched
  
  TamperTold
  LogsComplete
PROPERTIES
  ProcessesKnown
  StepsJustified
  VerdictsStand
CHECK_DEADLOCK FALSE
