SPECIFICATION QuarSpec
CONSTANTS
  Paths <- MCPaths
  Contents <- MCContents
  InitialFiles <- MCInitialFiles
  Candidates <- MCCandidates
  Protected <- MCProtected
  Rewrites <- MCRewrites
  Irregular = {}
  Unfit = {}
  CriticalThreshold = 90
  Callers = {t1, t2}
  MAX_LEDGER_RECORDS = 2
  MaxId = 3
  Surroundings <- MCSurroundings
SYMMETRY CallerSymmetry
INVARIANTS
  LedgerConsistent
  CustodyHonest
PROPERTIES
  FinishedOnce
  ImplementsVault
