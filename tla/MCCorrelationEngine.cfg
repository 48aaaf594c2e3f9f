SPECIFICATION CorrSpec
CONSTANTS
  Observations <- MCObservations
  Norm <- MCNorm
  Protected <- MCProtected
  CriticalThreshold = 90
  MAX_ACTIVE_KEYS = 2
  MAX_FINDINGS = 2
  DUPLICATE_WINDOW = 1
  FindingWindow = 1
  MaxTime = 3
  MaxFindingId = 3
INVARIANTS
  CorrelationConsistent
PROPERTIES
  FindingsEarned
  ForgetsOldestFirst
