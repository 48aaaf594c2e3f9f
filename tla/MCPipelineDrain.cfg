SPECIFICATION PipeSpec
CONSTANTS
  Observations <- MCObservations
  Norm <- MCNorm
  Protected = {}
  CriticalThreshold = 90
  MAX_ACTIVE_KEYS = 1
  MAX_FINDINGS = 2
  DUPLICATE_WINDOW = 1
  FindingWindow = 1
  MaxTime = 1
  MaxFindingId = 3
  Capacity = 2
  Producers = {p1, p2}
  MAX_CANDIDATES = 1
  MaxPublished = 4
INVARIANT DrainedOnStop
