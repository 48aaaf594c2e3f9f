SPECIFICATION MgrSpec
CONSTANTS
  NumEngines = 2
  GAP = 2
  MaxTime = 0
  Surroundings = {{"etw_live"}}
INVARIANT ResumesProtection
