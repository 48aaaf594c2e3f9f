SPECIFICATION FairMgrSpec
CONSTANTS
  NumEngines = 2
  GAP = 2
  MaxTime = 5
  \* with ETW that another instance may take; without the privilege; without ETW;
  \* with ETW that works now and then; where threads cannot be created
  Surroundings = {{"etw_live"}, {"etw_live", "etw_taken"}, {"etw_denied"}, {"etw_stub"}, {"etw_live", "etw_denied"}, {"etw_live", "no_thread"}}
INVARIANTS
  InspectionsPaced
  ManagerSafe
PROPERTIES
  StopAllReturns
