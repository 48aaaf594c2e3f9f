SPECIFICATION DnSpec
CONSTANTS
  DnThreads = {"p", "q"}
  DnDomains = {"x", "b", "g"}
  DnBlocked = {"b"}
  DnGenerated = {"g"}
  MAX_QUERY_LOG = 2
  DnMaxCalls = 4
  DnBytes = {0, 1, 2, 192}
  DnMaxLen = 6
  DnMaxLabel = 6
INVARIANT DnNoSelfWait
CHECK_DEADLOCK FALSE
