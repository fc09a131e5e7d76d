\* The same instance: what a search of claims shows of their status.
SPECIFICATION Spec
CONSTANTS
  Threads = {r1, r2}
  Requests <- AllRequests
  Days <- SomeDays
  Excluded <- SomeExcluded
  AgentHandles <- SomeHandles
  OrcidIds <- SomeOrcids
  Lower <- LowerOf
  TopN = 5
  Weeks = 8
  MayCrash = TRUE
  None = None
INVARIANTS SearchShowsStatus
CHECK_DEADLOCK FALSE
