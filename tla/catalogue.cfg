\* Two threads, every request once, with crashes.
SPECIFICATION Spec
CONSTANTS
  Threads = {r1, r2}
  Requests <- AllRequests
  Days <- SomeDays
  Excluded <- SomeExcluded
  AgentHandles <- SomeHandles
  OrcidIds <- SomeOrcids
  Lower <- LowerOf
  TopN = 5
  Weeks = 8
  MayCrash = TRUE
  None = None
INVARIANTS ViewsAgree PulseAddsUp
PROPERTIES ImplementsDicts
CHECK_DEADLOCK FALSE
