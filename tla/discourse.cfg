\* Writers and reads of every kind, with careful clients and crashes.
SPECIFICATION ReadsSpec
CONSTANTS
  ClientIds = {1, 2, 3, 4, 5}
  MintedIds = {6}
  Bodies <- Posts
  Batches <- OneBatch
  BulkMax = 2
  Papers <- AllPapers
  Seeded <- OldPaper
  Tokens = {t1}
  Keys = {k1}
  MaxPosts = 3
  Disciplined = TRUE
  MayCrash = TRUE
  Limit = 1
  SnapIds = {s1}
  TTL = 1
  Horizon = 1
  MaxReads = 2
  Reading = {"status", "page", "snapshot", "pulse"}
  None = None
INVARIANTS AnswersAgree BulkTruth StatusWasTrue PagesWhole SnapshotWhole PulseBounded
PROPERTIES ImplementsThreads StatusMonotone
CHECK_DEADLOCK FALSE
