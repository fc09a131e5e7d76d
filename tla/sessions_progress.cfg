\* Every kind of request, overlapping, while the process lives.
SPECIFICATION Spec
CONSTANTS
  Threads = {r1, r2}
  PasteCodes = {p1}
  Challenges = {}
  Tokens = {k1, k2, k3}
  People = {alice}
  Handles = {bot}
  PublicKeys = {x}
  CodeTTL = 1
  TokenTTL <- SmallTTL
  Horizon = 1
  Overlap = TRUE
  MayCrash = FALSE
  None = None
PROPERTIES NothingHalfDone
CHECK_DEADLOCK FALSE
