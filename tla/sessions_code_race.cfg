\* Two exchanges of one code at once.
SPECIFICATION Spec
CONSTANTS
  Threads = {r1, r2}
  PasteCodes = {p1}
  Challenges = {h1}
  Tokens = {k1, k2, k3}
  People = {alice}
  Handles = {}
  PublicKeys = {}
  CodeTTL = 1
  TokenTTL <- SmallTTL
  Horizon = 2
  Overlap = TRUE
  MayCrash = FALSE
  None = None
SYMMETRY Interchangeable
INVARIANT CodeSingleUse
CHECK_DEADLOCK FALSE
