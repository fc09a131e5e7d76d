\* Everyone; requests about the same thing follow each
\* other; the process may die.
SPECIFICATION Spec
CONSTANTS
  Threads = {r1, r2}
  PasteCodes = {p1}
  Challenges = {h1}
  Tokens = {k1, k2, k3}
  People = {alice}
  Handles = {bot}
  PublicKeys = {x, y}
  CodeTTL = 1
  TokenTTL <- SmallTTL
  Horizon = 2
  Overlap = FALSE
  MayCrash = TRUE
  None = None
SYMMETRY Interchangeable
INVARIANTS TypeOK SessionKept
PROPERTIES ImplementsVouchers HandleTaken
CHECK_DEADLOCK FALSE
