\* Careful clients, crashes and retries.
SPECIFICATION Spec
CONSTANTS
  u1 = u1
  u2 = u2
  f1 = f1
  c1 = c1
  c2 = c2
  Uuids = {u1, u2}
  FileIds = {f1}
  Uploads <- HonestUploads
  Labels = {c1, c2}
  Tokens = {t1}
  AgentTokens = {}
  Keys = {k1}
  SlugLimit = 3
  Disciplined = TRUE
  MayCrash = TRUE
  None = None
INVARIANTS TypeOK AckedIsDurable RepliesAgree OneWritePerKey
PROPERTIES VersionsImmutable ImplementsLineages
CHECK_DEADLOCK FALSE
