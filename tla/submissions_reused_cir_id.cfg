\* Every draft of main.tex is parsed to the id main.
SPECIFICATION Spec
CONSTANTS
  u1 = u1
  u2 = u2
  f1 = f1
  c1 = c1
  c2 = c2
  Uuids = {u1, u2}
  FileIds = {f1}
  Uploads <- DraftUploads
  Labels = {c1, c2}
  Tokens = {t1}
  AgentTokens = {}
  Keys = {k1}
  SlugLimit = 3
  Disciplined = FALSE
  MayCrash = FALSE
  None = None
PROPERTY VersionsImmutable
CHECK_DEADLOCK FALSE
