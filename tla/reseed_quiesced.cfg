\* Boots, deaths and reseeds between submissions.
SPECIFICATION SeederSpec
CONSTANTS
  u1 = u1
  u2 = u2
  f1 = f1
  f2 = f2
  c1 = c1
  c2 = c2
  Uuids = {u1, u2}
  FileIds = {f1, f2}
  Uploads <- AllUploads
  SeedFiles <- TwoSeeds
  Labels = {c1, c2}
  Tokens = {t1}
  AgentTokens = {}
  Keys = {}
  SlugLimit = 6
  Disciplined = TRUE
  MayCrash = TRUE
  MaxRuns = 2
  Quiesced = TRUE
  None = None
INVARIANTS SeedsWhole SlugsUnique
PROPERTIES CommunityIntact BootSeeds
CHECK_DEADLOCK FALSE
