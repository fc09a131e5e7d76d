\* The same instance: a reseed that keeps the community meets a revision of a seed.
SPECIFICATION SeederSpec
CONSTANTS
  u1 = u1
  u2 = u2
  f1 = f1
  f2 = f2
  c1 = c1
  c2 = c2
  Uuids = {u1, u2}
  FileIds = {f1, f2}
  Uploads <- AllUploads
  SeedFiles <- TwoSeeds
  Labels = {c1, c2}
  Tokens = {t1}
  AgentTokens = {}
  Keys = {}
  SlugLimit = 6
  Disciplined = TRUE
  MayCrash = TRUE
  MaxRuns = 2
  Quiesced = TRUE
  None = None
PROPERTIES OtherPapersIntact
CHECK_DEADLOCK FALSE
