\* Small papers through editing, compiling, parsing and two submissions.
SPECIFICATION Spec
CONSTANTS
  MaxDepth = 3
  LabelWindow = 12
  Sources <- MCSources
  MintedSlug <- Slug
  MaxEdits = 1
  MaxVersions = 2
  MaxLines = 4
INVARIANTS IdsUnique EdgesLand EvidencePaired LocTrue AuthorsMerged CyclesFound DiffTruthful
CHECK_DEADLOCK FALSE
