\* Claims whose sidecar markers carry no number.
SPECIFICATION Spec
CONSTANTS
  MaxDepth = 3
  LabelWindow = 12
  Sources <- Unstepped
  MintedSlug <- Slug
  MaxEdits = 1
  MaxVersions = 2
  MaxLines = 4
INVARIANTS EmptyIndicesFiltered
CHECK_DEADLOCK FALSE
