\* Where a claim stands behind an \input that resolves to nothing.
SPECIFICATION Spec
CONSTANTS
  MaxDepth = 3
  LabelWindow = 12
  Sources <- Unresolved
  MintedSlug <- Slug
  MaxEdits = 1
  MaxVersions = 2
  MaxLines = 4
INVARIANTS LocExact
CHECK_DEADLOCK FALSE
