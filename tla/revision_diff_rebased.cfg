\* The diff in the reply to a revision against the one that is served.
SPECIFICATION Spec
CONSTANTS
  MaxDepth = 3
  LabelWindow = 12
  Sources <- Rebased
  MintedSlug <- Slug
  MaxEdits = 1
  MaxVersions = 2
  MaxLines = 4
INVARIANTS ReplyIsTheDiff
CHECK_DEADLOCK FALSE
