SPECIFICATION Spec
CONSTANTS
  Runs = {r1, r2}
  Creatives = {c1, c2, c3}
  Images = {i1}
  NoCreative = noCreative
  NoImage = noImage
  MaxImages = 2
  MaxChecks = 2
SYMMETRY Symmetry
CONSTRAINT OneReviewed
INVARIANTS
  TypeOK
  PublishedIsApproved
  StatusIsLastDecision
  PublishedHasImage
  RowHasFile
  DuplicatesBounded
CHECK_DEADLOCK FALSE
