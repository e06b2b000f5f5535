SPECIFICATION Spec
CONSTANTS
  Runs = {r1, r2}
  Learnings = {l1}
  MaxSuggestions = 3
  MaxVersions = 4
  MaxAnalyses = 3
SYMMETRY Symmetry
CONSTRAINT Apart
INVARIANTS
  TypeOK
  ReviewsBounded
  PendingBounded
  VersionsWellFormed
  UnforcedBounded
CHECK_DEADLOCK FALSE
