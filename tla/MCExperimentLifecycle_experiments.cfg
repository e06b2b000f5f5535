SPECIFICATION FairSpec
CONSTANTS
  Variants = {c, t}
  Control = c
  Criteria = 1
  Diffs = {2}
  Confs = {3}
  Runs = {r1, r2}
  Metrics = {"ctr"}
  WindowEnd = 0
  Maturation = 1
  MaxDay = 1
INVARIANTS
  TypeOK
  StateIsLatest
  DuplicatesBounded
  WinnerNeedsEvidence
PROPERTIES
  RevivedOnlyByOverlap
  WindowEnds
CHECK_DEADLOCK FALSE
CONSTRAINT
  Bounds
