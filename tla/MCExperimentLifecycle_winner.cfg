SPECIFICATION Spec
CONSTANTS
  Variants = {c, t1, t2}
  Control = c
  Criteria = 4
  Diffs = {0, 1, 2}
  Confs = {1, 2, 3}
  Runs = {r1}
  Metrics = {"ctr"}
  WindowEnd = 0
  Maturation = 1
  MaxDay = 1
INVARIANTS
  WinnerIsStrong
CHECK_DEADLOCK FALSE
