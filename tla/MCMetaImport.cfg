SPECIFICATION MCSpec
CONSTANTS
  Runs = {r0, r1, r2}
  Earlier = r0
  NoRun = none
  MaxVersion = 2
  MaxMissing = 2
INVARIANTS
  TypeOK
  RowsAccounted
  SuccessIsComplete
PROPERTIES
  NeverBackwards
  RunsSettle
CHECK_DEADLOCK FALSE
CONSTRAINT
  Bounds
