SPECIFICATION Spec
CONSTANT
  Runs = {r1, r2}
PROPERTY
  OnlyUnexpectedIsFlagged
CHECK_DEADLOCK FALSE
