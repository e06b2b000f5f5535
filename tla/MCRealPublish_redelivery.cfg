SPECIFICATION Spec
CONSTANTS
  k1 = k1
  k2 = k2
  t1 = t1
  t2 = t2
  Runs = {r1, r2}
  Keys = {k1}
  Tags = {t1}
  TagOf <- MCOneKey
  Matched <- MCOneSelf
  TasksDelivered = TRUE
INVARIANTS
  TypeOK
  NoDuplicateWithoutCause
  NothingForgotten
PROPERTY
  AttemptsSettle
CHECK_DEADLOCK FALSE
