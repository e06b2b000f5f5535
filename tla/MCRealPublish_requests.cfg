SPECIFICATION Spec
CONSTANTS
  k1 = k1
  k2 = k2
  t1 = t1
  t2 = t2
  Runs = {r1, r2, r3}
  Keys = {k1, k2}
  Tags = {t1, t2}
  TagOf <- MCTagOf
  Matched <- MCApart
  TasksDelivered = FALSE
INVARIANTS
  OneHandlerPerKey
  PublishedIsReal
  DistinctAds
  RecordedChain
PROPERTY
  ImplementsPublishOnce
SYMMETRY Symmetric
CHECK_DEADLOCK FALSE
