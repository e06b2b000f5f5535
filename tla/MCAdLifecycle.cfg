SPECIFICATION Spec
CONSTANT
  Runs = {r1, r2}
INVARIANTS
  TypeOK
  AgreeUnlessDisturbed
  ActiveHasAudit
PROPERTY
  FlagSticks
SYMMETRY Symmetric
CHECK_DEADLOCK FALSE
