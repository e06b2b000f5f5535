SPECIFICATION Spec
CONSTANTS
  Runs = {r1, r2}
  Orgs = {o1, o2}
  Keys = {k1, k2, k3}
  Payloads = {h1, h2}
  MaxDailyNewAds = 1
  TicksPerDay = 1
  Ttl = 0
  MaxTime = 1
INVARIANTS
  TypeOK
  AnswerIsForPayload
  AdMatchesAttempt
  OvershootIsBounded
PROPERTY
  AttemptsAreFinal
CONSTRAINT OneKeyIsShared
SYMMETRY Symmetric
CHECK_DEADLOCK FALSE
