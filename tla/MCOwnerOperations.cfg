SPECIFICATION Spec
CONSTANTS
  r1 = r1
  Request <- MCRequest
  Sessions <- MCSessions
  MaxAge = 1
  MaxTime = 4
  Faults = {"reject", "crash"}
INVARIANTS
  TypeOK
  EffectIsAuthorized
  AnswersAreTrue
CHECK_DEADLOCK FALSE
