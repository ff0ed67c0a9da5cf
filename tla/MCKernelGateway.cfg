SPECIFICATION FairSpec
CONSTANTS
  r1 = r1
  r2 = r2
  flags = flags
  registry = registry
  Request <- MCTwo
  Port <- MCPort
  Faults = {"event", "resolve", "handle", "commit", "audit", "crash"}
INVARIANTS
  TypeOK
  RecordsAreTrue
  AnswersMatchRecords
PROPERTIES
  SealedGrantsNothing
  ImplementsGuarded
  EveryRequestAnswered
CHECK_DEADLOCK FALSE
