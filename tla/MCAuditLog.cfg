SPECIFICATION FairSpec
CONSTANTS
  s1 = s1
  s2 = s2
  e1 = e1
  e2 = e2
  e3 = e3
  e4 = e4
  Store <- MCStore
  Event <- MCEvent
  Malformed <- MCMalformed
  Faults = {"io", "torn", "sync", "crash"}
INVARIANTS
  TypeOK
  RecordedOnce
  AcknowledgedIsChained
  ChainUnbroken
PROPERTIES
  DamageSeals
  ImplementsTrail
  EveryAppendSettles
CHECK_DEADLOCK FALSE
