SPECIFICATION FairSpec
CONSTANTS
  r1 = r1
  r2 = r2
  r3 = r3
  Nobody = Nobody
  Proc <- MCProc
  Ceremony <- MCCeremony
  CeremonyOf <- MCCeremonyOf
  Faults = {"create", "verify", "audit"}
INVARIANTS
  FailedLeavesNothing
  NothingStale
PROPERTIES
  EveryCeremonyEnds
CHECK_DEADLOCK FALSE
