SPECIFICATION Spec
CONSTANTS
  r1 = r1
  r2 = r2
  r3 = r3
  Nobody = Nobody
  Proc <- MCProc
  Ceremony <- MCCeremony
  CeremonyOf <- MCCeremonyOf
  Faults = {"write"}
INVARIANTS
  FailedLeavesNothing
CHECK_DEADLOCK FALSE
