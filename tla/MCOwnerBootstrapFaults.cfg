SPECIFICATION Spec
CONSTANTS
  r1 = r1
  r2 = r2
  r3 = r3
  Nobody = Nobody
  Proc <- MCProc
  Ceremony <- MCCeremony
  CeremonyOf <- MCCeremonyOf
  Faults = {"create", "write", "unlink", "read", "verify", "audit", "crash"}
INVARIANTS
  TypeOK
  RecordBacked
  HonestOutcome
  ExclusiveCeremony
PROPERTIES
  AbandonedIsFinal
  ImplementsEstablishment
SYMMETRY Symmetry
CHECK_DEADLOCK FALSE
