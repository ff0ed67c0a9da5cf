SPECIFICATION Spec
CONSTANTS
  c1 = c1
  c2 = c2
  c3 = c3
  good = good
  weak = weak
  None = None
  Call <- MCCall
  Password <- MCPassword
  Refused <- MCRefused
  Faults <- MCFaults
  MaxFailures = 2
  Window = 2
  Block = 2
  Period = 1
  MaxTime = 2
SYMMETRY MCSymmetry
INVARIANTS
  TypeOK
  RateBound
  GrantedIsProven
PROPERTIES
  ImplementsFactors
CHECK_DEADLOCK FALSE
