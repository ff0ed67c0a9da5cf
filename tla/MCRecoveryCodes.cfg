SPECIFICATION Spec
CONSTANTS
  c1 = c1
  c2 = c2
  c3 = c3
  c4 = c4
  one = one
  two = two
  None = None
  Call <- MCFour
  Slot <- MCSlot
  Faults = {"io", "audit", "crash"}
INVARIANTS
  TypeOK
  SingleUse
PROPERTIES
  ImplementsCodes
SYMMETRY Symmetry
CHECK_DEADLOCK FALSE
