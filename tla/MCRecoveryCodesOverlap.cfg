SPECIFICATION Spec
CONSTANTS
  c1 = c1
  c2 = c2
  c3 = c3
  c4 = c4
  one = one
  two = two
  None = None
  Call <- MCThree
  Slot <- MCSlot
  Faults = {"overlap"}
INVARIANTS
  SingleUse
CHECK_DEADLOCK FALSE
