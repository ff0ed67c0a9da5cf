SPECIFICATION Spec
CONSTANTS
  c1 = c1
  c2 = c2
  c3 = c3
  c4 = c4
  ai = ai
  service = service
  f1 = f1
  v1 = v1
  v2 = v2
  None = None
  Component <- MCComponent
  AI <- MCAI
  Version <- MCVersion
  Flag <- MCFlag
  Call <- MCCall
  Faults = {"abort", "answer"}
INVARIANTS
  TypeOK
  NoOrphans
  EveryUpdateCounts
PROPERTIES
  OwnerWasActive
  ImplementsCatalog
SYMMETRY Symmetry
CHECK_DEADLOCK FALSE
