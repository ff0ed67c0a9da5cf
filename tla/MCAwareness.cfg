SPECIFICATION Spec
CONSTANTS
  Inspection = {i1}
  Probe = {p1, p2}
  Required = {p1}
  Panel = {s1, s2}
  Plain = {s1, s2}
  Listing = listing
  Lists <- MCLists
  MaxChanges = 2
  Faults = {"hang"}
INVARIANTS TypeOK ReportsWereSeen
PROPERTY EveryInspectionAnswered
CHECK_DEADLOCK FALSE
