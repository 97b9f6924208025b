SPECIFICATION Spec
CONSTANTS
  RuleIds <- TwoRules
  TypeOf <- TwoTypes
  Clients = {c1, c2}
  DedupeHours = 0
  DaysAhead = 1
  MaxClock = 1
  MaxEvents = 2
  MaxReports = 1
INVARIANTS
  RaisedOnce
  NoLockCycle
SYMMETRY ClientSymmetry
CHECK_DEADLOCK FALSE
