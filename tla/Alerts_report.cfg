SPECIFICATION Spec
CONSTANTS
  RuleIds <- TwoRules
  TypeOf <- TwoTypes
  Clients = {c1}
  DedupeHours = 0
  DaysAhead = 1
  MaxClock = 1
  MaxEvents = 2
  MaxReports = 1
PROPERTY NewReportRaised
CHECK_DEADLOCK FALSE
