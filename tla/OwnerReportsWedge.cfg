SPECIFICATION Spec
CONSTANTS
  MaxEvents = 0
  Scheduled = {1}
  MaxHours = 1
  MaxReports = 2
  MaxActs = 1
  MaxCrashes = 0
  MaxFaults = 1
INVARIANTS
  ReplayIsIdentical
