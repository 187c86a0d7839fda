\* Digests only, as by default.
SPECIFICATION Spec
CONSTANTS
  MaxEvents = 2
  Scheduled = {}
  MaxHours = 1
  MaxReports = 1
  MaxActs = 0
  MaxCrashes = 0
  MaxFaults = 1
INVARIANTS
  EveryUpdateIsTold
