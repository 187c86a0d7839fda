\* Two events, a second hour with a full report due, two reports (digests,
\* a scheduled one, one on demand), one failure, one operator action, one death.
SPECIFICATION FairSpec
CONSTANTS
  MaxEvents = 2
  Scheduled = {2}
  MaxHours = 2
  MaxReports = 2
  MaxActs = 1
  MaxCrashes = 1
  MaxFaults = 1
INVARIANTS
  TypeOK
  RepeatNeedsDoubt
  OutcomeIsTrue
  LostOnlyBehind
PROPERTIES
  EveryReportEnds
