\* Two tasks and one open attempt at a time.
SPECIFICATION FairSpec
CONSTANTS
  Tasks = {1, 2}
  MaxTime = 1
  MaxEpoch = 2
  MaxTries = 2
  MaxOpen = 1
  ScanLimit = 1
  MaxRows = 2
  MaxEdits = 1
  MaxRestarts = 1
  MaxFaults = 1
INVARIANTS
  TypeOK
  OneOpenAttempt
  InspectionAnswers
  FailuresAreCounted
  OpenIsBounded
  BootCanResume
PROPERTIES
  StopFencesEffects
  NoLostEdit
  KeepsPromise
  EveryCheckEnds
CHECK_DEADLOCK FALSE
