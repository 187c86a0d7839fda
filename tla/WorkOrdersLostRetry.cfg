\* A wiki order delegated by an owner event: its key is never freed.
SPECIFICATION Spec
CONSTANTS
  BoardOcc = {}
  WikiOcc = {we}
  CurationOcc = {}
  OwnerEventOcc = {we}
  CandidateOcc = {}
  Candidates = {c1}
  Ranks = {0}
  MaxRows = 2
  MaxCrashes = 1
  MaxReadFaults = 0
  MaxWriteFaults = 0
INVARIANTS
  RetryConservedForEveryKey
