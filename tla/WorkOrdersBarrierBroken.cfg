\* One ledger write may throw: the barrier forgets the row it was about.
SPECIFICATION Spec
CONSTANTS
  BoardOcc = {b, bc}
  WikiOcc = {w}
  CurationOcc = {}
  OwnerEventOcc = {b}
  CandidateOcc = {bc}
  Candidates = {c1}
  Ranks = {1}
  MaxRows = 3
  MaxCrashes = 1
  MaxReadFaults = 2
  MaxWriteFaults = 1
PROPERTIES
  ClaimBarrier
