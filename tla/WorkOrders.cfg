\* One wiki key, one owner-event curation key, one candidate board key, two
\* priorities; two accepted orders and their retries, two restarts; a receipt
\* inspection and a ledger write may each throw.
SPECIFICATION FairSpec
CONSTANTS
  BoardOcc = {bc}
  WikiOcc = {w}
  CurationOcc = {ce}
  OwnerEventOcc = {ce}
  CandidateOcc = {bc}
  Candidates = {c1, c2}
  Ranks = {0, 1}
  MaxRows = 2
  MaxCrashes = 2
  MaxReadFaults = 1
  MaxWriteFaults = 1
INVARIANTS
  TypeOK
  SlotHeldOnce
  AttemptBudget
  RetryConserved
  ClaimsAreOwned
PROPERTIES
  ReceiptsDecide
  BarrierStands
  KeepsPromise
  EveryOrderSettles
  StopEnds
