\* Two events in one or two batches, redelivered after a crash or a failed
\* commit; turns that end every way they can, without external effects.
SPECIFICATION Spec
CONSTANTS
  Events = {e1, e2}
  MaxAttempts = 2
  MaxBatches = 2
  Kinds = {}
  Calls = {}
  Texts = {}
  Files = {}
  Chunks = 1
  PerTick = 2
  MaxCrashes = 1
  MaxFaults = 1
SYMMETRY Interchangeable
INVARIANTS
  TypeOK
  EventsHeldOnce
  ClaimIsTurn
  TurnBudget
  DeadIsAnnounced
