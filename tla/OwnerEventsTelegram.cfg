\* Two overlapping sends of one batch: texts of two pieces, or a file.
SPECIFICATION Spec
CONSTANTS
  Events = {e1}
  MaxAttempts = 2
  MaxBatches = 1
  Kinds = {"telegram"}
  Calls = {c1, c2}
  Texts = {t1, t2}
  Files = {f}
  Chunks = 2
  PerTick = 1
  MaxCrashes = 1
  MaxFaults = 0
SYMMETRY Interchangeable
INVARIANTS
  RepeatNeedsDoubt
  ConfirmedIsWhole
