\* Two overlapping Drive uploads of one batch, over two attempts, and the end of every
\* batch, with and without a receipt.
SPECIFICATION FairSpec
CONSTANTS
  Events = {e1}
  MaxAttempts = 2
  MaxBatches = 1
  Kinds = {"drive"}
  Calls = {c1, c2}
  Texts = {}
  Files = {}
  Chunks = 1
  PerTick = 1
  MaxCrashes = 1
  MaxFaults = 1
INVARIANTS
  OneUpload
  AckedIsReceipted
PROPERTIES
  EveryBatchEnds
