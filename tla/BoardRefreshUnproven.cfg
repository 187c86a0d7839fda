\* Two channels, one of them a private partition, one place per channel.
SPECIFICATION Spec
CONSTANTS
  Channels = {c, p}
  Private = {p}
  Batches = {b}
  MaxPending = 1
  Budget = 1
  MaxPosts = 2
  MaxForced = 1
  MaxCrashes = 1
  MaxFaults = 1
CHECK_DEADLOCK FALSE
INVARIANTS
  UnprovenKeepsDirt
