SPECIFICATION Spec
CONSTANTS
  Checksums = {1, 2}
  Lag = 0
  Retention = 3
  ChunkSize = 1
  MaxClock = 3
  MaxEvents = 0
  None = None
INVARIANT NothingMissed
CHECK_DEADLOCK FALSE
