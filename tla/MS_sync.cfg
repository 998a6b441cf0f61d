SPECIFICATION FairSpec
CONSTANTS
  Checksums = {1}
  Lag = 1
  Retention = 1
  ChunkSize = 1
  MaxClock = 3
  MaxEvents = 2
  None = None
INVARIANTS
  TypeOK
  NothingMissed
  DeviceAssetsKept
PROPERTY ViewConverges
