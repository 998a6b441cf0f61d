SPECIFICATION Spec
CONSTANTS
  s1 = s1  s2 = s2  m1 = m1  w1 = w1  w2 = w2  None = None
  Assets = {s1,s2,m1}
  Stills = {s1,s2}
  MotionOf <- LivePhoto
  Stored = {s2}
  Home <- FirstSlot
  Checksum <- SameStill
  Slots = 3
  Workers = {w1,w2}
  MaxFailures = 1
  MaxUploadFaults = 2
  MaxTrashed = 1
  MaxRestored = 1
  MaxDeleted = 2
  MaxEvents = 3
  Nights = FALSE
SYMMETRY WorkersAlike
CHECK_DEADLOCK FALSE
INVARIANTS TypeOK RecordsKeepTheirOriginal DeletedLeaveNothing
PROPERTY OnlyUnwantedAreRemoved
