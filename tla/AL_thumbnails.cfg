SPECIFICATION FairSpec
CONSTANTS
  s1 = s1  s2 = s2  m1 = m1  w1 = w1  w2 = w2  None = None
  Assets = {s1}
  Stills = {s1}
  MotionOf <- NoMotion
  Stored = {}
  Home <- NoHome
  Checksum <- Different
  Slots = 3
  Workers = {w1,w2}
  MaxFailures = 1
  MaxUploadFaults = 0
  MaxTrashed = 0
  MaxRestored = 0
  MaxDeleted = 1
  MaxEvents = 2
  Nights = TRUE
CHECK_DEADLOCK FALSE
PROPERTY ThumbnailsInTheEnd
