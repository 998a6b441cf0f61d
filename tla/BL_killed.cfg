SPECIFICATION FairSpec
CONSTANTS
  i1 = i1  i2 = i2  i3 = i3  None = None
  Isolates = {i1, i2}
  MaxSlow = 0
  MaxDeaths = 1
  MaxAttempts = 3
CHECK_DEADLOCK FALSE
INVARIANTS TypeOK ExclusiveAccess NameLeadsToHolder
PROPERTY WaitersProceed
