SPECIFICATION FairSpec
CONSTANTS
  a1 = a1  a2 = a2  a3 = a3  x = x  y = y  w1 = w1  w2 = w2  None = None
  Assets = {a1, a2, a3}
  Workers = {w1}
  WithSidecar = {a1, a2}
  Configs <- AnySettings
  Bases = {x, y}
  MaxDup = 3
  ExifSize <- OneUnknownSize
  CrossDevice = TRUE
  CopyFaults = {}
  MaxFaults = 0
  MaxInterrupts = 0
  MaxChanges = 2
INVARIANT SidecarsSurvive
PROPERTIES MigrationCompletes SidecarMigrationCompletes
CHECK_DEADLOCK FALSE
