SPECIFICATION FairSpec
CONSTANTS
  a1 = a1  a2 = a2  a3 = a3  x = x  y = y  w1 = w1  w2 = w2  None = None
  Assets = {a1, a2}
  Workers = {w1}
  WithSidecar = {a1}
  Configs <- OneTemplate
  Bases = {x}
  MaxDup = 4
  ExifSize <- SameSize
  CrossDevice = TRUE
  CopyFaults = {"garbled", "short"}
  MaxFaults = 2
  MaxInterrupts = 1
  MaxChanges = 0
INVARIANTS TypeOK OriginalsTracked RecordsLeadToOwnBytes
PROPERTIES MigrationCompletes MovesAreAtomic
