SPECIFICATION Spec
CONSTANTS
  a1 = a1  a2 = a2  a3 = a3  x = x  y = y  w1 = w1  w2 = w2  None = None
  Assets = {a1, a2}
  Workers = {w1, w2}
  WithSidecar = {}
  Configs <- TwoTemplates
  Bases = {x, y}
  MaxDup = 3
  ExifSize <- SameSize
  CrossDevice = TRUE
  CopyFaults = {"garbled"}
  MaxFaults = 1
  MaxInterrupts = 1
  MaxChanges = 1
SYMMETRY Symmetry
INVARIANTS MoveDiscipline OriginalsSurvive
PROPERTY OriginalsNotOverwritten
