CONSTANTS
  a1 = a1
  a2 = a2
  x = x
  y = y
  Assets = {a1, a2}
  Looks = {x, y}
  LooksOf <- LooksOfTwo
  Workers = {1, 2}
  MaxEvents = 1
  None = None
SPECIFICATION Spec
INVARIANTS
  TypeOK
  RecognisedInFull
PROPERTIES
  FacesKept
  EmptyPeopleGo
