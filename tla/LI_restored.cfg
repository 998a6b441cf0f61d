CONSTANTS
  Files = {f1}
  Times = {1}
  Workers = {1, 2}
  Readers = {1}
  MaxChanges = 2
  MaxEvents = 2
  None = None
SPECIFICATION Spec
PROPERTY RestoredStay
