CONSTANTS
  Files = {f1}
  Times = {1, 2}
  Workers = {1, 2}
  Readers = {1, 2}
  MaxChanges = 1
  MaxEvents = 2
  None = None
SPECIFICATION Spec
INVARIANTS
  TypeOK
  OneRecordPerFile
PROPERTIES
  RemovedForAReason
  DeletedForGood
  RecordsFollowFiles
  MetadataFollowsFiles
  DeletedLibraryDisappears
