CONSTANTS
  UserIds = {u1}
  Folders = {upload, thumbs}
  Workers = {1, 2}
  Clients = {1, 2}
  Wait = 2
  MaxJobs = 2
  MaxRequests = 4
  MaxFailures = 1
SPECIFICATION Spec
INVARIANTS
  TypeOK
  OnlyExpiredLose
  GoneLeavesNoFolder
  AlbumsFollowUser
PROPERTY
  DeletedDisappear
