SPECIFICATION FairSpec
CONSTANTS
  c1 = c1
  c2 = c2
  n1 = n1
  Absent = Absent
  Refused = Refused
  Client = {c1, c2}
  FileName <- MCFileName
  FileSize <- MCFileSize
  MaxRestarts = 1
  MaxEmpty = 1
  WritesMayFail = TRUE
INVARIANTS
  ObjectsAreUploads
  DefaultNamesAreEmpty
  SuccessIsOwn
PROPERTIES
  EveryUploadEnds
CHECK_DEADLOCK FALSE
