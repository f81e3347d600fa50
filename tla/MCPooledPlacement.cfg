SPECIFICATION PSpec
CONSTANTS
  NumRep = 3
  Objects = 2
  Tries = 2
  Stable = TRUE
  MaxDevices = 2
  Workers = 3
  Ends <- MCEnds
  Garbage = {0}
INVARIANTS
  StaysWithObject
  ReplicasUsable
  PrimaryAsSequential
  DiffersFromReported
  NoTaskLost
PROPERTIES
  AllTasksReturn
CHECK_DEADLOCK FALSE
