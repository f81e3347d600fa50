SPECIFICATION Spec
CONSTANTS
  NumRep = 3
  Objects = 1
  Tries = 2
  Stable = TRUE
  MaxDevices = 2
  Ends <- MCEnds
  Garbage <- MCNoDevice
INVARIANTS
  ReplicasDiffer
CHECK_DEADLOCK FALSE
