SPECIFICATION MainSpec
CONSTANTS
  Sizes <- MCSizes
  OsdSum = 10000
  MaxSlots = 60
  MaxBuckets = 56
  Items <- MCItems
  ItemWeights <- MCItemWeights
  BucketType <- MCBucketType
  MaxDevices = 750
  WeightMax = 10000
  Calls <- MCCalls
  OutSize = 3
  FirstObject = 222
  object_num = 256
  Reweight <- MCReweight
INVARIANTS
  BuildsProgramMap
  FailureDomainsDisjoint
  IndependentReplicas
  FairShares
CHECK_DEADLOCK FALSE
