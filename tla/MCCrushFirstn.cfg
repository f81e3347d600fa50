SPECIFICATION FairSpec
CONSTANTS
  MaxBuckets = 4
  Items <- MCItems
  ItemWeights <- MCItemWeights
  BucketType <- MCBucketType
  MaxDevices = 4
  WeightMax = 4
  Calls <- MCCalls
  OutSize = 2
INVARIANTS
  DomainsDiffer
  DevicesInDomains
  NothingOverlooked
PROPERTIES
  IsPlacement
  Returns
CHECK_DEADLOCK FALSE
