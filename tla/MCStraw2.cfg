SPECIFICATION MCSpec
CONSTANTS
  Ids = {0, 1, 2}
  Hashes = {0, 40000, 65534}
  Weights <- MCWeights
  MaxItems <- MCMaxItems
  LastHash = 65534
  Tolerance = 62
  Samples = 128
INVARIANTS
  LikeALogarithm
  Avalanche
  LongestStrawWins
PROPERTY MovesOnlyWithWeight
CHECK_DEADLOCK FALSE
