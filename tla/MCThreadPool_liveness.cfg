SPECIFICATION FairSpec
CONSTANTS
  Producers = {p1, p2}
  MinNum = 1
  MaxNum = 2
  QueueCapacity = 1
  InitialQueueSizes = {0, 1}
  MaxTasks = 2
  DestroyAfter = 2
  Garbage = Garbage
PROPERTIES
  EveryTaskRuns
  EveryAddReturns
  IdlePoolShrinks
  DestroyReturns
CHECK_DEADLOCK FALSE
