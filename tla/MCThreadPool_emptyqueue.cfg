SPECIFICATION Spec
CONSTANTS
  Producers = {p1}
  MinNum = 1
  MaxNum = 2
  QueueCapacity = 2
  InitialQueueSizes = {0, 1}
  MaxTasks = 2
  DestroyAfter = 2
  Garbage = Garbage
INVARIANTS
  SleepsWithoutTask
CHECK_DEADLOCK FALSE
