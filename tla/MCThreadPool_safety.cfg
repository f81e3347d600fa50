SPECIFICATION Spec
CONSTANTS
  Producers = {p1, p2}
  MinNum = 1
  MaxNum = 2
  QueueCapacity = 2
  InitialQueueSizes = {0}
  MaxTasks = 4
  DestroyAfter = 0
  Garbage = Garbage
SYMMETRY ClientSymmetry
INVARIANTS
  TypeOK
  PoolSize
  BusyCount
  TasksAccounted
  StallRepairable
  ProducersNotForgotten
PROPERTIES
  TaskPoolSpec
CHECK_DEADLOCK FALSE
