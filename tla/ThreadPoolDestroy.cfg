SPECIFICATION PoolSpec
CONSTANTS
  w1 = w1  w2 = w2
  Main = main
  Free = free
  NoTask = none
  Workers <- MCWorkers
  Callers <- MCMainOnly
  QUEUE_SIZE = 2
  Tasks = {1, 2}
INVARIANTS DestroyWaitsForTasks
CHECK_DEADLOCK FALSE
