SPECIFICATION FairSpec
CONSTANTS
  w1 = w1  w2 = w2
  Main = main
  Free = free
  NoTask = none
  Workers <- MCWorkers
  Callers <- MCMainOnly
  QUEUE_SIZE = 2
  LAST_TASK = 2
  Tasks = {1, 2}
  Interval <- MCInterval
INVARIANTS PoolSafe
PROPERTIES ImplementsFairWorkQueue TaskIsPeriodic ShutdownReturns
CHECK_DEADLOCK FALSE
