SPECIFICATION FairSpec
CONSTANTS
  c1 = c1  c2 = c2  t1 = t1  t2 = t2
  Children <- MCChildren
  Mortal <- MCMortal
  Threads <- MCThreads
  COMMAND = 2
  READ_MAX = 5
  PIPE_SIZE = 7
  MaxTasks = 5
INVARIANTS ExecutedOnce NoLossWithoutBacklog
PROPERTIES SubmitReturns
CHECK_DEADLOCK FALSE
