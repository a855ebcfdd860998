SPECIFICATION FairSpec
CONSTANTS
  None = None
  Programs <- MCPrograms
  Kids <- MCKids
INVARIANTS SubmitFindsFifo CleanExitLeavesNothing
PROPERTIES ChildrenEnd ShutdownEnds
CHECK_DEADLOCK FALSE
