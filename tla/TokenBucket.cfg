SPECIFICATION BucketSpec
CONSTANTS
  CAPACITY = 2
  RATE = 400
  Steps <- MCSteps
  MaxClock = 12
  MaxPassed = 7
INVARIANTS RateBound RefusesOnlyExcess
CHECK_DEADLOCK FALSE
