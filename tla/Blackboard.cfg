SPECIFICATION FairSpec
CONSTANTS
  c1 = c1  c2 = c2
  Children <- MCChildren
  Main = main
  Ids <- MCIds
  TEMP_ID = 16790
  HUM_ID = 16789
  Values = {1, 2}
  NoValue = 999
  MAX_SENSORS = 2
INVARIANTS BoardSafe
PROPERTIES ImplementsLatestValues UpdateReturns
