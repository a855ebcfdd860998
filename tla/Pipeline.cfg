SPECIFICATION FairSpec
CONSTANTS
  MAX_QUEUE_SIZE = 4
  BATCH_MAX = 2
  Sensors <- MCTwoSensors
  TEMP_ID = 16790
  HUM_ID = 16789
  Values = {1}
  NoValue = 999
  MAX_SENSORS = 1
  MaxAccepted = 5
INVARIANTS RingSafe BlackboardFollowsUdp
PROPERTIES ImplementsFifo ImplementsFairFifo MainReturnsToPoll
