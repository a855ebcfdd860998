SPECIFICATION Spec
CONSTANTS
  t1 = t1
  t2 = t2
  NoTopic = NoTopic
  Configs <- MCConfigs
  ServerLimits <- MCServerLimits
  SensorValues = {2}
  MaxValue = 3
  X_WINDOW = 0
  CHART_MAX = 2
  DB_MAX = 1
  SPIN_MAX = 1
  HISTORY_MAX = 2
  ALARMS_MAX = 1
  MaxConnects = 2
  MaxMessages = 2
  MaxEdits = 1
  MaxClock = 2
INVARIANTS PagesAgree OneHandlerEach ThresholdsConverge ChartIsCurrent NormalMeansNoAlarm
CHECK_DEADLOCK FALSE
