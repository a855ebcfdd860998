----------------------------- MODULE AlarmPage -----------------------------
(***************************************************************************)
(* The limits, the alarms and the status label of AlarmPage.               *)
(***************************************************************************)
EXTENDS DeviceData, Sequences, FiniteSets

CONSTANTS
  SPIN_MAX,     \* upper end of the spin boxes (100)
  HISTORY_MAX,  \* rows of the history table (100)
  ALARMS_MAX    \* rows of the alarm table (50)

ASSUME AlarmPageAssumption == SPIN_MAX \in Nat /\ HISTORY_MAX \in Nat /\ ALARMS_MAX \in Nat

VARIABLES
  alarmLimits,   \* m_tempMaxLimit, m_humiMaxLimit
  spins,         \* the values the spin boxes show
  historyRows,   \* rows of m_tableHistory
  alarmRows,     \* rows of m_tableAlarms
  alarmCounter,  \* m_alarmCounter
  status         \* m_lblAlarmStatus: "normal", "alarm", "offline"

alarmPageVars == <<alarmLimits, spins, historyRows, alarmRows, alarmCounter, status>>

AtMost(n, bound) == IF n > bound THEN bound ELSE n
Shown(limits) == [s \in Sensors |-> AtMost(limits[s], SPIN_MAX)]

AlarmPageInit(limits) ==
  /\ alarmLimits = limits /\ spins = Shown(limits)
  /\ historyRows = 0 /\ alarmRows = 0 /\ alarmCounter = 0 /\ status = "normal"

\* triggerAlarm, onAlarmNotificationReceived: n alarms.
Alarms(n) ==
  /\ alarmCounter' = alarmCounter + n
  /\ alarmRows' = AtMost(alarmRows + n, ALARMS_MAX)
  /\ status' = IF n > 0 THEN "alarm" ELSE status

\* updateSensorData, for readings that come together: an alarm for every value of one
\* that is above its limit.
AlarmPageShows(readings) ==
  /\ historyRows' = AtMost(historyRows + 2 * Len(readings), HISTORY_MAX)
  /\ Alarms(Cardinality({above \in (DOMAIN readings) \X Sensors :
                          above[2] \in Over(readings[above[1]], alarmLimits)}))
  /\ UNCHANGED <<alarmLimits, spins>>

AlarmPageNotified == Alarms(1) /\ UNCHANGED <<alarmLimits, spins, historyRows>>

ClearAlarms == alarmRows' = 0 /\ alarmCounter' = 0

\* The button that empties the history.
AlarmPageClear ==
  /\ historyRows' = 0 /\ ClearAlarms /\ status' = "normal"
  /\ UNCHANGED <<alarmLimits, spins>>

OnlineIsNormal(connected) == IF connected THEN "normal" ELSE "offline"
OfflineOnly(connected) == IF connected THEN status ELSE "offline"

\* The label of a disconnect stays until the next alarm or clear.
AlarmPageStatus(connected) ==
  /\ status' = OfflineOnly(connected)
  /\ UNCHANGED <<alarmLimits, spins, historyRows, alarmRows, alarmCounter>>

\* updateThresholds: the spin boxes clamp what they show, without a signal.
AlarmPageThresholds(limits) ==
  /\ alarmLimits' = limits /\ spins' = Shown(limits)
  /\ UNCHANGED <<historyRows, alarmRows, alarmCounter, status>>
=============================================================================
