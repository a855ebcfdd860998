---------------------------- MODULE OverviewPage ----------------------------
(***************************************************************************)
(* The two gauges of OverviewPage.  A reading sets the target; a timer     *)
(* moves the needle towards it and stops when it is there.  A disconnect   *)
(* sets the target to zero without starting the timer.                     *)
(***************************************************************************)
EXTENDS DeviceData

VARIABLES
  needle,             \* m_currentTemp, m_currentHumi
  target,             \* m_targetTemp, m_targetHumi
  lamps,              \* the sensors with m_tempAlarm, m_humiAlarm
  animating,          \* m_animTimer is active
  overviewConnected,  \* m_isConnected
  overviewLimits      \* m_tempMaxLimit, m_humiMaxLimit

overviewVars == <<needle, target, lamps, animating, overviewConnected, overviewLimits>>

OverviewInit(limits) ==
  /\ needle = Zero /\ target = Zero /\ lamps = {}
  /\ animating = FALSE /\ overviewConnected = FALSE /\ overviewLimits = limits

\* The needle covers 8% of its way per tick: it passes every value in between.
Toward(v, goal) == IF v < goal THEN v + 1 ELSE IF v > goal THEN v - 1 ELSE v

Settled == needle = target

\* The timer's slot.
Animate ==
  /\ animating
  /\ needle' = [s \in Sensors |-> Toward(needle[s], target[s])]
  /\ animating' = ~Settled
  /\ UNCHANGED <<target, lamps, overviewConnected, overviewLimits>>

OverviewShows(reading) ==
  /\ target' = reading /\ lamps' = Over(reading, overviewLimits)
  /\ animating' = TRUE
  /\ UNCHANGED <<needle, overviewConnected, overviewLimits>>

OverviewStatus(connected) ==
  /\ overviewConnected' = connected
  /\ target' = IF connected THEN target ELSE Zero
  /\ UNCHANGED <<needle, lamps, animating, overviewLimits>>

\* The lamps follow the needle, not the reading.
OverviewThresholds(limits) ==
  /\ overviewLimits' = limits /\ lamps' = Over(needle, limits)
  /\ UNCHANGED <<needle, target, animating, overviewConnected>>
=============================================================================
