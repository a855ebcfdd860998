----------------------------- MODULE TrendPage -----------------------------
(***************************************************************************)
(* The chart and the SQLite history of TrendPage.  The chart holds the     *)
(* points of the last X_WINDOW seconds of the connection, the table        *)
(* sensor_log the newest DB_MAX points of all.  Seconds are read from the  *)
(* wall clock, which may be put back.                                      *)
(***************************************************************************)
EXTENDS Integers, Sequences, FiniteSets

CONSTANTS X_WINDOW, CHART_MAX, DB_MAX

ASSUME TrendAssumption ==
  X_WINDOW \in Nat /\ CHART_MAX \in Nat \ {0} /\ DB_MAX \in Nat \ {0}

VARIABLES
  chart,           \* m_bufSecAbs with m_bufTemp, m_bufHumi: [second, id]
  startTimestamp,  \* m_startTimestamp, 0: none
  sensor_log,      \* ids in the data base
  lastId,          \* the data base's AUTOINCREMENT
  setBack          \* history: the clock was put back since startTimestamp was taken

trendVars == <<chart, startTimestamp, sensor_log, lastId, setBack>>

TrendInit ==
  /\ chart = <<>> /\ startTimestamp = 0 /\ sensor_log = {} /\ lastId = 0
  /\ setBack = FALSE

\* DELETE of the oldest beyond DB_MAX.
Rotated(log) ==
  {id \in log : Cardinality({k \in log : k > id}) < DB_MAX}

Whole(points, second) == points
\* The oldest points are dropped until one is in the window; the newest always is.
InWindow(points, second) ==
  LET first == CHOOSE i \in DOMAIN points :
                 /\ second - points[i].second <= X_WINDOW
                 /\ \A k \in 1 .. i - 1 : second - points[k].second > X_WINDOW
  IN  SubSeq(points, first, Len(points))

Newest(points) ==
  IF Len(points) > CHART_MAX
    THEN SubSeq(points, Len(points) - CHART_MAX + 1, Len(points)) ELSE points

\* One reading is appended, then the oldest points are dropped.
Drawn(points, point) == Newest(InWindow(Append(points, point), point.second))

\* updateSensorData for the n readings that come together, one or two, at time now.
TrendShows(n, now) ==
  LET start == IF startTimestamp = 0 THEN now ELSE startTimestamp
      point(k) == [second |-> now - start, id |-> lastId + k]
      one == Drawn(chart, point(1))
  IN  /\ startTimestamp' = start
      /\ chart' = IF n = 1 THEN one ELSE Drawn(one, point(2))
      /\ lastId' = lastId + n
      /\ sensor_log' = Rotated(sensor_log \union (lastId + 1 .. lastId + n))
      /\ UNCHANGED setBack

TrendStatus(connected) ==
  /\ IF connected THEN UNCHANGED <<chart, startTimestamp, setBack>>
     ELSE chart' = <<>> /\ startTimestamp' = 0 /\ setBack' = FALSE
  /\ UNCHANGED <<sensor_log, lastId>>

TrendClockSetBack ==
  /\ setBack' = (startTimestamp # 0)
  /\ UNCHANGED <<chart, startTimestamp, sensor_log, lastId>>
=============================================================================
