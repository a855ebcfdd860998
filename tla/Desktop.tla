------------------------------ MODULE Desktop ------------------------------
(***************************************************************************)
(* The main window of the desktop: mainWidget with its four pages over one *)
(* MQTT session.                                                           *)
(*                                                                         *)
(* Qt delivers one event at a time and the signals between the objects are *)
(* direct calls: one action per click, edit, timer and client signal, with *)
(* everything the slots behind it do.  The client is the abstract          *)
(* MqttSession that MqttConnection implements, with cleanSession.  The     *)
(* cloud is external: it keeps the limits it is sent, tells every          *)
(* subscriber, and sends what it keeps to a new one.                       *)
(***************************************************************************)
EXTENDS OverviewPage, TrendPage, AlarmPage

CONSTANTS
  Configs,       \* what the fields of the settings page may hold: [temp, humi]
  NoTopic,       \* an empty topic field
  SensorValues,  \* values the sensors send
  ServerLimits,  \* limits other programs set in the cloud
  MaxConnects, MaxMessages, MaxEdits, MaxClock    \* bounds

SensorTopics == (UNION {{c.temp, c.humi} : c \in Configs}) \ {NoTopic}
AlarmTopic == "gateway/alarm"
ThresholdTopic == "gateway/thresholds"
Topics == SensorTopics \union {AlarmTopic, ThresholdTopic}

ASSUME DesktopAssumption ==
  /\ SensorTopics \intersect {AlarmTopic, ThresholdTopic} = {}
  /\ ServerLimits \subseteq Readings /\ SensorValues \subseteq 0 .. MaxValue
  /\ \A limit \in {1, SPIN_MAX} \union {l["temperature"] : l \in ServerLimits} : limit < MaxValue
  /\ MaxConnects \in Nat /\ MaxMessages \in Nat /\ MaxEdits \in Nat /\ MaxClock \in Nat

VARIABLES
  state,             \* the client's state
  handlers,          \* per topic, the lambdas connected to its active subscription
  settingsConnected, \* SettingsPage::m_isConnected
  embskyConfig,      \* m_embskyConfig
  last,              \* m_lastTemperature, m_lastHumidity
  limits,            \* m_tempMaxLimit, m_humiMaxLimit
  toCloud, toDesktop,\* messages on their way: subscriptions and limits
  retained,          \* cloud: the limits it keeps, <<>> or <<limits>>
  subscriber,        \* cloud: the subscriptions of this connection are made
  clock,             \* currentSecsSinceEpoch
  connects,          \* history: connections begun
  messages, edits    \* history: messages received, edits of limits

client == <<state, handlers, settingsConnected, embskyConfig>>
cloud == <<toCloud, toDesktop, retained, subscriber>>
pages == <<overviewVars, trendVars, alarmPageVars>>
vars == <<client, cloud, pages, last, limits, clock, connects, messages, edits>>

subscribed == {t \in Topics : handlers[t] # <<>>}
Session == INSTANCE MqttSession

InitialLimits == [s \in Sensors |-> 1]
\* A message to the cloud is <<limits>>, or this one.
Subscription == <<>>
NoHandlers == [t \in Topics |-> <<>>]

Init ==
  /\ state = "Disconnected" /\ handlers = NoHandlers
  /\ settingsConnected = FALSE /\ embskyConfig = [temp |-> NoTopic, humi |-> NoTopic]
  /\ OverviewInit(InitialLimits) /\ TrendInit /\ AlarmPageInit(InitialLimits)
  /\ last = Zero /\ limits = InitialLimits
  /\ toCloud = <<>> /\ toDesktop = <<>> /\ subscriber = FALSE
  /\ retained \in {<<>>} \union {<<l>> : l \in ServerLimits}
  /\ clock = 1 /\ connects = 0 /\ messages = 0 /\ edits = 0

\* The transport is open but DISCONNECT could not be sent: no subscription is left.
Hung == state = "Connected" /\ subscribed = {}
isMqttConnected == state = "Connected"

SettingsOnly(connected) == settingsConnected' = connected /\ UNCHANGED pages
PagesStatus(connected) ==
  /\ settingsConnected' = connected
  /\ OverviewStatus(connected) /\ TrendStatus(connected) /\ AlarmPageStatus(connected)

KeptHandlers == handlers
\* cleanSubscriptions, and the end of a connection
Forgotten == NoHandlers

-----------------------------------------------------------------------------
(* The connection *)

\* onConnectClicked while not connected, with the required fields filled in.  The client
\* ignores connectToHost unless it is disconnected; the configuration is stored anyway.
onEmbskyConnectRequested(config) ==
  /\ ~settingsConnected /\ connects < MaxConnects
  /\ embskyConfig' = config
  /\ IF state = "Disconnected"
       THEN handlers' = Forgotten /\ Session!Begin /\ connects' = connects + 1
       ELSE UNCHANGED <<state, handlers, connects>>
  /\ UNCHANGED <<settingsConnected, cloud, pages, last, limits, clock, messages, edits>>

\* subscribe and connect: a topic that is subscribed yields the same object.
Connected(table, topic, slot) ==
  IF topic = NoTopic THEN table ELSE [table EXCEPT ![topic] = Append(@, slot)]

\* In the order of the code.
subscribeTopics ==
  LET temperature == Connected(handlers, embskyConfig.temp, "temperature")
      sensors == Connected(temperature, embskyConfig.humi, "humidity")
      alarm == Connected(sensors, AlarmTopic, "alarm")
  IN  handlers' = Connected(alarm, ThresholdTopic, "thresholds")

onMqttConnected ==
  /\ state = "Connecting" /\ state' = "Connected"
  /\ PagesStatus(TRUE) /\ subscribeTopics
  /\ toCloud' = <<Subscription>>
  /\ UNCHANGED <<embskyConfig, toDesktop, retained, subscriber, last, limits, clock>>
  /\ UNCHANGED <<connects, messages, edits>>

Cut == toCloud' = <<>> /\ toDesktop' = <<>> /\ subscriber' = FALSE /\ UNCHANGED retained

\* onMqttError and onMqttDisconnected: refused, lost, or closed by the peer.
onMqttDisconnected ==
  /\ handlers' = Forgotten /\ Session!End
  /\ PagesStatus(FALSE) /\ Cut
  /\ UNCHANGED <<embskyConfig, last, limits, clock, connects, messages, edits>>

\* onConnectClicked while connected.  If DISCONNECT cannot be sent, only the settings
\* page changes.
onEmbskyDisconnectRequested ==
  /\ settingsConnected
  /\ handlers' = Forgotten /\ Cut
  /\ \/ Session!End /\ PagesStatus(FALSE)
     \/ Session!Unsubscribe /\ settingsConnected' = FALSE /\ UNCHANGED pages
  /\ UNCHANGED <<embskyConfig, last, limits, clock, connects, messages, edits>>

-----------------------------------------------------------------------------
(* Messages *)

Delivered(topic) ==
  /\ isMqttConnected /\ subscriber /\ topic \in subscribed
  /\ messages < MaxMessages /\ messages' = messages + 1
  /\ UNCHANGED <<client, cloud, limits, clock, connects, edits>>

\* The pages take the readings one after the other.
processReceivedData(readings) ==
  /\ OverviewShows(readings[Len(readings)])
  /\ TrendShows(Len(readings), clock)
  /\ AlarmPageShows(readings)

\* Each handler of the topic stores the value as its sensor's and hands over a packet
\* with the last value of the other sensor.  A topic has one handler, or that of each sensor.
onSensorData(topic, value) ==
  /\ Delivered(topic)
  /\ LET n == Len(handlers[topic])
         stored(k) == [s \in Sensors |-> IF \E j \in 1 .. k : handlers[topic][j] = s
                                         THEN value ELSE last[s]]
     IN  last' = stored(n) /\ processReceivedData([k \in 1 .. n |-> stored(k)])

onAlarmMessage ==
  /\ Delivered(AlarmTopic) /\ AlarmPageNotified
  /\ UNCHANGED <<overviewVars, trendVars, last>>

\* The limits are stored and shown on both pages.
ThresholdsBecome(new) ==
  limits' = new /\ OverviewThresholds(new) /\ AlarmPageThresholds(new)

onThresholdsMessage ==
  /\ isMqttConnected /\ toDesktop # <<>>
  /\ ThresholdsBecome(Head(toDesktop)) /\ toDesktop' = Tail(toDesktop)
  /\ UNCHANGED <<client, toCloud, retained, subscriber, trendVars, last, clock>>
  /\ UNCHANGED <<connects, messages, edits>>

-----------------------------------------------------------------------------
(* The user *)

Unsent(new) == UNCHANGED toCloud
\* Nothing is sent while not connected.
sendThresholdConfig(new) ==
  toCloud' = IF isMqttConnected /\ ~Hung THEN Append(toCloud, <<new>>) ELSE toCloud

\* A spin box signals only a value other than the one it shows.
onThresholdsChanged(sensor, value) ==
  /\ edits < MaxEdits /\ edits' = edits + 1
  /\ value # spins[sensor] /\ value <= SPIN_MAX
  /\ LET new == [alarmLimits EXCEPT ![sensor] = value]
     IN  ThresholdsBecome(new) /\ sendThresholdConfig(new)
  /\ UNCHANGED <<client, toDesktop, retained, subscriber, trendVars, last, clock>>
  /\ UNCHANGED <<connects, messages>>

\* A reading above the limit that no sensor sent.
onManualAlarmRequested ==
  /\ isMqttConnected /\ messages < MaxMessages /\ messages' = messages + 1
  /\ processReceivedData(<<[s \in Sensors |-> IF s = "temperature" THEN limits[s] + 1 ELSE 1]>>)
  /\ UNCHANGED <<client, cloud, last, limits, clock, connects, edits>>

onClearHistoryRequested ==
  /\ <<alarmCounter, historyRows, status>> # <<0, 0, "normal">>
  /\ AlarmPageClear
  /\ UNCHANGED <<client, cloud, overviewVars, trendVars, last, limits, clock>>
  /\ UNCHANGED <<connects, messages, edits>>

OverviewTimer ==
  /\ Animate
  /\ UNCHANGED <<client, cloud, trendVars, alarmPageVars, last, limits, clock>>
  /\ UNCHANGED <<connects, messages, edits>>

Second ==
  /\ clock < MaxClock /\ clock' = clock + 1
  /\ UNCHANGED <<client, cloud, pages, last, limits, connects, messages, edits>>

\* The wall clock is adjusted.
ClockSetBack(time) ==
  /\ time < clock /\ clock' = time
  /\ TrendClockSetBack
  /\ UNCHANGED <<client, cloud, overviewVars, alarmPageVars, last, limits>>
  /\ UNCHANGED <<connects, messages, edits>>

-----------------------------------------------------------------------------
(* The cloud *)

Keep(new) ==
  retained' = <<new>> /\ toDesktop' = IF subscriber THEN Append(toDesktop, new) ELSE toDesktop

CloudTakes ==
  /\ toCloud # <<>> /\ toCloud' = Tail(toCloud)
  /\ IF Head(toCloud) = Subscription
       THEN subscriber' = TRUE /\ toDesktop' = toDesktop \o retained /\ UNCHANGED retained
       ELSE Keep(Head(toCloud)[1]) /\ UNCHANGED subscriber
  /\ UNCHANGED <<client, pages, last, limits, clock, connects, messages, edits>>

\* Another program sets the limits.
CloudSets(new) ==
  /\ edits < MaxEdits /\ edits' = edits + 1
  /\ Keep(new)
  /\ UNCHANGED <<client, toCloud, subscriber, pages, last, limits, clock, connects, messages>>

-----------------------------------------------------------------------------
User ==
  \/ \E config \in Configs : onEmbskyConnectRequested(config)
  \/ onEmbskyDisconnectRequested
  \/ \E sensor \in Sensors, value \in 0 .. SPIN_MAX : onThresholdsChanged(sensor, value)
  \/ onManualAlarmRequested \/ onClearHistoryRequested

Events ==
  \/ onMqttConnected \/ onMqttDisconnected
  \/ \E topic \in SensorTopics, value \in SensorValues : onSensorData(topic, value)
  \/ onAlarmMessage \/ onThresholdsMessage
  \/ OverviewTimer \/ Second \/ \E time \in 1 .. MaxClock : ClockSetBack(time)

Next == User \/ Events \/ CloudTakes \/ \E new \in ServerLimits : CloudSets(new)

Spec == Init /\ [][Next]_vars
-----------------------------------------------------------------------------
TypeOK ==
  /\ state \in {"Disconnected", "Connecting", "Connected"}
  /\ handlers \in [Topics -> Seq({"temperature", "humidity", "alarm", "thresholds"})]
  /\ {settingsConnected, overviewConnected, animating, setBack} \subseteq BOOLEAN
  /\ needle \in Readings /\ target \in Readings /\ last \in Readings
  /\ {limits, overviewLimits, alarmLimits, spins} \subseteq Readings
  /\ lamps \subseteq Sensors
  /\ status \in {"normal", "alarm", "offline"}
  /\ alarmRows \in 0 .. ALARMS_MAX /\ historyRows \in 0 .. HISTORY_MAX
  /\ Len(chart) <= CHART_MAX /\ Cardinality(sensor_log) <= DB_MAX

\* The pages know of the client's connection, whatever the order of clicks and events: all of
\* them while there is one, and none shows an alarm or a chart of one that is over.  Where a
\* disconnect could not be sent the button alone is wrong (mainwidget.cpp:134).
PagesAgree ==
  /\ settingsConnected = (isMqttConnected /\ ~Hung)
  /\ overviewConnected = isMqttConnected
  /\ status = "alarm" \/ startTimestamp # 0 => isMqttConnected

\* Over any number of connections a message reaches one handler per sensor
\* (mainwidget.cpp:207 subscribes and connects again on each).
OneHandlerEach ==
  \A slot \in {"temperature", "humidity", "alarm", "thresholds"} :
    Cardinality({place \in Topics \X (1 .. 8) :
                   /\ place[2] \in DOMAIN handlers[place[1]]
                   /\ handlers[place[1]][place[2]] = slot}) <= 1

\* When nothing is on its way the desktop has the limits the cloud keeps, whatever was
\* edited here or elsewhere, with or without a connection.
ThresholdsConverge ==
  isMqttConnected /\ ~Hung /\ toCloud = <<>> /\ toDesktop = <<>> /\ retained # <<>> =>
    {limits, overviewLimits, alarmLimits} = {retained[1]}

\* The chart shows the newest points without a gap, of the present connection only.  They
\* reach back at most a window from the newest unless the chart is full, and are all in order
\* and in that window unless the wall clock was put back since the first (trendpage.cpp:367).
ChartIsCurrent ==
  /\ TypeOK
  /\ ~isMqttConnected => chart = <<>>
  /\ \A k \in DOMAIN chart : chart[k].id = lastId - Len(chart) + k
  /\ chart # <<>> =>
       Len(chart) = CHART_MAX \/ chart[Len(chart)].second - chart[1].second <= X_WINDOW
  /\ ~setBack => \A i, k \in DOMAIN chart : i < k =>
       /\ chart[i].second <= chart[k].second
       /\ chart[k].second - chart[i].second <= X_WINDOW

\* The label is normal only when no alarm has come since the tables were emptied.
NormalMeansNoAlarm == status = "normal" => alarmCounter = 0 /\ alarmRows = 0
=============================================================================
