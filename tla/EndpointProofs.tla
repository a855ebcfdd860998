--------------------------- MODULE EndpointProofs ---------------------------
(***************************************************************************)
(* Theorems about the two ends of the data path: the desktop that shows    *)
(* the readings (Desktop) and the node that takes them (Firmware).         *)
(*                                                                         *)
(* Desktop, for every set of topics and configurations, every limit,       *)
(* window and size of a table, and any number of connections, messages     *)
(* and edits.  The invariant is built in layers, each inductive over the   *)
(* ones before it: the session and what the pages believe of it (Wired),   *)
(* the limits here, in the cloud and on their way between (LimitsInStep),  *)
(* what the pages show (Displayed, Labelled), and the chart and its data   *)
(* base under a clock that may be put back (Charted).                      *)
(*                                                                         *)
(* Firmware, for every set of readings and payloads and any length of the  *)
(* line.  That frames are read in step is not inductive: the invariant     *)
(* needs the run of the parser over the characters that are still on the   *)
(* line (Reads), which every text of the module extends by a run from one  *)
(* end of a frame to another (FramesWhole).  That the program and the      *)
(* module are in step needs, for each instruction, the command the module  *)
(* works on and how many of the characters that end a wait are still on    *)
(* the line (Handshake).                                                   *)
(***************************************************************************)
EXTENDS Desktop, Firmware, FiniteSetTheorems, SequenceTheorems, WellFoundedInduction, TLAPS

-----------------------------------------------------------------------------
(* The desktop *)

Slots == {"temperature", "humidity", "alarm", "thresholds"}
Tables == [Topics -> Seq(Slots)]

\* A slot is connected to one topic at most, and once.
Once(table) ==
  \A t, u \in Topics : \A j \in DOMAIN table[t], k \in DOMAIN table[u] :
    table[t][j] = table[u][k] => t = u /\ j = k

Unconnected(table, slot) == \A t \in Topics : \A j \in DOMAIN table[t] : table[t][j] # slot

\* A topic of the sensors has no handler but theirs, and so two at most.
SensorsOnly(table) ==
  \A t \in SensorTopics : \A j \in DOMAIN table[t] : table[t][j] \in Sensors

PagesKnown ==
  settingsConnected = (isMqttConnected /\ ~Hung) /\ overviewConnected = isMqttConnected

\* The session: the handlers are those of one connection, and the pages know of it.
Wired ==
  /\ state \in {"Disconnected", "Connecting", "Connected"}
  /\ handlers \in Tables /\ Once(handlers) /\ SensorsOnly(handlers)
  /\ ~isMqttConnected => handlers = NoHandlers
  /\ embskyConfig.temp \in SensorTopics \union {NoTopic}
  /\ embskyConfig.humi \in SensorTopics \union {NoTopic}
  /\ settingsConnected \in BOOLEAN /\ overviewConnected \in BOOLEAN
  /\ PagesKnown

-----------------------------------------------------------------------------
(* The session. *)

LEMMA NoHandlersIs ==
  /\ NoHandlers \in Tables /\ Once(NoHandlers) /\ SensorsOnly(NoHandlers)
  /\ \A slot : Unconnected(NoHandlers, slot)
  /\ \A t \in Topics : NoHandlers[t] = <<>>
  BY DEF NoHandlers, Tables, Once, SensorsOnly, Unconnected, Topics

\* One connect of a slot that is not connected yet.
LEMMA ConnectedOnce ==
  ASSUME NEW table \in Tables, Once(table),
         NEW topic \in Topics \union {NoTopic}, NEW slot \in Slots, Unconnected(table, slot)
  PROVE  /\ Connected(table, topic, slot) \in Tables
         /\ Once(Connected(table, topic, slot))
         /\ \A other \in Slots \ {slot} :
              Unconnected(table, other) => Unconnected(Connected(table, topic, slot), other)
         /\ \A t \in Topics : table[t] # <<>> \/ (t = topic /\ topic # NoTopic) =>
              Connected(table, topic, slot)[t] # <<>>
         /\ SensorsOnly(table) /\ (topic \in SensorTopics => slot \in Sensors) =>
              SensorsOnly(Connected(table, topic, slot))
<1>1. CASE topic = NoTopic
  BY <1>1 DEF Connected
<1>2. CASE topic # NoTopic
  <2> DEFINE new == Connected(table, topic, slot)
  <2>1. topic \in Topics /\ new = [table EXCEPT ![topic] = Append(@, slot)]
    BY <1>2 DEF Connected
  <2>2. new \in Tables
    BY <2>1 DEF Tables
  <2>3. /\ \A t \in Topics \ {topic} : new[t] = table[t]
        /\ new[topic] = Append(table[topic], slot) /\ table[topic] \in Seq(Slots)
    BY <2>1 DEF Tables
  <2>4. /\ DOMAIN new[topic] = 1 .. Len(table[topic]) + 1
        /\ DOMAIN table[topic] = 1 .. Len(table[topic]) /\ Len(table[topic]) \in Nat
        /\ \A j \in DOMAIN table[topic] : new[topic][j] = table[topic][j]
        /\ new[topic][Len(table[topic]) + 1] = slot /\ new[topic] # <<>>
    BY <2>3
  <2> HIDE DEF new
  <2>5. \A t \in Topics : \A j \in DOMAIN new[t] :
           \/ j \in DOMAIN table[t] /\ new[t][j] = table[t][j]
           \/ t = topic /\ j = Len(table[topic]) + 1 /\ new[t][j] = slot
    BY <2>3, <2>4
  <2>6. Once(new)
    <3> SUFFICES ASSUME NEW t \in Topics, NEW u \in Topics, NEW j \in DOMAIN new[t],
                        NEW k \in DOMAIN new[u], new[t][j] = new[u][k]
                 PROVE  t = u /\ j = k
      BY DEF Once
    <3> QED
      BY <2>5 DEF Once, Unconnected
  <2>7. \A other \in Slots \ {slot} : Unconnected(table, other) => Unconnected(new, other)
    BY <2>5 DEF Unconnected
  <2>8. \A t \in Topics : table[t] # <<>> \/ (t = topic /\ topic # NoTopic) => new[t] # <<>>
    BY <2>3, <2>4
  <2>9. SensorsOnly(table) /\ (topic \in SensorTopics => slot \in Sensors) => SensorsOnly(new)
    BY <2>5 DEF SensorsOnly, Topics
  <2> QED
    BY <2>2, <2>6, <2>7, <2>8, <2>9 DEF new
<1> QED
  BY <1>1, <1>2

\* From a session without handlers subscribeTopics connects every slot once at most, and
\* leaves a topic subscribed.
LEMMA SubscribeOnce ==
  ASSUME Wired, handlers = NoHandlers, subscribeTopics
  PROVE  /\ handlers' \in Tables /\ Once(handlers') /\ SensorsOnly(handlers')
         /\ \E t \in Topics : handlers'[t] # <<>>
<1> DEFINE temperature == Connected(handlers, embskyConfig.temp, "temperature")
           sensors == Connected(temperature, embskyConfig.humi, "humidity")
           alarm == Connected(sensors, AlarmTopic, "alarm")
           all == Connected(alarm, ThresholdTopic, "thresholds")
<1>1. /\ embskyConfig.temp \in Topics \union {NoTopic} /\ embskyConfig.humi \in Topics \union {NoTopic}
      /\ AlarmTopic \in Topics /\ ThresholdTopic \in Topics /\ AlarmTopic # ThresholdTopic
      /\ AlarmTopic \notin SensorTopics /\ ThresholdTopic \notin SensorTopics
  BY DesktopAssumption DEF Wired, Topics, AlarmTopic, ThresholdTopic
<1>2. handlers' = all
  BY DEF subscribeTopics
<1>3. /\ handlers \in Tables /\ Once(handlers) /\ \A slot \in Slots : Unconnected(handlers, slot)
      /\ SensorsOnly(handlers)
  BY NoHandlersIs
<1>4. {"temperature", "humidity", "alarm", "thresholds"} = Slots /\ Sensors = {"temperature", "humidity"}
  BY DEF Slots, Sensors
<1> HIDE DEF all
<1>5. /\ temperature \in Tables /\ Once(temperature) /\ SensorsOnly(temperature)
      /\ \A slot \in Slots \ {"temperature"} : Unconnected(temperature, slot)
  BY <1>1, <1>3, <1>4, ConnectedOnce
<1> HIDE DEF temperature
<1>6. /\ sensors \in Tables /\ Once(sensors) /\ SensorsOnly(sensors)
      /\ \A slot \in Slots \ {"temperature", "humidity"} : Unconnected(sensors, slot)
  BY <1>1, <1>4, <1>5, ConnectedOnce
<1> HIDE DEF sensors
<1>7. /\ alarm \in Tables /\ Once(alarm) /\ SensorsOnly(alarm) /\ Unconnected(alarm, "thresholds")
      /\ AlarmTopic # NoTopic => alarm[AlarmTopic] # <<>>
  BY <1>1, <1>4, <1>6, ConnectedOnce
<1> HIDE DEF alarm
<1>8. /\ all \in Tables /\ Once(all) /\ SensorsOnly(all)
      /\ \A t \in Topics : alarm[t] # <<>> \/ (t = ThresholdTopic /\ ThresholdTopic # NoTopic) => all[t] # <<>>
  BY <1>1, <1>4, <1>7, ConnectedOnce DEF all
<1> QED
  BY <1>1, <1>2, <1>7, <1>8

\* At the start nothing is connected.
LEMMA WiredInit == Init => Wired
<1> SUFFICES ASSUME Init PROVE Wired
  OBVIOUS
<1>1. state = "Disconnected" /\ handlers = NoHandlers /\ ~settingsConnected /\ ~overviewConnected
  BY DEF Init, OverviewInit
<1>2. settingsConnected \in BOOLEAN /\ overviewConnected \in BOOLEAN
  BY DEF Init, OverviewInit
<1>3. embskyConfig.temp = NoTopic /\ embskyConfig.humi = NoTopic
  BY DEF Init
<1> QED
  BY <1>1, <1>2, <1>3, NoHandlersIs DEF Wired, isMqttConnected, PagesKnown

\* A step that leaves the session and the button alone.
LEMMA WiredUntouched ==
  ASSUME Wired, UNCHANGED <<client, overviewConnected>>
  PROVE  Wired'
  BY DEF Wired, client, isMqttConnected, PagesKnown, Hung, subscribed, Tables

LEMMA WiredConnectRequested ==
  ASSUME Wired, NEW config \in Configs, onEmbskyConnectRequested(config)
  PROVE  Wired'
<1>1. /\ embskyConfig'.temp \in SensorTopics \union {NoTopic}
      /\ embskyConfig'.humi \in SensorTopics \union {NoTopic}
  <2>1. {config.temp, config.humi} \in {{c.temp, c.humi} : c \in Configs}
    OBVIOUS
  <2>2. config.temp \in SensorTopics \union {NoTopic} /\ config.humi \in SensorTopics \union {NoTopic}
    BY <2>1 DEF SensorTopics
  <2> QED
    BY <2>2 DEF onEmbskyConnectRequested
<1>2. ~settingsConnected /\ UNCHANGED <<settingsConnected, overviewConnected>>
  BY DEF onEmbskyConnectRequested, pages, overviewVars
<1>3. CASE state = "Disconnected"
  <2>1. state' = "Connecting" /\ handlers' = NoHandlers
    BY <1>3 DEF onEmbskyConnectRequested, Session!Begin, Forgotten
  <2>2. settingsConnected' = FALSE /\ overviewConnected' = FALSE
    BY <1>2, <1>3 DEF Wired, PagesKnown, Hung, isMqttConnected
  <2>3. handlers' \in Tables /\ Once(handlers') /\ SensorsOnly(handlers')
    BY <2>1, NoHandlersIs
  <2> QED
    BY <1>1, <2>1, <2>2, <2>3 DEF Wired, PagesKnown, isMqttConnected
<1>4. CASE state # "Disconnected"
  <2>1. UNCHANGED <<state, handlers>>
    BY <1>4 DEF onEmbskyConnectRequested
  <2> QED
    BY <1>1, <1>2, <2>1 DEF Wired, PagesKnown, Hung, subscribed, isMqttConnected
<1> QED
  BY <1>3, <1>4

LEMMA WiredConnected == ASSUME Wired, onMqttConnected PROVE Wired'
<1>1. /\ state = "Connecting" /\ state' = "Connected" /\ subscribeTopics
      /\ settingsConnected' = TRUE /\ overviewConnected' = TRUE /\ UNCHANGED embskyConfig
  BY DEF onMqttConnected, PagesStatus, OverviewStatus
<1>2. handlers = NoHandlers
  BY <1>1 DEF Wired, isMqttConnected
<1>3. /\ handlers' \in Tables /\ Once(handlers') /\ SensorsOnly(handlers')
      /\ \E t \in Topics : handlers'[t] # <<>>
  BY <1>1, <1>2, SubscribeOnce
<1>4. isMqttConnected' /\ ~Hung'
  BY <1>1, <1>3 DEF isMqttConnected, Hung, subscribed
<1> QED
  BY <1>1, <1>3, <1>4 DEF Wired, PagesKnown, isMqttConnected

LEMMA WiredDisconnected == ASSUME Wired, onMqttDisconnected PROVE Wired'
<1>1. /\ state' = "Disconnected" /\ handlers' = NoHandlers
      /\ settingsConnected' = FALSE /\ overviewConnected' = FALSE /\ UNCHANGED embskyConfig
  BY DEF onMqttDisconnected, PagesStatus, OverviewStatus, Session!End, Forgotten
<1>2. handlers' \in Tables /\ Once(handlers') /\ SensorsOnly(handlers')
  BY <1>1, NoHandlersIs
<1> QED
  BY <1>1, <1>2 DEF Wired, PagesKnown, isMqttConnected

\* If DISCONNECT cannot be sent the client stays connected without a subscription: the
\* button alone tells of it.
LEMMA WiredDisconnectRequested == ASSUME Wired, onEmbskyDisconnectRequested PROVE Wired'
<1>1. handlers' = NoHandlers /\ settingsConnected /\ UNCHANGED embskyConfig
  BY DEF onEmbskyDisconnectRequested, Forgotten
<1>2. handlers' \in Tables /\ Once(handlers') /\ SensorsOnly(handlers') /\ subscribed' = {}
  BY <1>1, NoHandlersIs DEF subscribed
<1>3. CASE Session!End /\ PagesStatus(FALSE)
  <2>1. state' = "Disconnected" /\ settingsConnected' = FALSE /\ overviewConnected' = FALSE
    BY <1>3 DEF Session!End, PagesStatus, OverviewStatus
  <2> QED
    BY <1>1, <1>2, <2>1 DEF Wired, PagesKnown, isMqttConnected
<1>4. CASE Session!Unsubscribe /\ settingsConnected' = FALSE /\ UNCHANGED pages
  <2>1. state = "Connected"
    BY <1>1 DEF Wired, PagesKnown, Hung, isMqttConnected
  <2>2. state' = "Connected" /\ UNCHANGED overviewConnected
    BY <1>4, <2>1 DEF Session!Unsubscribe, pages, overviewVars
  <2> QED
    BY <1>1, <1>2, <1>4, <2>2 DEF Wired, PagesKnown, Hung, isMqttConnected
<1> QED
  BY <1>3, <1>4 DEF onEmbskyDisconnectRequested

LEMMA WiredStep == Wired /\ [Next]_vars => Wired'
<1> SUFFICES ASSUME Wired, [Next]_vars PROVE Wired'
  OBVIOUS
<1>1. CASE User
  <2>1. CASE \E config \in Configs : onEmbskyConnectRequested(config)
    BY <2>1, WiredConnectRequested
  <2>2. CASE onEmbskyDisconnectRequested
    BY <2>2, WiredDisconnectRequested
  <2>3. CASE \E which \in Sensors, value \in 0 .. SPIN_MAX : onThresholdsChanged(which, value)
    BY <2>3, WiredUntouched DEF onThresholdsChanged, ThresholdsBecome, OverviewThresholds
  <2>4. CASE onManualAlarmRequested
    BY <2>4, WiredUntouched DEF onManualAlarmRequested, processReceivedData, OverviewShows
  <2>5. CASE onClearHistoryRequested
    BY <2>5, WiredUntouched DEF onClearHistoryRequested, overviewVars
  <2> QED
    BY <1>1, <2>1, <2>2, <2>3, <2>4, <2>5 DEF User
<1>2. CASE Events
  <2>1. CASE onMqttConnected
    BY <2>1, WiredConnected
  <2>2. CASE onMqttDisconnected
    BY <2>2, WiredDisconnected
  <2>3. CASE \E topic \in SensorTopics, value \in SensorValues : onSensorData(topic, value)
    BY <2>3, WiredUntouched DEF onSensorData, Delivered, processReceivedData, OverviewShows
  <2>4. CASE onAlarmMessage
    BY <2>4, WiredUntouched DEF onAlarmMessage, Delivered, overviewVars
  <2>5. CASE onThresholdsMessage
    BY <2>5, WiredUntouched DEF onThresholdsMessage, ThresholdsBecome, OverviewThresholds
  <2>6. CASE OverviewTimer
    BY <2>6, WiredUntouched DEF OverviewTimer, Animate
  <2>7. CASE Second
    BY <2>7, WiredUntouched DEF Second, pages, overviewVars
  <2>8. CASE \E time \in 1 .. MaxClock : ClockSetBack(time)
    BY <2>8, WiredUntouched DEF ClockSetBack, overviewVars
  <2> QED
    BY <1>2, <2>1, <2>2, <2>3, <2>4, <2>5, <2>6, <2>7, <2>8 DEF Events
<1>3. CASE CloudTakes
  BY <1>3, WiredUntouched DEF CloudTakes, pages, overviewVars
<1>4. CASE \E new \in ServerLimits : CloudSets(new)
  BY <1>4, WiredUntouched DEF CloudSets, pages, overviewVars
<1>5. CASE UNCHANGED vars
  BY <1>5, WiredUntouched DEF vars, pages, overviewVars
<1> QED
  BY <1>1, <1>2, <1>3, <1>4, <1>5 DEF Next

\* A handler has one place at most, which is what OneHandlerEach counts.
LEMMA OnceIsOneHandler == Wired => OneHandlerEach
<1> SUFFICES ASSUME Wired, NEW slot \in Slots
             PROVE  Cardinality({place \in Topics \X (1 .. 8) :
                                   /\ place[2] \in DOMAIN handlers[place[1]]
                                   /\ handlers[place[1]][place[2]] = slot}) <= 1
  BY DEF OneHandlerEach, Slots
<1> DEFINE places == {place \in Topics \X (1 .. 8) :
                        /\ place[2] \in DOMAIN handlers[place[1]]
                        /\ handlers[place[1]][place[2]] = slot}
<1>1. ASSUME NEW p \in places, NEW q \in places PROVE p = q
  BY DEF Wired, Once
<1> HIDE DEF places
<1>2. places = {} \/ \E p : places = {p}
  BY <1>1
<1>3. Cardinality(places) <= 1
  BY <1>2, FS_EmptySet, FS_Singleton
<1> QED
  BY <1>3 DEF places

-----------------------------------------------------------------------------
(* The limits. *)

Limits == {l \in Readings : l["temperature"] < MaxValue}
Orders == {Subscription} \union {<<l>> : l \in Limits}

\* The connection that the user sees: not the one whose DISCONNECT could not be sent.
Served == isMqttConnected /\ ~Hung

\* The limits here, in the cloud and on their way.  Until the cloud has taken the
\* subscription it is the first message under way, and nothing comes back; afterwards
\* the last message that comes back carries what the cloud keeps.
LimitsInStep ==
  /\ limits \in Limits /\ overviewLimits = limits /\ alarmLimits = limits
  /\ toCloud \in Seq(Orders) /\ toDesktop \in Seq(Limits)
  /\ retained \in {<<>>} \union {<<l>> : l \in Limits} /\ subscriber \in BOOLEAN
  /\ ~Served => toCloud = <<>> /\ toDesktop = <<>> /\ ~subscriber
  /\ Served /\ ~subscriber => toDesktop = <<>> /\ toCloud # <<>> /\ toCloud[1] = Subscription
  /\ \A j \in 1 .. Len(toCloud) : toCloud[j] = Subscription => j = 1 /\ ~subscriber
  /\ toDesktop # <<>> => retained = <<toDesktop[Len(toDesktop)]>>
  /\ subscriber /\ toCloud = <<>> /\ toDesktop = <<>> /\ retained # <<>> => limits = retained[1]

\* A message with limits is not the subscription.
LEMMA OrdersDiffer ==
  /\ \A l : <<l>> # Subscription /\ <<l>>[1] = l
  /\ \A order \in Orders : order # Subscription => order[1] \in Limits /\ order = <<order[1]>>
  BY DEF Orders, Subscription

\* What the server and the user may set leaves room for a reading above it.
LEMMA LimitsAre ==
  /\ InitialLimits \in Limits /\ ServerLimits \subseteq Limits
  /\ \A l \in Limits, which \in Sensors, value \in 0 .. SPIN_MAX : [l EXCEPT ![which] = value] \in Limits
<1>1. /\ MaxValue \in Nat /\ 1 < MaxValue /\ SPIN_MAX \in Nat /\ SPIN_MAX < MaxValue
      /\ \A l \in ServerLimits : l \in Readings /\ l["temperature"] < MaxValue
  BY DesktopAssumption, ValueAssumption, AlarmPageAssumption
<1> QED
  BY <1>1 DEF Limits, Readings, Sensors, InitialLimits

LEMMA NothingUnderWay == <<>> \in Seq(Orders) /\ <<>> \in Seq(Limits) /\ Len(<<>>) = 0
  OBVIOUS

LEMMA LimitsInit == Init => LimitsInStep
<1> SUFFICES ASSUME Init PROVE LimitsInStep
  OBVIOUS
<1>1. /\ limits = InitialLimits /\ overviewLimits = limits /\ alarmLimits = limits
      /\ toCloud = <<>> /\ toDesktop = <<>> /\ subscriber = FALSE /\ ~Served
  BY DEF Init, OverviewInit, AlarmPageInit, Served, isMqttConnected
<1>2. retained \in {<<>>} \union {<<l>> : l \in Limits}
  BY LimitsAre DEF Init
<1>3. toCloud \in Seq(Orders) /\ toDesktop \in Seq(Limits) /\ 1 .. Len(toCloud) = {}
  BY <1>1, NothingUnderWay
<1>4. limits \in Limits /\ subscriber \in BOOLEAN
  BY <1>1, LimitsAre
<1> QED
  BY <1>1, <1>2, <1>3, <1>4 DEF LimitsInStep

LEMMA LimitsUntouched ==
  ASSUME LimitsInStep, UNCHANGED <<cloud, limits, overviewLimits, alarmLimits>>, Served' <=> Served
  PROVE  LimitsInStep'
  BY DEF LimitsInStep, cloud

\* A step that does not concern the limits.
LEMMA LimitsUntouchedHere ==
  ASSUME LimitsInStep, UNCHANGED <<client, cloud, limits, overviewLimits, alarmLimits>>
  PROVE  LimitsInStep'
  BY LimitsUntouched DEF Served, client, isMqttConnected, Hung, subscribed

LEMMA LimitsConnectRequested ==
  ASSUME Wired, LimitsInStep, NEW config \in Configs, onEmbskyConnectRequested(config)
  PROVE  LimitsInStep'
<1>1. UNCHANGED <<cloud, limits, overviewLimits, alarmLimits>>
  BY DEF onEmbskyConnectRequested, pages, overviewVars, alarmPageVars
<1>2. Served' <=> Served
  BY DEF onEmbskyConnectRequested, Session!Begin, Served, isMqttConnected, Hung, subscribed
<1> QED
  BY <1>1, <1>2, LimitsUntouched

\* The subscription is the first message of a connection.
LEMMA LimitsConnected == ASSUME Wired, LimitsInStep, onMqttConnected PROVE LimitsInStep'
<1>1. /\ state = "Connecting" /\ state' = "Connected" /\ subscribeTopics /\ toCloud' = <<Subscription>>
      /\ UNCHANGED <<toDesktop, retained, subscriber, limits, overviewLimits, alarmLimits>>
  BY DEF onMqttConnected, PagesStatus, OverviewStatus, AlarmPageStatus
<1>2. handlers = NoHandlers /\ ~Served
  BY <1>1 DEF Wired, Served, isMqttConnected
<1>3. PICK t \in Topics : handlers'[t] # <<>>
  BY <1>1, <1>2, SubscribeOnce
<1>4. Served'
  BY <1>1, <1>3 DEF Served, isMqttConnected, Hung, subscribed
<1>5. /\ toCloud' \in Seq(Orders) /\ Len(toCloud') = 1 /\ toCloud' # <<>> /\ toCloud'[1] = Subscription
  BY <1>1 DEF Orders
<1>6. toDesktop = <<>> /\ ~subscriber
  BY <1>2 DEF LimitsInStep
<1> QED
  BY <1>1, <1>4, <1>5, <1>6 DEF LimitsInStep

\* The end of a connection loses everything under way.
LEMMA LimitsCut ==
  ASSUME LimitsInStep, Cut, ~Served', UNCHANGED <<limits, overviewLimits, alarmLimits>>
  PROVE  LimitsInStep'
<1>1. /\ toCloud' = <<>> /\ toDesktop' = <<>> /\ subscriber' = FALSE /\ UNCHANGED retained
      /\ toCloud' \in Seq(Orders) /\ toDesktop' \in Seq(Limits) /\ 1 .. Len(toCloud') = {}
  BY NothingUnderWay DEF Cut
<1> QED
  BY <1>1 DEF LimitsInStep

LEMMA LimitsDisconnected == ASSUME LimitsInStep, onMqttDisconnected PROVE LimitsInStep'
<1>1. Cut /\ ~Served' /\ UNCHANGED <<limits, overviewLimits, alarmLimits>>
  BY DEF onMqttDisconnected, PagesStatus, OverviewStatus, AlarmPageStatus, Session!End, Served, isMqttConnected
<1> QED
  BY <1>1, LimitsCut

LEMMA LimitsDisconnectRequested == ASSUME LimitsInStep, onEmbskyDisconnectRequested PROVE LimitsInStep'
<1>1. Cut /\ UNCHANGED limits /\ handlers' = NoHandlers
  BY DEF onEmbskyDisconnectRequested, Forgotten
<1>2. UNCHANGED <<overviewLimits, alarmLimits>>
  BY DEF onEmbskyDisconnectRequested, PagesStatus, OverviewStatus, AlarmPageStatus, pages, overviewVars, alarmPageVars
<1>3. ~Served'
  BY <1>1, NoHandlersIs DEF Served, isMqttConnected, Hung, subscribed
<1> QED
  BY <1>1, <1>2, <1>3, LimitsCut

\* The first message that comes back is taken; when it was the last one it is what the
\* cloud keeps.
LEMMA LimitsMessage == ASSUME LimitsInStep, onThresholdsMessage PROVE LimitsInStep'
<1>1. /\ toDesktop # <<>> /\ toDesktop' = Tail(toDesktop) /\ limits' = Head(toDesktop)
      /\ overviewLimits' = limits' /\ alarmLimits' = limits'
      /\ UNCHANGED <<client, toCloud, retained, subscriber>>
  BY DEF onThresholdsMessage, ThresholdsBecome, OverviewThresholds, AlarmPageThresholds
<1>2. Served' <=> Served
  BY <1>1 DEF Served, client, isMqttConnected, Hung, subscribed
<1>3. toDesktop \in Seq(Limits) /\ limits' \in Limits /\ toDesktop' \in Seq(Limits)
  BY <1>1 DEF LimitsInStep
<1>4. CASE toDesktop' = <<>>
  <2>1. Len(toDesktop) = 1
    <3>1. Len(toDesktop') = Len(toDesktop) - 1 /\ Len(toDesktop) \in Nat
      BY <1>1, <1>3
    <3>2. Len(toDesktop') = 0
      BY <1>4, NothingUnderWay
    <3> QED
      BY <3>1, <3>2
  <2>2. retained = <<limits'>> /\ limits' = retained'[1]
    BY <1>1, <1>3, <2>1 DEF LimitsInStep
  <2> QED
    BY <1>1, <1>2, <1>3, <1>4, <2>2 DEF LimitsInStep
<1>5. CASE toDesktop' # <<>>
  <2>1. toDesktop'[Len(toDesktop')] = toDesktop[Len(toDesktop)]
    BY <1>1, <1>3, <1>5
  <2> QED
    BY <1>1, <1>2, <1>3, <1>5, <2>1 DEF LimitsInStep
<1> QED
  BY <1>4, <1>5

\* An edit is sent while it can be, and then a message is under way.
LEMMA LimitsChanged ==
  ASSUME LimitsInStep, NEW which \in Sensors, NEW value \in 0 .. SPIN_MAX, onThresholdsChanged(which, value)
  PROVE  LimitsInStep'
<1> DEFINE new == [alarmLimits EXCEPT ![which] = value]
<1>1. /\ limits' = new /\ overviewLimits' = new /\ alarmLimits' = new
      /\ toCloud' = IF Served THEN Append(toCloud, <<new>>) ELSE toCloud
      /\ UNCHANGED <<client, toDesktop, retained, subscriber>>
  BY DEF onThresholdsChanged, ThresholdsBecome, OverviewThresholds, AlarmPageThresholds,
         sendThresholdConfig, Served
<1>2. Served' <=> Served
  BY <1>1 DEF Served, client, isMqttConnected, Hung, subscribed
<1>3. new \in Limits /\ <<new>> \in Orders /\ <<new>> # Subscription
  BY LimitsAre, OrdersDiffer DEF LimitsInStep, Orders
<1> HIDE DEF new
<1>4. CASE Served
  <2>1. /\ toCloud' \in Seq(Orders) /\ Len(toCloud') = Len(toCloud) + 1 /\ Len(toCloud) \in Nat
        /\ \A j \in 1 .. Len(toCloud) : toCloud'[j] = toCloud[j]
        /\ toCloud'[Len(toCloud) + 1] # Subscription /\ toCloud' # <<>>
    BY <1>1, <1>3, <1>4 DEF LimitsInStep
  <2>2. \A j \in 1 .. Len(toCloud') : toCloud'[j] = Subscription => j = 1 /\ ~subscriber
    BY <2>1 DEF LimitsInStep
  <2>3. toCloud # <<>> => toCloud'[1] = toCloud[1]
    BY <2>1 DEF LimitsInStep
  <2> QED
    BY <1>1, <1>2, <1>3, <1>4, <2>1, <2>2, <2>3 DEF LimitsInStep
<1>5. CASE ~Served
  BY <1>1, <1>2, <1>3, <1>5 DEF LimitsInStep
<1> QED
  BY <1>4, <1>5

\* The cloud keeps new limits, and tells the desktop once it is subscribed.
LEMMA LimitsKeep ==
  ASSUME LimitsInStep, NEW new \in Limits, Keep(new), UNCHANGED <<subscriber, client>>,
         UNCHANGED <<limits, overviewLimits, alarmLimits>>,
         toCloud' \in Seq(Orders),
         Served /\ ~subscriber => toCloud' # <<>> /\ toCloud'[1] = Subscription,
         ~Served => toCloud' = <<>>,
         \A j \in 1 .. Len(toCloud') : toCloud'[j] = Subscription => j = 1 /\ ~subscriber
  PROVE  LimitsInStep'
<1>1. Served' <=> Served
  BY DEF Served, client, isMqttConnected, Hung, subscribed
<1>2. retained' = <<new>> /\ retained' \in {<<>>} \union {<<l>> : l \in Limits}
  BY DEF Keep
<1>3. CASE subscriber
  <2>1. /\ toDesktop' \in Seq(Limits) /\ toDesktop' # <<>>
        /\ toDesktop'[Len(toDesktop')] = new
    BY <1>3 DEF Keep, LimitsInStep
  <2>2. Served
    BY <1>3 DEF LimitsInStep
  <2> QED
    BY <1>1, <1>2, <1>3, <2>1, <2>2 DEF LimitsInStep
<1>4. CASE ~subscriber
  <2>1. toDesktop' = toDesktop /\ toDesktop = <<>>
    BY <1>4 DEF Keep, LimitsInStep
  <2> QED
    BY <1>1, <1>2, <1>4, <2>1 DEF LimitsInStep
<1> QED
  BY <1>3, <1>4 DEF LimitsInStep

LEMMA LimitsCloudTakes == ASSUME LimitsInStep, CloudTakes PROVE LimitsInStep'
<1>1. /\ toCloud # <<>> /\ toCloud' = Tail(toCloud)
      /\ UNCHANGED <<client, limits, overviewLimits, alarmLimits>>
  BY DEF CloudTakes, pages, overviewVars, alarmPageVars
<1>2. /\ toCloud' \in Seq(Orders) /\ Len(toCloud') = Len(toCloud) - 1 /\ Len(toCloud) \in Nat
      /\ \A j \in 1 .. Len(toCloud') : toCloud'[j] = toCloud[j + 1]
      /\ Head(toCloud) = toCloud[1] /\ toCloud[1] \in Orders
  BY <1>1 DEF LimitsInStep
<1>3. \A j \in 1 .. Len(toCloud') : toCloud'[j] # Subscription
  BY <1>2 DEF LimitsInStep
<1>4. Served /\ (Served' <=> Served)
  BY <1>1 DEF LimitsInStep, Served, client, isMqttConnected, Hung, subscribed
<1>5. CASE Head(toCloud) = Subscription
  <2>1. subscriber' = TRUE /\ toDesktop' = toDesktop \o retained /\ UNCHANGED retained
    BY <1>5 DEF CloudTakes
  <2>2. ~subscriber /\ toDesktop = <<>>
    BY <1>2, <1>4, <1>5 DEF LimitsInStep
  <2>3. /\ toDesktop' = retained /\ retained \in Seq(Limits)
        /\ retained # <<>> => Len(retained) = 1 /\ retained = <<retained[1]>>
    <3>1. CASE retained = <<>>
      BY <2>1, <2>2, <3>1
    <3>2. CASE retained # <<>>
      <4>1. PICK l \in Limits : retained = <<l>>
        BY <3>2 DEF LimitsInStep
      <4> QED
        BY <2>1, <2>2, <4>1
    <3> QED
      BY <3>1, <3>2
  <2> QED
    BY <1>1, <1>2, <1>3, <1>4, <2>1, <2>3 DEF LimitsInStep
<1>6. CASE Head(toCloud) # Subscription
  <2>1. Keep(Head(toCloud)[1]) /\ UNCHANGED subscriber
    BY <1>6 DEF CloudTakes
  <2>2. Head(toCloud)[1] \in Limits
    BY <1>2, <1>6, OrdersDiffer
  <2>3. subscriber
    BY <1>2, <1>4, <1>6 DEF LimitsInStep
  <2> QED
    BY <1>1, <1>2, <1>3, <1>4, <2>1, <2>2, <2>3, LimitsKeep
<1> QED
  BY <1>5, <1>6

LEMMA LimitsCloudSets ==
  ASSUME LimitsInStep, NEW new \in ServerLimits, CloudSets(new)
  PROVE  LimitsInStep'
<1>1. Keep(new) /\ UNCHANGED <<subscriber, client, toCloud, limits, overviewLimits, alarmLimits>>
  BY DEF CloudSets, pages, overviewVars, alarmPageVars
<1> QED
  BY <1>1, LimitsAre, LimitsKeep DEF LimitsInStep

LEMMA LimitsStep == Wired /\ LimitsInStep /\ [Next]_vars => LimitsInStep'
<1> SUFFICES ASSUME Wired, LimitsInStep, [Next]_vars PROVE LimitsInStep'
  OBVIOUS
<1>1. CASE User
  <2>1. CASE \E config \in Configs : onEmbskyConnectRequested(config)
    BY <2>1, LimitsConnectRequested
  <2>2. CASE onEmbskyDisconnectRequested
    BY <2>2, LimitsDisconnectRequested
  <2>3. CASE \E which \in Sensors, value \in 0 .. SPIN_MAX : onThresholdsChanged(which, value)
    BY <2>3, LimitsChanged
  <2>4. CASE onManualAlarmRequested
    BY <2>4, LimitsUntouchedHere
      DEF onManualAlarmRequested, processReceivedData, OverviewShows, AlarmPageShows
  <2>5. CASE onClearHistoryRequested
    BY <2>5, LimitsUntouchedHere DEF onClearHistoryRequested, overviewVars, AlarmPageClear
  <2> QED
    BY <1>1, <2>1, <2>2, <2>3, <2>4, <2>5 DEF User
<1>2. CASE Events
  <2>1. CASE onMqttConnected
    BY <2>1, LimitsConnected
  <2>2. CASE onMqttDisconnected
    BY <2>2, LimitsDisconnected
  <2>3. CASE \E topic \in SensorTopics, value \in SensorValues : onSensorData(topic, value)
    BY <2>3, LimitsUntouchedHere
      DEF onSensorData, Delivered, processReceivedData, OverviewShows, AlarmPageShows
  <2>4. CASE onAlarmMessage
    BY <2>4, LimitsUntouchedHere DEF onAlarmMessage, Delivered, overviewVars, AlarmPageNotified
  <2>5. CASE onThresholdsMessage
    BY <2>5, LimitsMessage
  <2>6. CASE OverviewTimer
    BY <2>6, LimitsUntouchedHere DEF OverviewTimer, Animate, alarmPageVars
  <2>7. CASE Second
    BY <2>7, LimitsUntouchedHere DEF Second, pages, overviewVars, alarmPageVars
  <2>8. CASE \E time \in 1 .. MaxClock : ClockSetBack(time)
    BY <2>8, LimitsUntouchedHere DEF ClockSetBack, overviewVars, alarmPageVars
  <2> QED
    BY <1>2, <2>1, <2>2, <2>3, <2>4, <2>5, <2>6, <2>7, <2>8 DEF Events
<1>3. CASE CloudTakes
  BY <1>3, LimitsCloudTakes
<1>4. CASE \E new \in ServerLimits : CloudSets(new)
  BY <1>4, LimitsCloudSets
<1>5. CASE UNCHANGED vars
  BY <1>5, LimitsUntouchedHere DEF vars, pages, overviewVars, alarmPageVars
<1> QED
  BY <1>1, <1>2, <1>3, <1>4, <1>5 DEF Next

LEMMA InStepConverges == LimitsInStep => ThresholdsConverge
  BY DEF LimitsInStep, ThresholdsConverge, Served

-----------------------------------------------------------------------------
(* The chart and the data base. *)

Points == [second : Int, id : Nat]

\* Points that end with the id given out last, without a gap, and reach back a window at
\* most unless the chart is full.
ChartOf(points, id) ==
  /\ points \in Seq(Points) /\ Len(points) <= CHART_MAX
  /\ \A j \in 1 .. Len(points) : points[j].id = id - Len(points) + j
  /\ points # <<>> =>
       Len(points) = CHART_MAX \/ points[Len(points)].second - points[1].second <= X_WINDOW

\* What a clock that only goes forward adds.
InOrder(points, second) ==
  /\ \A j, k \in 1 .. Len(points) : j < k => points[j].second <= points[k].second
  /\ \A j \in 1 .. Len(points) : points[j].second <= second
  /\ \A j \in 1 .. Len(points) : points[Len(points)].second - points[j].second <= X_WINDOW

\* The chart's points are of this connection and those with the newest ids; until the clock
\* is put back they are in order, in the window of the newest, and not of the future.
Charted ==
  /\ ChartOf(chart, lastId)
  /\ clock \in Nat \ {0} /\ startTimestamp \in Nat /\ lastId \in Nat /\ setBack \in BOOLEAN
  /\ ~isMqttConnected => startTimestamp = 0
  /\ startTimestamp = 0 => chart = <<>> /\ ~setBack
  /\ ~setBack => startTimestamp <= clock /\ InOrder(chart, clock - startTimestamp)
  /\ sensor_log \subseteq 1 .. lastId /\ Cardinality(sensor_log) <= DB_MAX

LEMMA NoPointsAre ==
  ASSUME NEW id \in Nat, NEW second \in Int
  PROVE  ChartOf(<<>>, id) /\ InOrder(<<>>, second)
<1>1. <<>> \in Seq(Points) /\ Len(<<>>) = 0
  OBVIOUS
<1> QED
  BY <1>1, TrendAssumption DEF ChartOf, InOrder

LEMMA LeastExists ==
  ASSUME NEW S \in SUBSET Nat, S # {}
  PROVE  \E n \in S : \A k \in S : n <= k
<1>1. PICK n \in S : \A k \in S : <<k, n>> \notin OpToRel(<, Nat)
  BY NatLessThanWellFounded, WFMin
<1>2. \A k \in S : ~(k < n)
  BY <1>1 DEF OpToRel
<1> QED
  BY <1>2

LEMMA PointIs ==
  ASSUME NEW points \in Seq(Points), NEW j \in 1 .. Len(points)
  PROVE  points[j] \in Points /\ points[j].second \in Int /\ points[j].id \in Nat
<1>1. points[j] \in Points
  OBVIOUS
<1> QED
  BY <1>1 DEF Points

LEMMA AppendIs ==
  ASSUME NEW points \in Seq(Points), NEW point \in Points
  PROVE  LET all == Append(points, point)
         IN  /\ all \in Seq(Points) /\ all # <<>> /\ Len(all) = Len(points) + 1
             /\ \A j \in 1 .. Len(points) : all[j] = points[j]
             /\ all[Len(points) + 1] = point
<1> HIDE DEF Points
<1> QED
  OBVIOUS

\* What is dropped from the front ends before the newest point, which is in the window.
LEMMA InWindowIs ==
  ASSUME NEW points \in Seq(Points), points # <<>>, NEW second \in Int,
         points[Len(points)].second = second
  PROVE  \E first \in 1 .. Len(points) :
           /\ InWindow(points, second) = SubSeq(points, first, Len(points))
           /\ second - points[first].second <= X_WINDOW
<1> DEFINE P(j) == /\ second - points[j].second <= X_WINDOW
                   /\ \A k \in 1 .. j - 1 : second - points[k].second > X_WINDOW
           S == {j \in 1 .. Len(points) : second - points[j].second <= X_WINDOW}
<1>1. /\ Len(points) \in Nat \ {0} /\ DOMAIN points = 1 .. Len(points) /\ X_WINDOW \in Nat
      /\ \A j \in 1 .. Len(points) : points[j].second \in Int
  BY PointIs, TrendAssumption
<1>2. S \in SUBSET Nat /\ Len(points) \in S
  BY <1>1
<1>3. PICK n \in S : \A k \in S : n <= k
  BY <1>2, LeastExists
<1>4. \A k \in 1 .. n - 1 : k \in 1 .. Len(points) /\ k \notin S
  BY <1>1, <1>3
<1>5. n \in DOMAIN points /\ P(n)
  BY <1>1, <1>3, <1>4
<1> DEFINE first == CHOOSE j \in DOMAIN points : P(j)
<1>6. first \in DOMAIN points /\ P(first)
  <2> HIDE DEF P
  <2> QED
    BY <1>5
<1>7. InWindow(points, second) = SubSeq(points, first, Len(points))
  BY DEF InWindow
<1> HIDE DEF first
<1> QED
  BY <1>1, <1>6, <1>7

\* `shown` is the end of `points` that is on the chart: from the first in the window of the
\* newest on, or as many as it has room for.
EndOf(points, second, shown) ==
  /\ shown \in Seq(Points) /\ Len(shown) <= CHART_MAX
  /\ \E first \in 1 .. Len(points), from \in 0 .. Len(points) - 1 :
       /\ first <= from + 1 /\ second - points[first].second <= X_WINDOW
       /\ first = from + 1 \/ Len(shown) = CHART_MAX
       /\ Len(shown) = Len(points) - from
       /\ \A j \in 1 .. Len(shown) : shown[j] = points[from + j]

\* The last m elements of a longer sequence.
LEMMA LastIs ==
  ASSUME NEW S, NEW s \in Seq(S), NEW m \in Nat \ {0}, Len(s) > m
  PROVE  LET lastOnes == SubSeq(s, Len(s) - m + 1, Len(s))
         IN  /\ lastOnes \in Seq(S) /\ Len(lastOnes) = m
             /\ \A j \in 1 .. m : lastOnes[j] = s[Len(s) - m + j]
  OBVIOUS

\* That is what a reading leaves of the points.
LEMMA ShownIs ==
  ASSUME NEW points \in Seq(Points), points # <<>>, NEW second \in Int,
         points[Len(points)].second = second
  PROVE  EndOf(points, second, Newest(InWindow(points, second)))
<1> DEFINE shown == Newest(InWindow(points, second))
<1> SUFFICES EndOf(points, second, shown)
  OBVIOUS
<1>1. PICK first \in 1 .. Len(points) :
        /\ InWindow(points, second) = SubSeq(points, first, Len(points))
        /\ second - points[first].second <= X_WINDOW
  BY InWindowIs
<1> DEFINE window == SubSeq(points, first, Len(points))
<1>2. /\ window \in Seq(Points) /\ Len(window) = Len(points) - first + 1
      /\ \A j \in 1 .. Len(window) : window[j] = points[first - 1 + j]
      /\ Len(points) \in Nat \ {0} /\ CHART_MAX \in Nat \ {0}
  BY TrendAssumption
<1>3. shown = Newest(window)
  BY <1>1
<1> HIDE DEF window, shown
<1>4. CASE Len(window) > CHART_MAX
  <2> DEFINE from == Len(points) - CHART_MAX
             end == SubSeq(window, Len(window) - CHART_MAX + 1, Len(window))
  <2>1. /\ end \in Seq(Points) /\ Len(end) = CHART_MAX
        /\ \A j \in 1 .. CHART_MAX : end[j] = window[Len(window) - CHART_MAX + j]
    BY <1>2, <1>4, LastIs
  <2>2. shown = end
    BY <1>3, <1>4 DEF Newest
  <2> HIDE DEF end
  <2>3. from \in 0 .. Len(points) - 1 /\ Len(shown) = Len(points) - from /\ first <= from + 1
    BY <1>2, <1>4, <2>1, <2>2
  <2>4. ASSUME NEW j \in 1 .. Len(shown) PROVE shown[j] = points[from + j]
    <3> DEFINE at == Len(window) - CHART_MAX + j
    <3>1. shown[j] = window[at] /\ at \in 1 .. Len(window)
      BY <1>2, <1>4, <2>1, <2>2
    <3>2. window[at] = points[first - 1 + at] /\ first - 1 + at = from + j
      <4>1. first - 1 + at = from + j
        BY <1>2
      <4> HIDE DEF at
      <4> QED
        BY <1>2, <3>1, <4>1
    <3> QED
      BY <3>1, <3>2
  <2>5. shown \in Seq(Points) /\ Len(shown) = CHART_MAX
    BY <2>1, <2>2
  <2>6. shown \in Seq(Points) /\ Len(shown) = CHART_MAX /\ Len(shown) <= CHART_MAX
    BY <1>2, <2>5
  <2> HIDE DEF from
  <2> QED
    BY <1>1, <2>3, <2>4, <2>6 DEF EndOf
<1>5. CASE ~(Len(window) > CHART_MAX)
  <2> DEFINE from == first - 1
  <2>1. shown = window /\ from \in 0 .. Len(points) - 1 /\ from + 1 = first
    BY <1>2, <1>3, <1>5 DEF Newest
  <2>2. Len(shown) = Len(points) - from /\ \A j \in 1 .. Len(shown) : shown[j] = points[from + j]
    BY <1>2, <2>1
  <2>3. shown \in Seq(Points) /\ Len(shown) <= CHART_MAX
    BY <1>2, <1>5, <2>1
  <2> HIDE DEF from
  <2>4. first <= from + 1
    BY <2>1
  <2> QED
    BY <1>1, <2>1, <2>2, <2>3, <2>4 DEF EndOf
<1> QED
  BY <1>4, <1>5

\* One reading more, whatever the clock says; the order stays when it is no earlier than
\* the points before it.
LEMMA DrawnIs ==
  ASSUME NEW points, NEW id \in Nat, ChartOf(points, id), NEW second \in Int
  PROVE  LET new == Drawn(points, [second |-> second, id |-> id + 1])
         IN  /\ ChartOf(new, id + 1)
             /\ InOrder(points, second) => InOrder(new, second)
<1> DEFINE point == [second |-> second, id |-> id + 1]
           all == Append(points, point)
           new == Drawn(points, point)
<1>1. point \in Points /\ point.second = second /\ point.id = id + 1
  BY DEF Points
<1>2. /\ points \in Seq(Points) /\ Len(points) \in Nat
      /\ \A j \in 1 .. Len(points) : points[j].id = id - Len(points) + j
  BY DEF ChartOf
<1>3. new = Newest(InWindow(all, second))
  BY <1>1 DEF Drawn
<1> HIDE DEF point, new
<1>4. /\ all \in Seq(Points) /\ all # <<>> /\ Len(all) = Len(points) + 1
      /\ \A j \in 1 .. Len(points) : all[j] = points[j]
      /\ all[Len(points) + 1] = point
  BY <1>1, <1>2, AppendIs
<1> HIDE DEF all
<1>5. ASSUME NEW j \in 1 .. Len(all)
      PROVE  all[j].second \in Int /\ all[j].id = id + 1 - Len(all) + j
  <2>1. all[j].second \in Int
    BY <1>4, PointIs
  <2>2. CASE j = Len(all)
    BY <1>1, <1>2, <1>4, <2>1, <2>2
  <2>3. CASE j # Len(all)
    <3>1. j \in 1 .. Len(points) /\ all[j] = points[j]
      BY <1>2, <1>4, <2>3
    <3> QED
      BY <1>2, <1>4, <2>1, <3>1
  <2> QED
    BY <2>2, <2>3
<1>6. all[Len(all)].second = second
  BY <1>1, <1>2, <1>4
<1>7. EndOf(all, second, new)
  BY <1>3, <1>4, <1>6, ShownIs
<1>8. PICK first \in 1 .. Len(all), from \in 0 .. Len(all) - 1 :
        /\ first <= from + 1 /\ second - all[first].second <= X_WINDOW
        /\ first = from + 1 \/ Len(new) = CHART_MAX
        /\ Len(new) = Len(all) - from
        /\ \A j \in 1 .. Len(new) : new[j] = all[from + j]
  BY <1>7 DEF EndOf
<1>9. /\ Len(new) \in 1 .. Len(all) /\ from + Len(new) = Len(all)
      /\ \A j \in 1 .. Len(new) : from + j \in 1 .. Len(all)
  BY <1>2, <1>4, <1>8
<1>10. new[Len(new)] = all[Len(all)] /\ new[1] = all[from + 1]
  BY <1>4, <1>8, <1>9
<1>11. ChartOf(new, id + 1)
  <2>1. new \in Seq(Points) /\ Len(new) <= CHART_MAX
    BY <1>7 DEF EndOf
  <2>2. \A j \in 1 .. Len(new) : new[j].id = id + 1 - Len(new) + j
    BY <1>4, <1>5, <1>8, <1>9
  <2>3. Len(new) = CHART_MAX \/ new[Len(new)].second - new[1].second <= X_WINDOW
    BY <1>6, <1>8, <1>10
  <2> QED
    BY <2>1, <2>2, <2>3 DEF ChartOf
<1>12. ASSUME InOrder(points, second) PROVE InOrder(new, second)
  <2>1. ASSUME NEW j \in 1 .. Len(all) PROVE all[j].second <= second
    <3>1. CASE j = Len(all)
      BY <1>1, <1>4, <1>6, <3>1
    <3>2. CASE j # Len(all)
      <4>1. j \in 1 .. Len(points) /\ all[j] = points[j]
        BY <1>2, <1>4, <3>2
      <4> QED
        BY <1>12, <4>1 DEF InOrder
    <3> QED
      BY <3>1, <3>2
  <2>2. ASSUME NEW j \in 1 .. Len(all), NEW k \in 1 .. Len(all), j < k
        PROVE  all[j].second <= all[k].second
    <3>1. CASE k = Len(all)
      BY <1>6, <2>1, <3>1
    <3>2. CASE k # Len(all)
      <4>1. j \in 1 .. Len(points) /\ k \in 1 .. Len(points) /\ all[j] = points[j] /\ all[k] = points[k]
        BY <1>2, <1>4, <2>2, <3>2
      <4> QED
        BY <1>12, <2>2, <4>1 DEF InOrder
    <3> QED
      BY <3>1, <3>2
  <2>3. ASSUME NEW j \in 1 .. Len(new), NEW k \in 1 .. Len(new), j < k
        PROVE  new[j].second <= new[k].second
    <3>1. from + j \in 1 .. Len(all) /\ from + k \in 1 .. Len(all) /\ from + j < from + k
      BY <1>9, <2>3
    <3>2. new[j] = all[from + j] /\ new[k] = all[from + k]
      BY <1>8
    <3> QED
      BY <2>2, <3>1, <3>2
  <2>4. \A j \in 1 .. Len(new) : new[j].second <= second
    BY <1>8, <1>9, <2>1
  <2>5. ASSUME NEW j \in 1 .. Len(new) PROVE second - new[j].second <= X_WINDOW
    <3>1. all[first].second <= all[from + j].second
      <4>1. CASE first = from + j
        BY <1>5, <4>1
      <4>2. CASE first < from + j
        BY <1>9, <2>2, <4>2
      <4> QED
        BY <1>8, <4>1, <4>2
    <3> DEFINE a == all[first].second
               b == all[from + j].second
    <3>2. a \in Int /\ b \in Int /\ a <= b /\ second - a <= X_WINDOW
      BY <1>5, <1>8, <1>9, <3>1
    <3> HIDE DEF a, b
    <3>3. second - b <= X_WINDOW
      BY <3>2, TrendAssumption
    <3> QED
      BY <1>8, <3>3 DEF b
  <2> QED
    BY <1>6, <1>10, <2>3, <2>4, <2>5 DEF InOrder
<1> QED
  BY <1>11, <1>12 DEF new, point

\* Of the rows that stay the oldest has fewer than DB_MAX newer ones.
LEMMA RotatedIs ==
  ASSUME NEW log \in SUBSET Nat, IsFiniteSet(log)
  PROVE  Rotated(log) \subseteq log /\ Cardinality(Rotated(log)) <= DB_MAX
<1> DEFINE kept == Rotated(log)
<1>1. kept \subseteq log /\ \A id \in kept : Cardinality({k \in log : k > id}) < DB_MAX
  BY DEF Rotated
<1>2. IsFiniteSet(kept) /\ Cardinality(kept) \in Nat /\ DB_MAX \in Nat \ {0}
  BY <1>1, FS_Subset, FS_CardinalityType, TrendAssumption
<1> HIDE DEF kept
<1>3. ASSUME kept = {} PROVE Cardinality(kept) <= DB_MAX
  BY <1>2, <1>3, FS_EmptySet
<1>4. ASSUME kept # {} PROVE Cardinality(kept) <= DB_MAX
  <2>1. PICK oldest \in kept : \A id \in kept : oldest <= id
    BY <1>1, <1>4, LeastExists
  <2> DEFINE newer == {k \in log : k > oldest}
  <2>2. kept \ {oldest} \subseteq newer
    BY <1>1, <2>1
  <2>3. IsFiniteSet(newer) /\ Cardinality(newer) \in Nat
    BY FS_Subset, FS_CardinalityType
  <2>4. Cardinality(newer) < DB_MAX
    BY <1>1, <2>1
  <2> HIDE DEF newer
  <2>5. Cardinality(kept \ {oldest}) <= Cardinality(newer)
    BY <2>2, <2>3, FS_Subset
  <2>6. Cardinality(kept \ {oldest}) = Cardinality(kept) - 1
    BY <1>2, <2>1, FS_RemoveElement
  <2> QED
    BY <1>2, <2>3, <2>4, <2>5, <2>6
<1> QED
  BY <1>1, <1>3, <1>4 DEF kept

LEMMA ChartedInit == Init => Charted
<1> SUFFICES ASSUME Init PROVE Charted
  OBVIOUS
<1>1. chart = <<>> /\ startTimestamp = 0 /\ sensor_log = {} /\ lastId = 0 /\ setBack = FALSE /\ clock = 1
  BY DEF Init, TrendInit
<1>2. ChartOf(chart, lastId) /\ InOrder(chart, clock - startTimestamp)
  BY <1>1, NoPointsAre
<1>3. Cardinality(sensor_log) = 0
  BY <1>1, FS_EmptySet
<1>4. setBack \in BOOLEAN
  BY <1>1
<1> QED
  BY <1>1, <1>2, <1>3, <1>4, TrendAssumption DEF Charted

LEMMA ChartedUntouched ==
  ASSUME Charted, UNCHANGED <<trendVars, clock>>, isMqttConnected => isMqttConnected'
  PROVE  Charted'
  BY DEF Charted, trendVars, ChartOf, InOrder

\* The points are drawn one after the other; the first of a connection sets its start.
LEMMA ChartedShows ==
  ASSUME Charted, NEW n \in {1, 2}, TrendShows(n, clock), UNCHANGED <<clock, state>>,
         isMqttConnected
  PROVE  Charted'
<1> DEFINE start == IF startTimestamp = 0 THEN clock ELSE startTimestamp
           second == clock - start
           one == Drawn(chart, [second |-> second, id |-> lastId + 1])
           two == Drawn(one, [second |-> second, id |-> lastId + 2])
<1>1. /\ start \in Nat \ {0} /\ second \in Int /\ clock \in Nat \ {0} /\ lastId \in Nat
      /\ ~setBack => start <= clock /\ InOrder(chart, second)
  <2>1. CASE startTimestamp = 0
    BY <2>1, NoPointsAre DEF Charted
  <2>2. CASE startTimestamp # 0
    BY <2>2 DEF Charted
  <2> QED
    BY <2>1, <2>2
<1>2. /\ startTimestamp' = start /\ chart' = IF n = 1 THEN one ELSE two
      /\ lastId' = lastId + n /\ UNCHANGED setBack
      /\ sensor_log' = Rotated(sensor_log \union (lastId + 1 .. lastId + n))
  BY DEF TrendShows
<1> HIDE DEF start, second
<1>3. ChartOf(one, lastId + 1) /\ (InOrder(chart, second) => InOrder(one, second))
  BY <1>1, DrawnIs DEF Charted
<1> HIDE DEF one
<1>4. ChartOf(two, lastId + 2) /\ (InOrder(one, second) => InOrder(two, second))
  <2>1. lastId + 1 \in Nat /\ lastId + 1 + 1 = lastId + 2
    BY <1>1
  <2> HIDE DEF two
  <2>2. ASSUME NEW id \in Nat, id = lastId + 1
        PROVE  ChartOf(two, id + 1) /\ (InOrder(one, second) => InOrder(two, second))
    <3>1. two = Drawn(one, [second |-> second, id |-> id + 1]) /\ ChartOf(one, id)
      BY <1>1, <1>3, <2>2 DEF two
    <3> QED
      BY <1>1, <3>1, DrawnIs
  <2> QED
    BY <2>1, <2>2
<1> HIDE DEF two
<1>5. ChartOf(chart', lastId') /\ (~setBack => InOrder(chart', second))
  BY <1>1, <1>2, <1>3, <1>4
<1>6. /\ sensor_log' \subseteq 1 .. lastId' /\ Cardinality(sensor_log') <= DB_MAX
  <2> DEFINE log == sensor_log \union (lastId + 1 .. lastId + n)
  <2>1. log \subseteq 1 .. lastId + n
    BY <1>1 DEF Charted
  <2>2. IsFiniteSet(log) /\ log \in SUBSET Nat
    <3>1. lastId + n \in Int /\ 1 .. lastId + n \in SUBSET Nat
      BY <1>1
    <3>2. IsFiniteSet(1 .. lastId + n)
      BY <3>1, FS_Interval
    <3> QED
      BY <2>1, <3>1, <3>2, FS_Subset
  <2> HIDE DEF log
  <2>3. Rotated(log) \subseteq log /\ Cardinality(Rotated(log)) <= DB_MAX
    BY <2>2, RotatedIs
  <2> QED
    BY <1>2, <2>1, <2>3 DEF log
<1>7. /\ clock' - startTimestamp' = second /\ clock' \in Nat \ {0}
      /\ startTimestamp' \in Nat \ {0} /\ lastId' \in Nat /\ isMqttConnected'
      /\ ~setBack' => startTimestamp' <= clock'
  BY <1>1, <1>2 DEF second, isMqttConnected
<1>8. setBack' = setBack /\ setBack' \in BOOLEAN
  BY <1>2 DEF Charted
<1> QED
  BY <1>5, <1>6, <1>7, <1>8 DEF Charted

\* A second that passes leaves the points where they are.
LEMMA ChartedSecond == ASSUME Charted, Second PROVE Charted'
<1>1. clock' = clock + 1 /\ UNCHANGED <<trendVars, state>>
  BY DEF Second, client, pages
<1>2. clock \in Nat \ {0} /\ startTimestamp \in Nat
  BY DEF Charted
<1>3. UNCHANGED <<chart, startTimestamp, lastId, setBack>>
  BY <1>1 DEF trendVars
<1>4. ChartOf(chart', lastId')
  BY <1>3 DEF Charted, ChartOf
<1>5. ASSUME ~setBack PROVE InOrder(chart', clock' - startTimestamp')
  <2>1. InOrder(chart, clock - startTimestamp) /\ chart \in Seq(Points)
    BY <1>5 DEF Charted, ChartOf
  <2>2. ASSUME NEW j \in 1 .. Len(chart) PROVE chart[j].second <= clock' - startTimestamp'
    <3> DEFINE a == chart[j].second
    <3>1. a \in Int /\ a <= clock - startTimestamp
      BY <2>1, PointIs DEF InOrder
    <3> HIDE DEF a
    <3>2. a <= clock' - startTimestamp'
      BY <1>1, <1>2, <1>3, <3>1
    <3> QED
      BY <3>2 DEF a
  <2> QED
    BY <1>3, <2>1, <2>2 DEF InOrder
<1> QED
  BY <1>1, <1>2, <1>4, <1>5 DEF Charted, trendVars, isMqttConnected

\* A clock that is put back loses the order of the points to come.
LEMMA ChartedSetBack ==
  ASSUME Charted, NEW time \in 1 .. MaxClock, ClockSetBack(time)
  PROVE  Charted'
<1>1. /\ clock' = time /\ time \in Nat \ {0} /\ UNCHANGED <<chart, startTimestamp, sensor_log, lastId, state>>
      /\ setBack' = (startTimestamp # 0)
  BY DesktopAssumption DEF ClockSetBack, TrendClockSetBack, client
<1>2. setBack' \in BOOLEAN
  BY <1>1
<1>3. ChartOf(chart', lastId')
  BY <1>1 DEF Charted, ChartOf
<1>4. ASSUME ~setBack' PROVE startTimestamp' <= clock' /\ InOrder(chart', clock' - startTimestamp')
  <2>1. startTimestamp' = 0 /\ chart' = <<>>
    BY <1>1, <1>4 DEF Charted
  <2> QED
    BY <1>1, <2>1, NoPointsAre
<1> QED
  BY <1>1, <1>2, <1>3, <1>4 DEF Charted, isMqttConnected

\* The end of a connection empties the chart.
LEMMA ChartedEmptied == ASSUME Charted, TrendStatus(FALSE), UNCHANGED clock PROVE Charted'
<1>1. chart' = <<>> /\ startTimestamp' = 0 /\ setBack' = FALSE /\ UNCHANGED <<sensor_log, lastId>>
  BY DEF TrendStatus
<1>2. ChartOf(chart', lastId') /\ InOrder(chart', clock' - startTimestamp')
  BY <1>1, NoPointsAre DEF Charted
<1>3. setBack' \in BOOLEAN
  BY <1>1
<1> QED
  BY <1>1, <1>2, <1>3 DEF Charted

-----------------------------------------------------------------------------
(* What the pages show. *)

\* Gauges, limits and tables are within their ranges, and the label tells of alarms.
Displayed ==
  /\ needle \in Readings /\ target \in Readings /\ last \in Readings /\ spins \in Readings
  /\ lamps \subseteq Sensors /\ animating \in BOOLEAN
  /\ status \in {"normal", "alarm", "offline"}
  /\ alarmRows \in 0 .. ALARMS_MAX /\ historyRows \in 0 .. HISTORY_MAX /\ alarmCounter \in Nat
  /\ NormalMeansNoAlarm

LEMMA ZeroIs == Zero \in Readings
  BY ValueAssumption DEF Zero, Readings

LEMMA ShownLimitsIs == ASSUME NEW new \in Limits PROVE Shown(new) \in Readings
<1>1. MaxValue \in Nat /\ SPIN_MAX \in Nat /\ new \in [Sensors -> 0 .. MaxValue]
  BY ValueAssumption, AlarmPageAssumption DEF Limits, Readings
<1>2. \A s \in Sensors : AtMost(new[s], SPIN_MAX) \in 0 .. MaxValue
  BY <1>1 DEF AtMost
<1> QED
  BY <1>2 DEF Shown, Readings

LEMMA DisplayedInit == Init => Displayed
<1> SUFFICES ASSUME Init PROVE Displayed
  OBVIOUS
<1>1. /\ needle = Zero /\ target = Zero /\ last = Zero /\ lamps = {} /\ animating = FALSE
      /\ spins = Shown(InitialLimits) /\ historyRows = 0 /\ alarmRows = 0 /\ alarmCounter = 0
      /\ status = "normal"
  BY DEF Init, OverviewInit, AlarmPageInit
<1>2. 0 \in 0 .. ALARMS_MAX /\ 0 \in 0 .. HISTORY_MAX
  BY AlarmPageAssumption
<1> QED
  BY <1>1, <1>2, ZeroIs, LimitsAre, ShownLimitsIs DEF Displayed, NormalMeansNoAlarm

LEMMA DisplayedUntouched ==
  ASSUME Displayed, UNCHANGED <<needle, target, lamps, animating, last, spins, historyRows, alarmRows,
                                alarmCounter, status>>
  PROVE  Displayed'
  BY DEF Displayed, NormalMeansNoAlarm

\* The label turns with the first alarm.
LEMMA AlarmsShown ==
  ASSUME Displayed, NEW n \in Nat, Alarms(n)
  PROVE  /\ status' \in {"normal", "alarm", "offline"} /\ alarmRows' \in 0 .. ALARMS_MAX
         /\ alarmCounter' \in Nat /\ NormalMeansNoAlarm'
<1>1. /\ alarmCounter' = alarmCounter + n /\ alarmRows' = AtMost(alarmRows + n, ALARMS_MAX)
      /\ status' = IF n > 0 THEN "alarm" ELSE status
      /\ alarmCounter \in Nat /\ alarmRows \in 0 .. ALARMS_MAX /\ ALARMS_MAX \in Nat
  BY AlarmPageAssumption DEF Alarms, Displayed
<1>2. alarmRows' \in 0 .. ALARMS_MAX /\ alarmCounter' \in Nat /\ (n = 0 => alarmRows' = alarmRows)
  BY <1>1 DEF AtMost
<1>3. status' \in {"normal", "alarm", "offline"}
  BY <1>1 DEF Displayed
<1>4. NormalMeansNoAlarm'
  BY <1>1, <1>2 DEF Displayed, NormalMeansNoAlarm
<1> QED
  BY <1>2, <1>3, <1>4

\* Readings that come together, whatever they are.
LEMMA DisplayedShows ==
  ASSUME Displayed, NEW readings \in Seq(Readings), Len(readings) \in {1, 2}, processReceivedData(readings),
         last' \in Readings
  PROVE  Displayed'
<1> DEFINE above == {r \in (DOMAIN readings) \X Sensors : r[2] \in Over(readings[r[1]], alarmLimits)}
<1>1. Len(readings) \in Nat \ {0} /\ readings[Len(readings)] \in Readings /\ DOMAIN readings = 1 .. Len(readings)
  OBVIOUS
<1>2. Cardinality(above) \in Nat
  <2>1. IsFiniteSet(DOMAIN readings)
    BY <1>1, FS_Interval
  <2>2. IsFiniteSet(Sensors)
    <3>1. Sensors = {"temperature"} \union {"humidity"}
      BY DEF Sensors
    <3> QED
      BY <3>1, FS_Singleton, FS_AddElement
  <2>3. IsFiniteSet((DOMAIN readings) \X Sensors)
    BY <2>1, <2>2, FS_Product
  <2> QED
    BY <2>3, FS_Subset, FS_CardinalityType
<1>3. /\ target' = readings[Len(readings)] /\ lamps' = Over(readings[Len(readings)], overviewLimits)
      /\ animating' = TRUE /\ UNCHANGED <<needle, spins>>
      /\ historyRows' = AtMost(historyRows + 2 * Len(readings), HISTORY_MAX) /\ Alarms(Cardinality(above))
  BY DEF processReceivedData, OverviewShows, AlarmPageShows
<1> HIDE DEF above
<1>4. historyRows' \in 0 .. HISTORY_MAX
  BY <1>1, <1>3, AlarmPageAssumption DEF AtMost, Displayed
<1>5. lamps' \subseteq Sensors
  BY <1>3 DEF Over
<1>6. /\ status' \in {"normal", "alarm", "offline"} /\ alarmRows' \in 0 .. ALARMS_MAX
      /\ alarmCounter' \in Nat /\ NormalMeansNoAlarm'
  BY <1>2, <1>3, AlarmsShown
<1> QED
  BY <1>1, <1>3, <1>4, <1>5, <1>6 DEF Displayed

\* What the handlers of a topic hand over: a reading for each of them.
LEMMA SensorDataIs ==
  ASSUME Wired, Displayed, NEW topic \in SensorTopics, NEW value \in SensorValues, onSensorData(topic, value)
  PROVE  /\ last' \in Readings
         /\ \E readings \in Seq(Readings) : Len(readings) \in {1, 2} /\ processReceivedData(readings)
<1> DEFINE n == Len(handlers[topic])
           stored(k) == [s \in Sensors |-> IF \E j \in 1 .. k : handlers[topic][j] = s
                                           THEN value ELSE last[s]]
           readings == [k \in 1 .. n |-> stored(k)]
<1>1. last' = stored(n) /\ processReceivedData(readings) /\ topic \in subscribed
  BY DEF onSensorData, Delivered
<1>2. topic \in Topics /\ handlers[topic] \in Seq(Slots) /\ handlers[topic] # <<>>
  BY <1>1 DEF Topics, subscribed, Wired, Tables
<1>3. n \in {1, 2}
  <2> DEFINE slots == handlers[topic]
  <2>1. /\ Len(slots) \in Nat \ {0} /\ DOMAIN slots = 1 .. Len(slots)
        /\ \A j \in 1 .. Len(slots) : slots[j] \in {"temperature", "humidity"}
        /\ \A j, k \in 1 .. Len(slots) : slots[j] = slots[k] => j = k
    BY <1>2 DEF Wired, Once, SensorsOnly, Sensors
  <2> HIDE DEF slots
  <2>2. ~(Len(slots) >= 3)
    <3> SUFFICES ASSUME Len(slots) >= 3 PROVE FALSE
      OBVIOUS
    <3>1. 1 \in 1 .. Len(slots) /\ 2 \in 1 .. Len(slots) /\ 3 \in 1 .. Len(slots)
      BY <2>1
    <3> QED
      BY <2>1, <3>1
  <2>3. Len(slots) \in {1, 2}
    BY <2>1, <2>2
  <2> QED
    BY <2>3 DEF slots
<1>4. \A k \in 0 .. n : stored(k) \in Readings
  <2>1. value \in 0 .. MaxValue /\ last \in [Sensors -> 0 .. MaxValue]
    BY DesktopAssumption DEF Displayed, Readings
  <2> QED
    BY <2>1 DEF Readings
<1> HIDE DEF n, stored
<1>5. readings \in Seq(Readings) /\ Len(readings) = n
  BY <1>3, <1>4
<1>6. Len(readings) \in {1, 2}
  BY <1>3, <1>5
<1>7. last' \in Readings
  BY <1>1, <1>3, <1>4
<1> HIDE DEF readings
<1> QED
  BY <1>1, <1>5, <1>6, <1>7

\* The reading of the test button is above the limit, and there is room for it.
LEMMA ManualAlarmIs ==
  ASSUME LimitsInStep, Displayed, onManualAlarmRequested
  PROVE  /\ last' \in Readings
         /\ \E readings \in Seq(Readings) : Len(readings) = 1 /\ processReceivedData(readings)
<1> DEFINE reading == [s \in Sensors |-> IF s = "temperature" THEN limits[s] + 1 ELSE 1]
<1>1. processReceivedData(<<reading>>) /\ UNCHANGED last
  BY DEF onManualAlarmRequested
<1>2. /\ limits \in [Sensors -> 0 .. MaxValue] /\ limits["temperature"] < MaxValue
      /\ MaxValue \in Nat \ {0} /\ "temperature" \in Sensors
  BY ValueAssumption DEF LimitsInStep, Limits, Readings, Sensors
<1>3. limits["temperature"] + 1 \in 0 .. MaxValue /\ 1 \in 0 .. MaxValue
  BY <1>2
<1>4. reading \in Readings
  BY <1>3 DEF Readings
<1> HIDE DEF reading
<1>5. <<reading>> \in Seq(Readings) /\ Len(<<reading>>) = 1
  BY <1>4
<1> QED
  BY <1>1, <1>5 DEF Displayed

\* New limits move the spin boxes and the lamps.
LEMMA DisplayedThresholds ==
  ASSUME Displayed, NEW new \in Limits, ThresholdsBecome(new), UNCHANGED last
  PROVE  Displayed'
<1>1. /\ spins' = Shown(new) /\ lamps' = Over(needle, new)
      /\ UNCHANGED <<needle, target, animating, historyRows, alarmRows, alarmCounter, status>>
  BY DEF ThresholdsBecome, OverviewThresholds, AlarmPageThresholds
<1>2. spins' \in Readings /\ lamps' \subseteq Sensors
  BY <1>1, ShownLimitsIs DEF Over
<1> QED
  BY <1>1, <1>2 DEF Displayed, NormalMeansNoAlarm

LEMMA DisplayedStatus ==
  ASSUME Displayed, NEW connected \in BOOLEAN, PagesStatus(connected), UNCHANGED last
  PROVE  Displayed'
<1>1. /\ target' \in {target, Zero} /\ status' \in {status, "offline"}
      /\ UNCHANGED <<needle, lamps, animating, spins, historyRows, alarmRows, alarmCounter>>
  BY DEF PagesStatus, OverviewStatus, AlarmPageStatus, OfflineOnly
<1> QED
  BY <1>1, ZeroIs DEF Displayed, NormalMeansNoAlarm

\* The needle moves between values of the gauge.
LEMMA DisplayedTimer == ASSUME Displayed, OverviewTimer PROVE Displayed'
<1>1. /\ needle' = [s \in Sensors |-> Toward(needle[s], target[s])] /\ animating' = ~Settled
      /\ UNCHANGED <<target, lamps, last, spins, historyRows, alarmRows, alarmCounter, status>>
  BY DEF OverviewTimer, Animate, alarmPageVars
<1>2. needle \in [Sensors -> 0 .. MaxValue] /\ target \in [Sensors -> 0 .. MaxValue] /\ MaxValue \in Nat
  BY ValueAssumption DEF Displayed, Readings
<1>3. \A s \in Sensors : Toward(needle[s], target[s]) \in 0 .. MaxValue
  BY <1>2 DEF Toward
<1>4. needle' \in Readings
  BY <1>1, <1>3 DEF Readings
<1>5. animating' \in BOOLEAN
  BY <1>1
<1> QED
  BY <1>1, <1>4, <1>5 DEF Displayed, NormalMeansNoAlarm

LEMMA DisplayedNotified == ASSUME Displayed, onAlarmMessage PROVE Displayed'
<1>1. /\ Alarms(1) /\ UNCHANGED <<needle, target, lamps, animating, last, spins, historyRows>>
  BY DEF onAlarmMessage, AlarmPageNotified, overviewVars
<1> QED
  BY <1>1, AlarmsShown DEF Displayed

LEMMA DisplayedCleared == ASSUME Displayed, onClearHistoryRequested PROVE Displayed'
<1>1. /\ historyRows' = 0 /\ alarmRows' = 0 /\ alarmCounter' = 0 /\ status' = "normal"
      /\ UNCHANGED <<needle, target, lamps, animating, last, spins>>
  BY DEF onClearHistoryRequested, AlarmPageClear, ClearAlarms, overviewVars
<1> QED
  BY <1>1, AlarmPageAssumption DEF Displayed, NormalMeansNoAlarm

LEMMA DisplayedStep == Wired /\ LimitsInStep /\ Displayed /\ [Next]_vars => Displayed'
<1> SUFFICES ASSUME Wired, LimitsInStep, Displayed, [Next]_vars PROVE Displayed'
  OBVIOUS
<1> USE DEF overviewVars, alarmPageVars, pages
<1>1. CASE User
  <2>1. CASE \E config \in Configs : onEmbskyConnectRequested(config)
    BY <2>1, DisplayedUntouched DEF onEmbskyConnectRequested
  <2>2. CASE onEmbskyDisconnectRequested
    <3>1. CASE PagesStatus(FALSE)
      BY <2>2, <3>1, DisplayedStatus DEF onEmbskyDisconnectRequested
    <3>2. CASE UNCHANGED pages
      BY <2>2, <3>2, DisplayedUntouched DEF onEmbskyDisconnectRequested
    <3> QED
      BY <2>2, <3>1, <3>2 DEF onEmbskyDisconnectRequested
  <2>3. CASE \E which \in Sensors, value \in 0 .. SPIN_MAX : onThresholdsChanged(which, value)
    <3>1. PICK which \in Sensors, value \in 0 .. SPIN_MAX : onThresholdsChanged(which, value)
      BY <2>3
    <3>2. [alarmLimits EXCEPT ![which] = value] \in Limits
      BY LimitsAre DEF LimitsInStep
    <3> QED
      BY <3>1, <3>2, DisplayedThresholds DEF onThresholdsChanged
  <2>4. CASE onManualAlarmRequested
    BY <2>4, ManualAlarmIs, DisplayedShows
  <2>5. CASE onClearHistoryRequested
    BY <2>5, DisplayedCleared
  <2> QED
    BY <1>1, <2>1, <2>2, <2>3, <2>4, <2>5 DEF User
<1>2. CASE Events
  <2>1. CASE onMqttConnected
    BY <2>1, DisplayedStatus DEF onMqttConnected
  <2>2. CASE onMqttDisconnected
    BY <2>2, DisplayedStatus DEF onMqttDisconnected
  <2>3. CASE \E topic \in SensorTopics, value \in SensorValues : onSensorData(topic, value)
    BY <2>3, SensorDataIs, DisplayedShows
  <2>4. CASE onAlarmMessage
    BY <2>4, DisplayedNotified
  <2>5. CASE onThresholdsMessage
    <3>1. Head(toDesktop) \in Limits
      BY <2>5 DEF onThresholdsMessage, LimitsInStep
    <3> QED
      BY <2>5, <3>1, DisplayedThresholds DEF onThresholdsMessage
  <2>6. CASE OverviewTimer
    BY <2>6, DisplayedTimer
  <2>7. CASE Second
    BY <2>7, DisplayedUntouched DEF Second
  <2>8. CASE \E time \in 1 .. MaxClock : ClockSetBack(time)
    BY <2>8, DisplayedUntouched DEF ClockSetBack
  <2> QED
    BY <1>2, <2>1, <2>2, <2>3, <2>4, <2>5, <2>6, <2>7, <2>8 DEF Events
<1>3. CASE CloudTakes
  BY <1>3, DisplayedUntouched DEF CloudTakes
<1>4. CASE \E new \in ServerLimits : CloudSets(new)
  BY <1>4, DisplayedUntouched DEF CloudSets
<1>5. CASE UNCHANGED vars
  BY <1>5, DisplayedUntouched DEF vars
<1> QED
  BY <1>1, <1>2, <1>3, <1>4, <1>5 DEF Next

\* The label's alarm is of a connection that is not over.
Labelled == status = "alarm" => isMqttConnected

LEMMA LabelledStep == Labelled /\ [Next]_vars => Labelled'
<1> SUFFICES ASSUME Labelled, [Next]_vars PROVE Labelled'
  OBVIOUS
<1> USE DEF Labelled, isMqttConnected, client, pages, alarmPageVars
<1>1. CASE User
  <2>1. CASE \E config \in Configs : onEmbskyConnectRequested(config)
    BY <2>1 DEF onEmbskyConnectRequested, Session!Begin
  <2>2. CASE onEmbskyDisconnectRequested
    BY <2>2 DEF onEmbskyDisconnectRequested, Session!Unsubscribe, PagesStatus, AlarmPageStatus, OfflineOnly
  <2>3. CASE \E which \in Sensors, value \in 0 .. SPIN_MAX : onThresholdsChanged(which, value)
    BY <2>3 DEF onThresholdsChanged, ThresholdsBecome, AlarmPageThresholds
  <2>4. CASE onManualAlarmRequested
    BY <2>4 DEF onManualAlarmRequested
  <2>5. CASE onClearHistoryRequested
    BY <2>5 DEF onClearHistoryRequested, AlarmPageClear
  <2> QED
    BY <1>1, <2>1, <2>2, <2>3, <2>4, <2>5 DEF User
<1>2. CASE Events
  <2>1. CASE onMqttConnected
    BY <2>1 DEF onMqttConnected
  <2>2. CASE onMqttDisconnected
    BY <2>2 DEF onMqttDisconnected, PagesStatus, AlarmPageStatus, OfflineOnly
  <2>3. CASE \E topic \in SensorTopics, value \in SensorValues : onSensorData(topic, value)
    BY <2>3 DEF onSensorData, Delivered
  <2>4. CASE onAlarmMessage
    BY <2>4 DEF onAlarmMessage, Delivered
  <2>5. CASE onThresholdsMessage
    BY <2>5 DEF onThresholdsMessage
  <2>6. CASE OverviewTimer
    BY <2>6 DEF OverviewTimer
  <2>7. CASE Second
    BY <2>7 DEF Second
  <2>8. CASE \E time \in 1 .. MaxClock : ClockSetBack(time)
    BY <2>8 DEF ClockSetBack
  <2> QED
    BY <1>2, <2>1, <2>2, <2>3, <2>4, <2>5, <2>6, <2>7, <2>8 DEF Events
<1>3. CASE CloudTakes
  BY <1>3 DEF CloudTakes
<1>4. CASE \E new \in ServerLimits : CloudSets(new)
  BY <1>4 DEF CloudSets
<1>5. CASE UNCHANGED vars
  BY <1>5 DEF vars
<1> QED
  BY <1>1, <1>2, <1>3, <1>4, <1>5 DEF Next

LEMMA ChartedStep == Wired /\ LimitsInStep /\ Displayed /\ Charted /\ [Next]_vars => Charted'
<1> SUFFICES ASSUME Wired, LimitsInStep, Displayed, Charted, [Next]_vars PROVE Charted'
  OBVIOUS
<1> USE DEF isMqttConnected
<1>1. CASE User
  <2>1. CASE \E config \in Configs : onEmbskyConnectRequested(config)
    BY <2>1, ChartedUntouched DEF onEmbskyConnectRequested, Session!Begin, pages
  <2>2. CASE onEmbskyDisconnectRequested
    <3>1. CASE PagesStatus(FALSE)
      BY <2>2, <3>1, ChartedEmptied DEF onEmbskyDisconnectRequested, PagesStatus
    <3>2. CASE Session!Unsubscribe /\ UNCHANGED pages
      BY <2>2, <3>2, ChartedUntouched DEF onEmbskyDisconnectRequested, Session!Unsubscribe, pages
    <3> QED
      BY <2>2, <3>1, <3>2 DEF onEmbskyDisconnectRequested
  <2>3. CASE \E which \in Sensors, value \in 0 .. SPIN_MAX : onThresholdsChanged(which, value)
    BY <2>3, ChartedUntouched DEF onThresholdsChanged, client
  <2>4. CASE onManualAlarmRequested
    <3>1. PICK readings \in Seq(Readings) : Len(readings) = 1 /\ processReceivedData(readings)
      BY <2>4, ManualAlarmIs
    <3>2. Len(readings) \in {1, 2} /\ TrendShows(Len(readings), clock)
      BY <3>1 DEF processReceivedData
    <3> QED
      BY <2>4, <3>2, ChartedShows DEF onManualAlarmRequested, client
  <2>5. CASE onClearHistoryRequested
    BY <2>5, ChartedUntouched DEF onClearHistoryRequested, client
  <2> QED
    BY <1>1, <2>1, <2>2, <2>3, <2>4, <2>5 DEF User
<1>2. CASE Events
  <2>1. CASE onMqttConnected
    BY <2>1, ChartedUntouched DEF onMqttConnected, PagesStatus, TrendStatus, trendVars
  <2>2. CASE onMqttDisconnected
    BY <2>2, ChartedEmptied DEF onMqttDisconnected, PagesStatus
  <2>3. CASE \E topic \in SensorTopics, value \in SensorValues : onSensorData(topic, value)
    <3>1. PICK readings \in Seq(Readings) : Len(readings) \in {1, 2} /\ processReceivedData(readings)
      BY <2>3, SensorDataIs
    <3>2. Len(readings) \in {1, 2} /\ TrendShows(Len(readings), clock)
      BY <3>1 DEF processReceivedData
    <3> QED
      BY <2>3, <3>2, ChartedShows DEF onSensorData, Delivered, client
  <2>4. CASE onAlarmMessage
    BY <2>4, ChartedUntouched DEF onAlarmMessage, Delivered, client
  <2>5. CASE onThresholdsMessage
    BY <2>5, ChartedUntouched DEF onThresholdsMessage, client
  <2>6. CASE OverviewTimer
    BY <2>6, ChartedUntouched DEF OverviewTimer, client
  <2>7. CASE Second
    BY <2>7, ChartedSecond
  <2>8. CASE \E time \in 1 .. MaxClock : ClockSetBack(time)
    BY <2>8, ChartedSetBack
  <2> QED
    BY <1>2, <2>1, <2>2, <2>3, <2>4, <2>5, <2>6, <2>7, <2>8 DEF Events
<1>3. CASE CloudTakes
  BY <1>3, ChartedUntouched DEF CloudTakes, client, pages
<1>4. CASE \E new \in ServerLimits : CloudSets(new)
  BY <1>4, ChartedUntouched DEF CloudSets, client, pages
<1>5. CASE UNCHANGED vars
  BY <1>5, ChartedUntouched DEF vars, client, pages
<1> QED
  BY <1>1, <1>2, <1>3, <1>4, <1>5 DEF Next

-----------------------------------------------------------------------------
(* The theorems. *)

IInv == Wired /\ LimitsInStep /\ Displayed /\ Labelled /\ Charted

LEMMA InvariantHolds == Spec => []IInv
<1>1. Init => Labelled
  BY DEF Init, AlarmPageInit, Labelled
<1>2. Init => IInv
  BY <1>1, WiredInit, LimitsInit, DisplayedInit, ChartedInit DEF IInv
<1>3. IInv /\ [Next]_vars => IInv'
  BY WiredStep, LimitsStep, DisplayedStep, LabelledStep, ChartedStep DEF IInv
<1> QED
  BY <1>2, <1>3, PTL DEF Spec

LEMMA TypesFollow == IInv => TypeOK
<1> SUFFICES ASSUME IInv PROVE TypeOK
  OBVIOUS
<1>1. limits \in Readings /\ overviewLimits \in Readings /\ alarmLimits \in Readings
  BY DEF IInv, LimitsInStep, Limits
<1> QED
  BY <1>1 DEF IInv, Wired, Tables, Slots, Displayed, Charted, ChartOf, TypeOK

\* Every variable stays within its type: the gauges and limits in their ranges, the tables,
\* the chart and the data base within their rows, whatever arrives and is edited.
THEOREM TypeCorrect == Spec => []TypeOK
  BY InvariantHolds, TypesFollow, PTL

\* The button, the pages and the client agree on the connection, over any number of
\* connections; where a DISCONNECT could not be sent the button alone is wrong.
THEOREM PagesKnow == Spec => []PagesAgree
<1>1. IInv => PagesAgree
  BY DEF IInv, Wired, PagesKnown, Labelled, Charted, PagesAgree
<1> QED
  BY <1>1, InvariantHolds, PTL

\* However often the desktop connects, and whatever topics are configured, a message
\* reaches one handler per sensor.
THEOREM HandlersAreSingle == Spec => []OneHandlerEach
<1>1. IInv => OneHandlerEach
  BY OnceIsOneHandler DEF IInv
<1> QED
  BY <1>1, InvariantHolds, PTL

\* Whoever edited the limits, and however the edits and the connections interleaved: once
\* nothing is under way the desktop, both its pages and the cloud have the same limits.
THEOREM LimitsConverge == Spec => []ThresholdsConverge
<1>1. IInv => ThresholdsConverge
  BY InStepConverges DEF IInv
<1> QED
  BY <1>1, InvariantHolds, PTL

\* The chart holds the newest points of this connection without a gap, for every window and
\* capacity and however often the clock is put back; in order and in the window of the newest
\* as long as it is not.
THEOREM ChartIsOfNow == Spec => []ChartIsCurrent
<1>1. IInv => ChartIsCurrent
  <2> SUFFICES ASSUME IInv PROVE ChartIsCurrent
    OBVIOUS
  <2>1. /\ DOMAIN chart = 1 .. Len(chart) /\ Len(chart) \in Nat
        /\ \A j \in 1 .. Len(chart) : chart[j].second \in Int
    BY PointIs DEF IInv, Charted, ChartOf
  <2>2. ASSUME ~setBack, NEW j \in DOMAIN chart, NEW k \in DOMAIN chart, j < k
        PROVE  chart[j].second <= chart[k].second /\ chart[k].second - chart[j].second <= X_WINDOW
    <3>1. InOrder(chart, clock - startTimestamp)
      BY <2>2 DEF IInv, Charted
    <3>2. chart[j].second <= chart[k].second /\ chart[k].second <= chart[Len(chart)].second
      BY <2>1, <2>2, <3>1 DEF InOrder
    <3>3. chart[Len(chart)].second - chart[j].second <= X_WINDOW
      BY <2>1, <3>1 DEF InOrder
    <3> DEFINE a == chart[j].second
               b == chart[k].second
               c == chart[Len(chart)].second
    <3>4. a \in Int /\ b \in Int /\ c \in Int /\ b <= c /\ c - a <= X_WINDOW
      BY <2>1, <2>2, <3>2, <3>3
    <3> HIDE DEF a, b, c
    <3>5. b - a <= X_WINDOW
      BY <3>4, TrendAssumption
    <3> QED
      BY <3>2, <3>5 DEF a, b
  <2>3. ~isMqttConnected => chart = <<>>
    BY DEF IInv, Charted
  <2> QED
    BY <2>1, <2>2, <2>3, TypesFollow DEF IInv, Charted, ChartOf, ChartIsCurrent
<1> QED
  BY <1>1, InvariantHolds, PTL

\* The status label says normal only while no alarm has come since the tables were emptied.
THEOREM NormalIsTrue == Spec => []NormalMeansNoAlarm
<1>1. IInv => NormalMeansNoAlarm
  BY DEF IInv, Displayed
<1> QED
  BY <1>1, InvariantHolds, PTL

-----------------------------------------------------------------------------
(* The firmware: where its main loop is *)

LEMMA LinkIs ==
  /\ Len(esp8266_link_wifi) = 9
  /\ esp8266_link_wifi[1] = Send("RST") /\ esp8266_link_wifi[2] = Delay
  /\ esp8266_link_wifi[3] = Clear /\ esp8266_link_wifi[4] = Send("CWMODE")
  /\ esp8266_link_wifi[5] = Wait /\ esp8266_link_wifi[6] = Clear
  /\ esp8266_link_wifi[7] = Send("CWJAP") /\ esp8266_link_wifi[8] = Wait
  /\ esp8266_link_wifi[9] = Send("CIFSR")
BY DEF esp8266_link_wifi

LEMMA SendIs ==
  ASSUME NEW message
  PROVE  /\ Len(esp8266_send(message)) = 8
         /\ esp8266_send(message)[1] = Clear /\ esp8266_send(message)[2] = Send("CIPSEND")
         /\ esp8266_send(message)[3] = Wait /\ esp8266_send(message)[4] = Clear
         /\ esp8266_send(message)[5] = Wait /\ esp8266_send(message)[6] = Clear
         /\ esp8266_send(message)[7] = Send(message) /\ esp8266_send(message)[8] = Wait
BY DEF esp8266_send

Sent == {"RST", "CWMODE", "CWJAP", "CIFSR", "CIPCLOSE", "CIPSTART", "CIPSEND"} \union Messages
Instructions == {Clear, Wait, Delay, ReadSensor} \union {Send(what) : what \in Sent}

LEMMA InstructionsTyped ==
  /\ Clear \in Instructions /\ Wait \in Instructions /\ Delay \in Instructions
  /\ ReadSensor \in Instructions
  /\ \A what \in Sent : Send(what) \in Instructions
<1> HIDE DEF Clear, Wait, Delay, ReadSensor, Send
<1> QED BY DEF Instructions

LEMMA PartsTyped ==
  /\ esp8266_link_wifi \in Seq(Instructions)
  /\ esp8266_connect_udp_multicast \in Seq(Instructions)
  /\ \A message \in Messages : esp8266_send(message) \in Seq(Instructions)
  /\ <<Delay>> \in Seq(Instructions) /\ <<ReadSensor>> \in Seq(Instructions)
<1> HIDE DEF Clear, Wait, Delay, ReadSensor, Send, Instructions
<1>1. esp8266_link_wifi \in Seq(Instructions)
  BY InstructionsTyped DEF Sent, Messages, esp8266_link_wifi
<1>2. esp8266_connect_udp_multicast \in Seq(Instructions)
  BY InstructionsTyped DEF Sent, Messages, esp8266_connect_udp_multicast
<1>3. ASSUME NEW message \in Messages PROVE esp8266_send(message) \in Seq(Instructions)
  BY InstructionsTyped DEF Sent, Messages, esp8266_send
<1>4. <<Delay>> \in Seq(Instructions) /\ <<ReadSensor>> \in Seq(Instructions)
  BY InstructionsTyped
<1> QED BY <1>1, <1>2, <1>3, <1>4

\* What a concatenation of two lists of instructions holds.
LEMMA JoinIs ==
  ASSUME NEW s \in Seq(Instructions), NEW t \in Seq(Instructions)
  PROVE  /\ s \o t \in Seq(Instructions) /\ Len(s \o t) = Len(s) + Len(t)
         /\ \A k \in 1 .. Len(s) + Len(t) :
              (s \o t)[k] = IF k <= Len(s) THEN s[k] ELSE t[k - Len(s)]
BY ConcatProperties

LEMMA StartIs ==
  /\ Start \in Seq(Instructions) /\ Len(Start) = 14
  /\ Start[1] = Send("RST") /\ Start[2] = Delay
  /\ Start[3] = Clear /\ Start[4] = Send("CWMODE") /\ Start[5] = Wait
  /\ Start[6] = Clear /\ Start[7] = Send("CWJAP") /\ Start[8] = Wait
  /\ Start[9] = Send("CIFSR") /\ Start[10] = Delay
  /\ Start[11] = Send("CIPCLOSE") /\ Start[12] = Delay
  /\ Start[13] = Send("CIPSTART") /\ Start[14] = Delay
<1> DEFINE l == esp8266_link_wifi
           d == <<Delay>>
           c == esp8266_connect_udp_multicast
           ld == l \o d
<1>1. /\ l \in Seq(Instructions) /\ d \in Seq(Instructions) /\ c \in Seq(Instructions)
      /\ Start = ld \o c
  BY PartsTyped DEF Start
<1>2. /\ Len(c) = 4 /\ c[1] = Send("CIPCLOSE") /\ c[2] = Delay
      /\ c[3] = Send("CIPSTART") /\ c[4] = Delay
  BY DEF esp8266_connect_udp_multicast
<1>3. /\ Len(l) = 9 /\ Len(d) = 1 /\ d[1] = Delay
      /\ l[1] = Send("RST") /\ l[2] = Delay /\ l[3] = Clear
      /\ l[4] = Send("CWMODE") /\ l[5] = Wait /\ l[6] = Clear
      /\ l[7] = Send("CWJAP") /\ l[8] = Wait /\ l[9] = Send("CIFSR")
  BY LinkIs
<1> HIDE DEF l, d, c
<1>4. /\ ld \in Seq(Instructions) /\ Len(ld) = 9 + 1
      /\ \A k \in 1 .. 9 + 1 : ld[k] = IF k <= 9 THEN l[k] ELSE d[k - 9]
  <2>1. /\ l \o d \in Seq(Instructions) /\ Len(l \o d) = Len(l) + Len(d)
        /\ \A k \in 1 .. Len(l) + Len(d) :
             (l \o d)[k] = IF k <= Len(l) THEN l[k] ELSE d[k - Len(l)]
    BY <1>1, <1>3, JoinIs
  <2>2. Len(l) = 9 /\ Len(d) = 1
    BY <1>1, <1>3
  <2> QED BY ONLY <2>1, <2>2
<1>5. Len(ld) = 10
  BY <1>4
<1> HIDE DEF ld
<1>6. /\ Start \in Seq(Instructions) /\ Len(Start) = 10 + 4
      /\ \A k \in 1 .. 10 + 4 : Start[k] = IF k <= 10 THEN ld[k] ELSE c[k - 10]
  <2>1. /\ ld \o c \in Seq(Instructions) /\ Len(ld \o c) = Len(ld) + Len(c)
        /\ \A k \in 1 .. Len(ld) + Len(c) :
             (ld \o c)[k] = IF k <= Len(ld) THEN ld[k] ELSE c[k - Len(ld)]
    BY <1>1, <1>4, JoinIs
  <2>2. Len(ld) = 10 /\ Len(c) = 4 /\ Start = ld \o c
    BY <1>1, <1>2, <1>5
  <2> QED BY ONLY <2>1, <2>2
<1>7. \A k \in 1 .. 10 : Start[k] = IF k <= 9 THEN l[k] ELSE d[k - 9]
  BY <1>4, <1>6
<1>8. Start[11] = c[1] /\ Start[12] = c[2] /\ Start[13] = c[3] /\ Start[14] = c[4]
  BY <1>6
<1> QED BY <1>2, <1>3, <1>6, <1>7, <1>8

LEMMA LoopIs ==
  /\ Loop \in Seq(Instructions) /\ Len(Loop) = 19
  /\ \A k \in 1 .. 19 :
       Loop[k] = CASE k = 1 -> ReadSensor
                   [] k \in 2 .. 9 -> esp8266_send("temperature")[k - 1]
                   [] k \in 11 .. 18 -> esp8266_send("humidity")[k - 10]
                   [] OTHER -> Delay
<1> DEFINE r == <<ReadSensor>>
           d == <<Delay>>
           t == esp8266_send("temperature")
           h == esp8266_send("humidity")
           rt == r \o t
           rtd == rt \o d
           rtdh == rtd \o h
<1>1. /\ r \in Seq(Instructions) /\ d \in Seq(Instructions)
      /\ t \in Seq(Instructions) /\ h \in Seq(Instructions)
      /\ Loop = rtdh \o d
  BY PartsTyped DEF Loop, Messages
<1>2. /\ Len(r) = 1 /\ r[1] = ReadSensor /\ Len(d) = 1 /\ d[1] = Delay
      /\ Len(t) = 8 /\ Len(h) = 8
  BY SendIs
<1> HIDE DEF r, d, t, h
<1>3. /\ rt \in Seq(Instructions) /\ Len(rt) = 1 + 8
      /\ \A k \in 1 .. 1 + 8 : rt[k] = IF k <= 1 THEN r[k] ELSE t[k - 1]
  <2>1. /\ r \o t \in Seq(Instructions) /\ Len(r \o t) = Len(r) + Len(t)
        /\ \A k \in 1 .. Len(r) + Len(t) :
             (r \o t)[k] = IF k <= Len(r) THEN r[k] ELSE t[k - Len(r)]
    BY <1>1, <1>2, JoinIs
  <2>2. Len(r) = 1 /\ Len(t) = 8
    BY <1>1, <1>2
  <2> QED BY ONLY <2>1, <2>2
<1>4. Len(rt) = 9
  BY <1>3
<1> HIDE DEF rt
<1>5. /\ rtd \in Seq(Instructions) /\ Len(rtd) = 9 + 1
      /\ \A k \in 1 .. 9 + 1 : rtd[k] = IF k <= 9 THEN rt[k] ELSE d[k - 9]
  <2>1. /\ rt \o d \in Seq(Instructions) /\ Len(rt \o d) = Len(rt) + Len(d)
        /\ \A k \in 1 .. Len(rt) + Len(d) :
             (rt \o d)[k] = IF k <= Len(rt) THEN rt[k] ELSE d[k - Len(rt)]
    BY <1>1, <1>2, <1>3, <1>4, JoinIs
  <2>2. Len(rt) = 9 /\ Len(d) = 1
    BY <1>1, <1>2, <1>3, <1>4
  <2> QED BY ONLY <2>1, <2>2
<1>6. Len(rtd) = 10
  BY <1>5
<1> HIDE DEF rtd
<1>7. /\ rtdh \in Seq(Instructions) /\ Len(rtdh) = 10 + 8
      /\ \A k \in 1 .. 10 + 8 : rtdh[k] = IF k <= 10 THEN rtd[k] ELSE h[k - 10]
  <2>1. /\ rtd \o h \in Seq(Instructions) /\ Len(rtd \o h) = Len(rtd) + Len(h)
        /\ \A k \in 1 .. Len(rtd) + Len(h) :
             (rtd \o h)[k] = IF k <= Len(rtd) THEN rtd[k] ELSE h[k - Len(rtd)]
    BY <1>1, <1>2, <1>5, <1>6, JoinIs
  <2>2. Len(rtd) = 10 /\ Len(h) = 8
    BY <1>1, <1>2, <1>5, <1>6
  <2> QED BY ONLY <2>1, <2>2
<1>8. Len(rtdh) = 18
  BY <1>7
<1> HIDE DEF rtdh
<1>9. /\ Loop \in Seq(Instructions) /\ Len(Loop) = 18 + 1
      /\ \A k \in 1 .. 18 + 1 : Loop[k] = IF k <= 18 THEN rtdh[k] ELSE d[k - 18]
  <2>1. /\ rtdh \o d \in Seq(Instructions) /\ Len(rtdh \o d) = Len(rtdh) + Len(d)
        /\ \A k \in 1 .. Len(rtdh) + Len(d) :
             (rtdh \o d)[k] = IF k <= Len(rtdh) THEN rtdh[k] ELSE d[k - Len(rtdh)]
    BY <1>1, <1>7, JoinIs
  <2>2. Len(rtdh) = 18 /\ Len(d) = 1 /\ Loop = rtdh \o d
    BY <1>1, <1>2, <1>8
  <2> QED BY ONLY <2>1, <2>2
<1>10. ASSUME NEW k \in 1 .. 19
       PROVE  Loop[k] = CASE k = 1 -> ReadSensor
                          [] k \in 2 .. 9 -> t[k - 1]
                          [] k \in 11 .. 18 -> h[k - 10]
                          [] OTHER -> Delay
  <2>0. k \in 1 .. 18 + 1 /\ (k <= 18 => k \in 1 .. 10 + 8)
    OBVIOUS
  <2>1. Loop[k] = IF k <= 18 THEN rtdh[k] ELSE d[1]
    <3>1. Loop[k] = IF k <= 18 THEN rtdh[k] ELSE d[k - 18]
      BY ONLY <1>9, <2>0
    <3>2. ~(k <= 18) => k - 18 = 1
      OBVIOUS
    <3> QED
      BY <3>1, <3>2
  <2>2. k <= 18 => rtdh[k] = IF k <= 10 THEN rtd[k] ELSE h[k - 10]
    BY ONLY <1>7, <2>0
  <2>3. k <= 10 => rtd[k] = IF k <= 9 THEN rt[k] ELSE d[1]
    BY <1>5
  <2>4. k <= 9 => rt[k] = IF k = 1 THEN r[1] ELSE t[k - 1]
    BY <1>3
  <2>5. CASE k = 1
    BY <1>2, <2>1, <2>2, <2>3, <2>4, <2>5
  <2>6. CASE k \in 2 .. 9
    BY <2>1, <2>2, <2>3, <2>4, <2>6
  <2>7. CASE k \in 11 .. 18
    BY <2>1, <2>2, <2>7
  <2>8. CASE k \in {10, 19}
    BY <1>2, <2>1, <2>2, <2>3, <2>8
  <2> QED BY <2>5, <2>6, <2>7, <2>8
<1>11. Loop \in Seq(Instructions) /\ Len(Loop) = 19
  BY <1>9
<1> QED BY <1>10, <1>11 DEF t, h

LEMMA ProgramIs ==
  /\ Len(Start) = 14 /\ Len(Program) = 33
  /\ \A k \in 1 .. 33 :
       Program[k] = CASE k \in 1 .. 14 -> Start[k]
                      [] k = 15 -> ReadSensor
                      [] k \in 16 .. 23 -> esp8266_send("temperature")[k - 15]
                      [] k \in 25 .. 32 -> esp8266_send("humidity")[k - 24]
                      [] OTHER -> Delay
<1>1. /\ Len(Program) = 14 + 19
      /\ \A k \in 1 .. 14 + 19 : Program[k] = IF k <= 14 THEN Start[k] ELSE Loop[k - 14]
  <2>1. /\ Len(Start \o Loop) = Len(Start) + Len(Loop)
        /\ \A k \in 1 .. Len(Start) + Len(Loop) :
             (Start \o Loop)[k] = IF k <= Len(Start) THEN Start[k] ELSE Loop[k - Len(Start)]
    BY StartIs, LoopIs, JoinIs
  <2>2. Len(Start) = 14 /\ Len(Loop) = 19 /\ Program = Start \o Loop
    BY StartIs, LoopIs DEF Program
  <2> QED BY ONLY <2>1, <2>2
<1>2. ASSUME NEW k \in 1 .. 33, k > 14
      PROVE  Program[k] = CASE k = 15 -> ReadSensor
                            [] k \in 16 .. 23 -> esp8266_send("temperature")[k - 15]
                            [] k \in 25 .. 32 -> esp8266_send("humidity")[k - 24]
                            [] OTHER -> Delay
  <2>1. PICK j \in 1 .. 19 : j = k - 14 /\ j - 1 = k - 15 /\ j - 10 = k - 24
    BY <1>2
  <2>2. Program[k] = Loop[j]
    BY <1>1, <1>2, <2>1
  <2>4. CASE k = 15
    BY <2>1, <2>2, <2>4, LoopIs
  <2>5. CASE k \in 16 .. 23
    <3>1. j \in 2 .. 9
      BY <2>1, <2>5
    <3>2. Loop[j] = esp8266_send("temperature")[j - 1]
      BY <3>1, LoopIs
    <3> QED BY <2>1, <2>2, <2>5, <3>2
  <2>6. CASE k \in 25 .. 32
    <3>1. j \in 11 .. 18
      BY <2>1, <2>6
    <3>2. Loop[j] = esp8266_send("humidity")[j - 10]
      BY <3>1, LoopIs
    <3> QED BY <2>1, <2>2, <2>6, <3>2
  <2>7. CASE k \in {24, 33}
    <3>1. j \in {10, 19} /\ Loop[j] = Delay
      BY <2>1, <2>7, LoopIs
    <3> QED BY <2>2, <2>7, <3>1
  <2> QED BY <1>2, <2>4, <2>5, <2>6, <2>7
<1> QED BY <1>1, <1>2, StartIs

\* What the main loop does at each instruction.
LEMMA Places ==
  ASSUME pc \in 1 .. 33
  PROVE  /\ Instruction.do = "clear" <=> pc \in {3, 6, 16, 19, 21, 25, 28, 30}
         /\ Instruction.do = "wait" <=> pc \in {5, 8, 18, 20, 23, 27, 29, 32}
         /\ Instruction.do = "delay" <=> pc \in {2, 10, 12, 14, 24, 33}
         /\ Instruction.do = "read" <=> pc = 15
         /\ Instruction.do = "send" <=> pc \in {1, 4, 7, 9, 11, 13, 17, 22, 26, 31}
         /\ pc = 1 => Instruction.what = "RST"
         /\ pc = 4 => Instruction.what = "CWMODE"
         /\ pc = 7 => Instruction.what = "CWJAP"
         /\ pc = 9 => Instruction.what = "CIFSR"
         /\ pc = 11 => Instruction.what = "CIPCLOSE"
         /\ pc = 13 => Instruction.what = "CIPSTART"
         /\ pc \in {17, 26} => Instruction.what = "CIPSEND"
         /\ pc = 22 => Instruction.what = "temperature"
         /\ pc = 31 => Instruction.what = "humidity"
<1>1. /\ Clear.do = "clear" /\ Wait.do = "wait" /\ Delay.do = "delay"
      /\ ReadSensor.do = "read"
      /\ \A what : Send(what).do = "send" /\ Send(what).what = what
  BY DEF Clear, Wait, Delay, ReadSensor, Send
<1>2. CASE pc \in 1 .. 14
  <2>1. Instruction = Start[pc]
    BY <1>2, ProgramIs DEF Instruction
  <2>2. /\ pc \in {3, 6} => Instruction = Clear
        /\ pc \in {5, 8} => Instruction = Wait
        /\ pc \in {2, 10, 12, 14} => Instruction = Delay
        /\ pc = 1 => Instruction = Send("RST")
        /\ pc = 4 => Instruction = Send("CWMODE")
        /\ pc = 7 => Instruction = Send("CWJAP")
        /\ pc = 9 => Instruction = Send("CIFSR")
        /\ pc = 11 => Instruction = Send("CIPCLOSE")
        /\ pc = 13 => Instruction = Send("CIPSTART")
    BY <2>1, StartIs
  <2>3. /\ pc \in {3, 6} => Instruction.do = "clear"
        /\ pc \in {5, 8} => Instruction.do = "wait"
        /\ pc \in {2, 10, 12, 14} => Instruction.do = "delay"
        /\ pc \in {1, 4, 7, 9, 11, 13} => Instruction.do = "send"
    BY <1>1, <2>2
  <2> QED
    BY <1>1, <1>2, <2>2, <2>3
<1>3. CASE pc = 15
  BY <1>1, <1>3, ProgramIs DEF Instruction
<1>4. CASE pc \in 16 .. 23
  <2>1. Instruction = esp8266_send("temperature")[pc - 15]
    BY <1>4, ProgramIs DEF Instruction
  <2>2. /\ pc \in {16, 19, 21} => Instruction = Clear
        /\ pc \in {18, 20, 23} => Instruction = Wait
        /\ pc = 17 => Instruction = Send("CIPSEND")
        /\ pc = 22 => Instruction = Send("temperature")
    BY <2>1, SendIs
  <2> QED
    BY <1>1, <1>4, <2>2
<1>5. CASE pc \in 25 .. 32
  <2>1. Instruction = esp8266_send("humidity")[pc - 24]
    BY <1>5, ProgramIs DEF Instruction
  <2>2. /\ pc \in {25, 28, 30} => Instruction = Clear
        /\ pc \in {27, 29, 32} => Instruction = Wait
        /\ pc = 26 => Instruction = Send("CIPSEND")
        /\ pc = 31 => Instruction = Send("humidity")
    BY <2>1, SendIs
  <2> QED
    BY <1>1, <1>5, <2>2
<1>6. CASE pc \in {24, 33}
  BY <1>1, <1>6, ProgramIs DEF Instruction
<1> QED
  BY <1>2, <1>3, <1>4, <1>5, <1>6

LEMMA AdvanceIs == Advance => pc' = IF pc = 33 THEN 15 ELSE pc + 1
BY ProgramIs DEF Advance

-----------------------------------------------------------------------------
(* The texts on the line *)

Prompt == <<".", ">">>
Address == <<"+", ".">> \o Ok

\* The first part of a datagram.
Header(payload) == <<"+", "I", "P", "D", ",", DigitOf[Len(payload)], ":">>

LEMMA DigitsAre ==
  /\ \A d \in 1 .. 9 : DigitOf[d] \in Digits /\ Digit(DigitOf[d]) = d
  /\ \A c \in Digits : c \in Characters /\ Digit(c) \in Nat
  /\ Digits \intersect {"O", "K", ">", "+", ",", ":", "."} = {}
<1>1. \A d, e \in 1 .. 9 : DigitOf[d] = DigitOf[e] => d = e
  BY DEF DigitOf
<1>2. ASSUME NEW d \in 1 .. 9 PROVE DigitOf[d] \in Digits /\ Digit(DigitOf[d]) = d
  <2> HIDE DEF DigitOf
  <2> QED
    BY <1>1 DEF Digits, Digit
<1>3. ASSUME NEW c \in Digits PROVE c \in Characters /\ Digit(c) \in Nat
  <2>1. c \in Characters
    BY DEF Characters
  <2>2. PICK d \in 1 .. 9 : c = DigitOf[d]
    BY DEF Digits
  <2>3. Digit(c) = d
    BY <1>2, <2>2, Zenon
  <2>4. d \in Nat
    OBVIOUS
  <2> QED
    BY <2>1, <2>3, <2>4
<1>4. Digits \intersect {"O", "K", ">", "+", ",", ":", "."} = {}
  <2>1. ASSUME NEW d \in 1 .. 9 PROVE DigitOf[d] \notin {"O", "K", ">", "+", ",", ":", "."}
    <3>1. \/ d = 1 \/ d = 2 \/ d = 3 \/ d = 4 \/ d = 5 \/ d = 6 \/ d = 7 \/ d = 8 \/ d = 9
      OBVIOUS
    <3>2. DigitOf[d] \in {"1", "2", "3", "4", "5", "6", "7", "8", "9"}
      BY <3>1 DEF DigitOf
    <3> QED
      BY <3>2
  <2> QED
    BY <2>1 DEF Digits
<1> QED
  BY <1>2, <1>3, <1>4

LEMMA SevenTyped ==
  ASSUME NEW S, NEW a \in S, NEW b \in S, NEW c \in S, NEW d \in S, NEW e \in S, NEW f \in S,
         NEW g \in S
  PROVE  <<a, b, c, d, e, f, g>> \in Seq(S)
OBVIOUS

LEMMA HeaderTyped ==
  ASSUME NEW payload \in Payloads
  PROVE  /\ payload \in Seq(Characters) /\ Len(payload) \in 1 .. 9
         /\ DigitOf[Len(payload)] \in Digits /\ Header(payload) \in Seq(Characters)
<1>1. payload \in Seq(Characters) /\ Len(payload) \in 1 .. 9
  BY Esp8266Assumption
<1>2. DigitOf[Len(payload)] \in Digits /\ DigitOf[Len(payload)] \in Characters
  BY <1>1, DigitsAre
<1>3. /\ "+" \in Characters /\ "I" \in Characters /\ "P" \in Characters /\ "D" \in Characters
      /\ "," \in Characters /\ ":" \in Characters
  BY DEF Characters
<1> DEFINE d == DigitOf[Len(payload)]
<1>4. d \in Characters /\ Header(payload) = <<"+", "I", "P", "D", ",", d, ":">>
  BY <1>2 DEF Header
<1> HIDE DEF d
<1>5. d \in Characters
  BY <1>4
<1>6. <<"+", "I", "P", "D", ",", d, ":">> \in Seq(Characters)
  BY <1>3, <1>5, SevenTyped
<1>7. Header(payload) \in Seq(Characters)
  BY <1>4, <1>6
<1> QED
  BY <1>1, <1>2, <1>7

LEMMA ConcatTyped ==
  ASSUME NEW s \in Seq(Characters), NEW t \in Seq(Characters)
  PROVE  s \o t \in Seq(Characters) /\ Len(s \o t) = Len(s) + Len(t)
BY ConcatProperties

LEMMA DatagramIs == \A payload : Datagram(payload) = Header(payload) \o payload
BY DEF Datagram, Header

LEMMA TextsTyped ==
  /\ Ok \in Seq(Characters) /\ Failure \in Seq(Characters) /\ Busy \in Seq(Characters)
  /\ Prompt \in Seq(Characters) /\ Address \in Seq(Characters)
  /\ \A payload \in Payloads : Datagram(payload) \in Seq(Characters)
<1>1. /\ Ok \in Seq(Characters) /\ Failure \in Seq(Characters) /\ Busy \in Seq(Characters)
      /\ Prompt \in Seq(Characters) /\ <<"+", ".">> \in Seq(Characters)
  BY DEF Ok, Failure, Busy, Prompt, Characters
<1>2. Address \in Seq(Characters)
  BY <1>1 DEF Address
<1>3. ASSUME NEW payload \in Payloads PROVE Datagram(payload) \in Seq(Characters)
  BY HeaderTyped, DatagramIs, ConcatTyped
<1> QED
  BY <1>1, <1>2, <1>3

\* The module's answers, one at a time.
LEMMA AnswersAre ==
  ASSUME ModuleAnswers
  PROVE  /\ NextJob /\ UNCHANGED <<driver, lost>>
         /\ \/ mode = "data" /\ line' = line \o Failure /\ mode' = "command"
            \/ /\ mode # "data" /\ job \in {"RST", "CIPCLOSE", "CWMODE", "CWJAP", "CIPSTART"}
               /\ line' = line \o Ok /\ mode' = mode
            \/ mode # "data" /\ job = "CIFSR" /\ line' = line \o Address /\ mode' = mode
            \/ mode # "data" /\ job = "CIPSEND" /\ linked /\ line' = line \o Ok /\ mode' = mode
            \/ mode # "data" /\ job = "prompt" /\ line' = line \o Prompt /\ mode' = "data"
            \/ /\ mode # "data"
               /\ job \in {"CWJAP", "CIPSTART"} \union Messages \/ (job = "CIPSEND" /\ ~linked)
               /\ line' = line \o Failure /\ mode' = "command"
         /\ linked' \in BOOLEAN \/ linked' = linked
         /\ refused' \in {refused, TRUE}
BY DEF ModuleAnswers, Accept, Refuse, Say, Prompt, Address

\* What the module says is one of its texts.
LEMMA SaidIs ==
  ASSUME Module
  PROVE  /\ \E text \in {Ok, Failure, Prompt, Address} : line' = line \o text
         /\ UNCHANGED <<driver, lost, main, untimely>>
<1>1. CASE Leaves
  BY <1>1 DEF Module, Leaves, ModuleSends, Accept, Say
<1>2. CASE ModuleAnswers
  BY <1>2, AnswersAre DEF Module
<1> QED
  BY <1>1, <1>2 DEF Module

-----------------------------------------------------------------------------
(* Types *)

\* Where the index stands in each state of the parser, as long as it is within the buffers.
ParserShape ==
  /\ i \in Nat
  /\ ~overflow => IF data_flag = "DATA_S" THEN i <= DATA_BUF ELSE len <= DATA_BUF
  /\ data_flag = "LEN_S" => Len(len_buf) = i /\ (~overflow => i <= LEN_BUF)
  /\ data_flag # "LEN_S" => len_buf = <<>>
  /\ data_flag \notin {"LEN_S", "DATA_S"} => i = 0

Typed == FirmwareTypeOK /\ ParserShape

LEMMA TypedInit == FirmwareInit => Typed
<1> SUFFICES ASSUME FirmwareInit PROVE Typed
  OBVIOUS
<1>1. pc \in 1 .. Len(Program)
  BY ProgramIs DEF FirmwareInit
<1>2. <<>> \in Seq(Characters) /\ Len(<<>>) = 0 /\ 0 <= LEN_BUF + 1
  BY Esp8266Assumption
<1>3. ParserShape
  BY Esp8266Assumption DEF FirmwareInit, EspInit, ParserShape
<1>4. FirmwareTypeOK
  BY <1>1, <1>2 DEF FirmwareInit, EspInit, FirmwareTypeOK
<1> QED
  BY <1>3, <1>4 DEF Typed

LEMMA ExpectedIs ==
  /\ Expected["ADD_S"][1] = "+" /\ Expected["ADD_S"][2] = "I_S"
  /\ Expected["I_S"][1] = "I" /\ Expected["I_S"][2] = "P_S"
  /\ Expected["P_S"][1] = "P" /\ Expected["P_S"][2] = "D_S"
  /\ Expected["D_S"][1] = "D" /\ Expected["D_S"][2] = "H_S"
  /\ Expected["H_S"][1] = "," /\ Expected["H_S"][2] = "LEN_S"
BY DEF Expected

\* One character, in every state of the parser.
LEMMA FrameTyped ==
  ASSUME Typed, ~overflow, NEW c \in Characters, Frame(c)
  PROVE  /\ ParserShape'
         /\ data_flag' \in {"ADD_S", "I_S", "P_S", "D_S", "H_S", "LEN_S", "DATA_S"}
         /\ len_buf' \in Seq(Characters) /\ Len(len_buf)' <= LEN_BUF + 1
         /\ overflow' \in BOOLEAN
<1> USE Esp8266Assumption
<1>1. CASE data_flag = "LEN_S" /\ LengthEnds(c)
  BY <1>1 DEF Frame, Typed, FirmwareTypeOK, ParserShape
<1>2. CASE data_flag = "LEN_S" /\ ~LengthEnds(c)
  <2>1. /\ len_buf' = Append(len_buf, c) /\ i' = i + 1 /\ overflow' = (i >= LEN_BUF)
        /\ UNCHANGED <<data_flag, len>>
    BY <1>2 DEF Frame
  <2>2. len_buf' \in Seq(Characters) /\ Len(len_buf') = Len(len_buf) + 1
    BY <2>1, AppendProperties DEF Typed, FirmwareTypeOK
  <2>3. Len(len_buf) = i /\ i \in Nat /\ i <= LEN_BUF /\ len <= DATA_BUF
    BY <1>2 DEF Typed, ParserShape
  <2>4. overflow' \in BOOLEAN
    BY <2>1
  <2>5. ~overflow' => i' <= LEN_BUF
    <3>1. i >= LEN_BUF => overflow'
      BY <2>1, Zenon
    <3>2. ~(i >= LEN_BUF) => i + 1 <= LEN_BUF
      BY <2>3
    <3> QED
      BY <2>1, <3>1, <3>2
  <2>6. ParserShape'
    BY <1>2, <2>1, <2>2, <2>3, <2>5 DEF ParserShape
  <2>7. Len(len_buf') <= LEN_BUF + 1
    BY <2>2, <2>3
  <2> QED
    BY <1>2, <2>1, <2>2, <2>4, <2>6, <2>7
<1>3. CASE data_flag = "DATA_S"
  <2>1. /\ overflow' = (i >= DATA_BUF) /\ UNCHANGED <<len, len_buf>>
        /\ i' = IF i + 1 = len THEN 0 ELSE i + 1
        /\ data_flag' = IF i + 1 = len THEN "ADD_S" ELSE "DATA_S"
    BY <1>3 DEF Frame, DataEnds
  <2>2. overflow' \in BOOLEAN
    BY <2>1
  <2>3. i \in Nat /\ len_buf = <<>> /\ DATA_BUF \in Nat
    BY <1>3 DEF Typed, ParserShape
  <2>4. ~overflow' => IF data_flag' = "DATA_S" THEN i' <= DATA_BUF ELSE len' <= DATA_BUF
    <3>1. ~overflow' => ~(i >= DATA_BUF)
      BY <2>1, Zenon
    <3>2. ~(i >= DATA_BUF) => i + 1 <= DATA_BUF
      BY <2>3
    <3> QED
      BY <2>1, <3>1, <3>2
  <2>5. ParserShape'
    BY <1>3, <2>1, <2>3, <2>4 DEF ParserShape
  <2> QED
    BY <2>1, <2>2, <2>5 DEF Typed, FirmwareTypeOK
<1>4. CASE data_flag \notin {"LEN_S", "DATA_S"}
  <2>1. data_flag \in {"ADD_S", "I_S", "P_S", "D_S", "H_S"}
    BY <1>4 DEF Typed, FirmwareTypeOK
  <2>2. data_flag' \in {"ADD_S", "I_S", "P_S", "D_S", "H_S", "LEN_S"}
    <3>1. data_flag' = IF c = Expected[data_flag][1] THEN Expected[data_flag][2] ELSE "ADD_S"
      BY <1>4 DEF Frame
    <3> QED
      BY <2>1, <3>1, ExpectedIs
  <2>3. UNCHANGED <<len, len_buf, i, overflow>>
    BY <1>4 DEF Frame
  <2> QED
    BY <1>4, <2>2, <2>3 DEF Typed, FirmwareTypeOK, ParserShape
<1> QED
  BY <1>1, <1>2, <1>3, <1>4

LEMMA AnsweredTyped ==
  ASSUME Typed, NEW c, Answered(c)
  PROVE  ok_flag' \in {0, 1} /\ flag' \in {"O_F", "K_F"}
BY DEF Answered, Typed, FirmwareTypeOK

LEMMA TypedStep ==
  ASSUME Typed, [FirmwareNext]_firmwareVars
  PROVE  Typed'
<1> USE DEF Typed
<1>p. pc \in 1 .. 33 /\ Len(Program) = 33
  BY ProgramIs DEF FirmwareTypeOK
<1>1. CASE Main
  <2>1. Advance => pc' \in 1 .. Len(Program)
    BY <1>p, AdvanceIs
  <2>2. CASE Sending
    <3>1. line' \in Seq(Characters)
      BY <2>2, TextsTyped, ConcatTyped DEF Sending, Transmit, Say, FirmwareTypeOK
    <3> QED
      BY <2>1, <2>2, <3>1 DEF Sending, Transmit, FirmwareTypeOK, ParserShape, driver
  <2>3. CASE Clearing
    BY <2>1, <2>3 DEF Clearing, FirmwareTypeOK, ParserShape, module
  <2>4. CASE Waiting
    BY <2>1, <2>4 DEF Waiting, FirmwareTypeOK, ParserShape, module, driver
  <2>5. CASE Delaying
    BY <2>1, <2>5 DEF Delaying, DelayTooShort, FirmwareTypeOK, ParserShape, module, driver
  <2>6. CASE Reading
    <3>1. dht_data' \in Values \union {0, Bad} /\ current' \in Values \union {0}
      BY <2>6 DEF Reading, TimedOut, FirmwareTypeOK
    <3> QED
      BY <2>1, <2>6, <3>1 DEF Reading, FirmwareTypeOK, ParserShape, module, driver
  <2>7. CASE SensorDies
    BY <2>7 DEF SensorDies, FirmwareTypeOK, ParserShape, module, driver
  <2> QED
    BY <1>1, <2>2, <2>3, <2>4, <2>5, <2>6, <2>7 DEF Main
<1>2. CASE ~overflow /\ Interrupt
  <2>1. /\ line # <<>> /\ line' = Tail(line)
        /\ Frame(Head(line)) /\ Answered(Head(line))
        /\ UNCHANGED <<module, lost, main, air, untimely>>
    BY <1>2 DEF Interrupt, dataHandler
  <2>2. Head(line) \in Characters /\ line' \in Seq(Characters)
    BY <2>1 DEF FirmwareTypeOK
  <2> QED
    BY <1>2, <2>1, <2>2, FrameTyped, AnsweredTyped DEF FirmwareTypeOK, module, main
<1>3. CASE Module
  <2>1. line' \in Seq(Characters)
    BY <1>3, SaidIs, TextsTyped, ConcatTyped DEF FirmwareTypeOK
  <2>2. UNCHANGED <<driver, lost, main, untimely>>
    BY <1>3, SaidIs
  <2>3. mode' \in {"command", "data"} /\ linked' \in BOOLEAN /\ refused' \in BOOLEAN
    <3>1. CASE Leaves
      BY <3>1 DEF Leaves, ModuleSends, Accept, FirmwareTypeOK
    <3>2. CASE ModuleAnswers
      BY <3>2, AnswersAre DEF FirmwareTypeOK
    <3> QED
      BY <1>3, <3>1, <3>2 DEF Module
  <2> QED
    BY <2>1, <2>2, <2>3 DEF FirmwareTypeOK, ParserShape, driver, main
<1>4. CASE Noise
  <2>1. line' \in Seq(Characters) /\ lost' = TRUE
    BY <1>4 DEF Noise, LoseCharacter, FirmwareTypeOK
  <2> QED
    BY <1>4, <2>1 DEF Noise, LoseCharacter, FirmwareTypeOK, ParserShape, driver, module, main
<1>5. CASE Peer
  <2>1. line' \in Seq(Characters)
    BY <1>5, TextsTyped, ConcatTyped DEF Peer, DatagramArrives, Say, FirmwareTypeOK
  <2> QED
    BY <1>5, <2>1 DEF Peer, DatagramArrives, FirmwareTypeOK, ParserShape, driver, module, main
<1>6. CASE UNCHANGED firmwareVars
  BY <1>6 DEF firmwareVars, FirmwareTypeOK, ParserShape, driver, module, main
<1> QED
  BY <1>1, <1>2, <1>3, <1>4, <1>5, <1>6 DEF FirmwareNext

-----------------------------------------------------------------------------
(* Frames *)

\* The state of the parser.
State(f, b, n, k) == [f |-> f, b |-> b, n |-> n, k |-> k]
Parser == State(data_flag, len_buf, len, i)

\* Between two frames; n is left over from the last one.
Home(n) == State("ADD_S", <<>>, n, 0)

\* The parser takes c from s to t: no more digits than len_buf holds, no more data than
\* the length says.
Moves(s, c, t) ==
  \/ /\ s.f = "LEN_S" /\ LengthEnds(c) /\ s.k < LEN_BUF
     /\ t = State("DATA_S", <<>>, atoi(s.b), 0)
  \/ /\ s.f = "LEN_S" /\ ~LengthEnds(c) /\ s.k < LEN_BUF
     /\ t = State("LEN_S", Append(s.b, c), s.n, s.k + 1)
  \/ /\ s.f = "DATA_S" /\ s.k < s.n
     /\ t = IF s.k + 1 = s.n THEN State("ADD_S", s.b, s.n, 0)
            ELSE State("DATA_S", s.b, s.n, s.k + 1)
  \/ /\ s.f \in {"ADD_S", "I_S", "P_S", "D_S", "H_S"}
     /\ t = State(IF c = Expected[s.f][1] THEN Expected[s.f][2] ELSE "ADD_S", s.b, s.n, s.k)

\* It reads the text from s to t.
Reads(s, text, t) ==
  \E st : /\ st[0] = s /\ st[Len(text)] = t
          /\ \A k \in 1 .. Len(text) : Moves(st[k - 1], text[k], st[k])

\* One character was stored behind data_buf, and a datagram that is longer is the reason.
Overrun ==
  /\ len > DATA_BUF
  /\ <<data_flag, i>> \in {<<"DATA_S", DATA_BUF + 1>>, <<"ADD_S", 0>>}

\* As long as no character was lost, what is on the line is read to the end of a frame.
FramesWhole == ~lost => (overflow => Overrun) /\ \E n : Reads(Parser, line, Home(n))

LEMMA StateIs ==
  ASSUME NEW f, NEW b, NEW n, NEW k
  PROVE  /\ State(f, b, n, k).f = f /\ State(f, b, n, k).b = b
         /\ State(f, b, n, k).n = n /\ State(f, b, n, k).k = k
         /\ \A g, c, m, l : State(f, b, n, k) = State(g, c, m, l) => f = g /\ b = c /\ n = m /\ k = l
BY DEF State

LEMMA ReadsNothing ==
  ASSUME NEW s PROVE Reads(s, <<>>, s)
<1> DEFINE st == [k \in {0} |-> s]
<1>1. st[0] = s /\ Len(<<>>) = 0 /\ 1 .. 0 = {}
  OBVIOUS
<1> HIDE DEF st
<1> QED
  BY <1>1 DEF Reads

LEMMA ReadsJoin ==
  ASSUME NEW s, NEW t, NEW u, NEW a \in Seq(Characters), NEW b \in Seq(Characters),
         Reads(s, a, t), Reads(t, b, u)
  PROVE  Reads(s, a \o b, u)
<1>1. PICK v : /\ v[0] = s /\ v[Len(a)] = t
               /\ \A k \in 1 .. Len(a) : Moves(v[k - 1], a[k], v[k])
  BY DEF Reads
<1>2. PICK w : /\ w[0] = t /\ w[Len(b)] = u
               /\ \A k \in 1 .. Len(b) : Moves(w[k - 1], b[k], w[k])
  BY DEF Reads
<1>3. /\ Len(a \o b) = Len(a) + Len(b)
      /\ \A k \in 1 .. Len(a) + Len(b) :
           (a \o b)[k] = IF k <= Len(a) THEN a[k] ELSE b[k - Len(a)]
  BY ConcatProperties
<1> DEFINE z == [k \in 0 .. Len(a) + Len(b) |-> IF k <= Len(a) THEN v[k] ELSE w[k - Len(a)]]
           ab == a \o b
<1>4. z[0] = s
  BY <1>1
<1>5. z[Len(a) + Len(b)] = u
  BY <1>1, <1>2
<1>6. ASSUME NEW k \in 1 .. Len(a) + Len(b) PROVE Moves(z[k - 1], ab[k], z[k])
  <2>1. CASE k <= Len(a)
    <3>1. z[k - 1] = v[k - 1] /\ z[k] = v[k] /\ ab[k] = a[k]
      BY <1>3, <2>1
    <3> QED
      BY <1>1, <2>1, <3>1
  <2>2. CASE k > Len(a)
    <3>0. k - Len(a) \in 1 .. Len(b) /\ k - 1 - Len(a) = (k - Len(a)) - 1
      BY <2>2
    <3>1. PICK j \in 1 .. Len(b) : j = k - Len(a) /\ k - 1 - Len(a) = j - 1
      BY <3>0
    <3>2. z[k] = w[j] /\ ab[k] = b[j]
      BY <1>3, <2>2, <3>1
    <3>3. z[k - 1] = w[j - 1]
      <4>1. CASE k - 1 <= Len(a)
        <5>1. k - 1 = Len(a) /\ j = 1 /\ j - 1 = 0
          BY <2>2, <3>1, <4>1
        <5> QED
          BY <1>1, <1>2, <5>1
      <4>2. CASE ~(k - 1 <= Len(a))
        BY <2>2, <3>1, <4>2
      <4> QED
        BY <4>1, <4>2
    <3> QED
      BY <1>2, <3>1, <3>2, <3>3
  <2> QED
    BY <2>1, <2>2
<1> HIDE DEF z, ab
<1>7. /\ z[0] = s /\ z[Len(ab)] = u
      /\ \A k \in 1 .. Len(ab) : Moves(z[k - 1], ab[k], z[k])
  BY <1>3, <1>4, <1>5, <1>6 DEF ab
<1>8. Reads(s, ab, u)
  BY <1>7 DEF Reads
<1> QED
  BY <1>8 DEF ab

LEMMA ReadsEnd ==
  ASSUME NEW s, NEW t, Reads(s, <<>>, t) PROVE s = t
BY DEF Reads

LEMMA ReadsFirst ==
  ASSUME NEW s, NEW t, NEW a \in Seq(Characters), a # <<>>, Reads(s, a, t)
  PROVE  \E m : Moves(s, Head(a), m) /\ Reads(m, Tail(a), t)
<1>1. PICK v : /\ v[0] = s /\ v[Len(a)] = t
               /\ \A k \in 1 .. Len(a) : Moves(v[k - 1], a[k], v[k])
  BY DEF Reads
<1>2. /\ Len(a) \in Nat \ {0} /\ Head(a) = a[1] /\ Len(Tail(a)) = Len(a) - 1
      /\ \A k \in 1 .. Len(a) - 1 : Tail(a)[k] = a[k + 1]
  OBVIOUS
<1> DEFINE w == [k \in 0 .. Len(a) - 1 |-> v[k + 1]]
           r == Tail(a)
<1>3. Moves(s, Head(a), v[1])
  BY <1>1, <1>2
<1>4. w[0] = v[1] /\ w[Len(a) - 1] = t
  BY <1>1, <1>2
<1>5. ASSUME NEW k \in 1 .. Len(a) - 1 PROVE Moves(w[k - 1], r[k], w[k])
  <2>1. PICK j \in 1 .. Len(a) : j = k + 1 /\ j - 1 = k
    BY <1>2
  <2>2. w[k - 1] = v[j - 1] /\ w[k] = v[j] /\ r[k] = a[j]
    BY <1>2, <2>1
  <2> QED
    BY <1>1, <2>2
<1>6. Len(r) = Len(a) - 1
  BY <1>2
<1> HIDE DEF w, r
<1>7. Reads(v[1], r, t)
  BY <1>4, <1>5, <1>6 DEF Reads
<1> QED
  BY <1>3, <1>7 DEF r

\* The characters outside of a length and of data.
LEMMA ExpectedMoves ==
  ASSUME NEW f \in {"ADD_S", "I_S", "P_S", "D_S", "H_S"}, NEW b, NEW n, NEW k, NEW c
  PROVE  Moves(State(f, b, n, k), c,
               State(IF c = Expected[f][1] THEN Expected[f][2] ELSE "ADD_S", b, n, k))
<1> DEFINE s == State(f, b, n, k)
<1>1. s.f = f /\ s.b = b /\ s.n = n /\ s.k = k
  BY StateIs
<1> HIDE DEF s
<1>2. Moves(s, c, State(IF c = Expected[f][1] THEN Expected[f][2] ELSE "ADD_S", b, n, k))
  BY <1>1 DEF Moves
<1> QED
  BY <1>2 DEF s

LEMMA HeaderMoves ==
  ASSUME NEW n
  PROVE  /\ \A c : c # "+" => Moves(Home(n), c, Home(n))
         /\ Moves(Home(n), "+", State("I_S", <<>>, n, 0))
         /\ Moves(State("I_S", <<>>, n, 0), ".", Home(n))
         /\ Moves(State("I_S", <<>>, n, 0), "I", State("P_S", <<>>, n, 0))
         /\ Moves(State("P_S", <<>>, n, 0), "P", State("D_S", <<>>, n, 0))
         /\ Moves(State("D_S", <<>>, n, 0), "D", State("H_S", <<>>, n, 0))
         /\ Moves(State("H_S", <<>>, n, 0), ",", State("LEN_S", <<>>, n, 0))
<1>1. \A c : c # "+" => Moves(Home(n), c, Home(n))
  <2> TAKE c
  <2>1. Moves(State("ADD_S", <<>>, n, 0), c,
              State(IF c = Expected["ADD_S"][1] THEN Expected["ADD_S"][2] ELSE "ADD_S", <<>>, n, 0))
    BY ExpectedMoves
  <2> QED
    BY <2>1, ExpectedIs DEF Home
<1>2. Moves(Home(n), "+", State("I_S", <<>>, n, 0))
  <2>1. Moves(State("ADD_S", <<>>, n, 0), "+",
              State(IF "+" = Expected["ADD_S"][1] THEN Expected["ADD_S"][2] ELSE "ADD_S", <<>>, n, 0))
    BY ExpectedMoves
  <2> QED
    BY <2>1, ExpectedIs DEF Home
<1>3. Moves(State("I_S", <<>>, n, 0), ".", Home(n))
  <2>1. Moves(State("I_S", <<>>, n, 0), ".",
              State(IF "." = Expected["I_S"][1] THEN Expected["I_S"][2] ELSE "ADD_S", <<>>, n, 0))
    BY ExpectedMoves
  <2> QED
    BY <2>1, ExpectedIs DEF Home
<1>4. Moves(State("I_S", <<>>, n, 0), "I", State("P_S", <<>>, n, 0))
  <2>1. Moves(State("I_S", <<>>, n, 0), "I",
              State(IF "I" = Expected["I_S"][1] THEN Expected["I_S"][2] ELSE "ADD_S", <<>>, n, 0))
    BY ExpectedMoves
  <2> QED
    BY <2>1, ExpectedIs
<1>5. Moves(State("P_S", <<>>, n, 0), "P", State("D_S", <<>>, n, 0))
  <2>1. Moves(State("P_S", <<>>, n, 0), "P",
              State(IF "P" = Expected["P_S"][1] THEN Expected["P_S"][2] ELSE "ADD_S", <<>>, n, 0))
    BY ExpectedMoves
  <2> QED
    BY <2>1, ExpectedIs
<1>6. Moves(State("D_S", <<>>, n, 0), "D", State("H_S", <<>>, n, 0))
  <2>1. Moves(State("D_S", <<>>, n, 0), "D",
              State(IF "D" = Expected["D_S"][1] THEN Expected["D_S"][2] ELSE "ADD_S", <<>>, n, 0))
    BY ExpectedMoves
  <2> QED
    BY <2>1, ExpectedIs
<1>7. Moves(State("H_S", <<>>, n, 0), ",", State("LEN_S", <<>>, n, 0))
  <2>1. Moves(State("H_S", <<>>, n, 0), ",",
              State(IF "," = Expected["H_S"][1] THEN Expected["H_S"][2] ELSE "ADD_S", <<>>, n, 0))
    BY ExpectedMoves
  <2> QED
    BY <2>1, ExpectedIs
<1> QED
  BY <1>1, <1>2, <1>3, <1>4, <1>5, <1>6, <1>7

\* The length: one digit and the ":".
LEMMA LengthMoves ==
  ASSUME NEW n, NEW d, d # ":"
  PROVE  /\ Moves(State("LEN_S", <<>>, n, 0), d, State("LEN_S", <<d>>, n, 1))
         /\ Moves(State("LEN_S", <<d>>, n, 1), ":", State("DATA_S", <<>>, atoi(<<d>>), 0))
<1>1. 0 < LEN_BUF /\ 1 < LEN_BUF /\ 0 + 1 = 1 /\ Append(<<>>, d) = <<d>>
  BY Esp8266Assumption
<1> DEFINE s == State("LEN_S", <<>>, n, 0)
           t == State("LEN_S", <<d>>, n, 1)
<1>2. s.f = "LEN_S" /\ s.b = <<>> /\ s.n = n /\ s.k = 0
  BY StateIs
<1>3. t.f = "LEN_S" /\ t.b = <<d>> /\ t.n = n /\ t.k = 1
  BY StateIs
<1>4. t = State("LEN_S", Append(s.b, d), s.n, s.k + 1)
  BY <1>1, <1>2
<1> HIDE DEF s, t
<1>5. Moves(s, d, t)
  BY <1>1, <1>2, <1>4 DEF Moves, LengthEnds
<1>6. Moves(t, ":", State("DATA_S", <<>>, atoi(t.b), 0))
  BY <1>1, <1>3 DEF Moves, LengthEnds
<1> QED
  BY <1>3, <1>5, <1>6 DEF s, t

\* A text without a "+" leaves the parser where it is.
LEMMA PlainReads ==
  ASSUME NEW n, NEW a \in Seq(Characters), \A k \in 1 .. Len(a) : a[k] # "+"
  PROVE  Reads(Home(n), a, Home(n))
<1> DEFINE st == [k \in 0 .. Len(a) |-> Home(n)]
<1>2. ASSUME NEW k \in 1 .. Len(a) PROVE Moves(st[k - 1], a[k], st[k])
  <2>1. st[k - 1] = Home(n) /\ st[k] = Home(n)
    OBVIOUS
  <2> QED
    BY <2>1, HeaderMoves
<1>3. st[0] = Home(n) /\ st[Len(a)] = Home(n)
  OBVIOUS
<1> HIDE DEF st
<1> QED
  BY <1>2, <1>3 DEF Reads

LEMMA AnswersRead ==
  ASSUME NEW n
  PROVE  /\ Reads(Home(n), Ok, Home(n)) /\ Reads(Home(n), Failure, Home(n))
         /\ Reads(Home(n), Busy, Home(n)) /\ Reads(Home(n), Prompt, Home(n))
         /\ Reads(Home(n), Address, Home(n))
<1>1. \A k \in 1 .. Len(Ok) : Ok[k] # "+"
  BY DEF Ok
<1>2. \A k \in 1 .. Len(Failure) : Failure[k] # "+"
  BY DEF Failure
<1>3. \A k \in 1 .. Len(Busy) : Busy[k] # "+"
  BY DEF Busy
<1>4. \A k \in 1 .. Len(Prompt) : Prompt[k] # "+"
  BY DEF Prompt
<1>5. /\ Reads(Home(n), Ok, Home(n)) /\ Reads(Home(n), Failure, Home(n))
      /\ Reads(Home(n), Busy, Home(n)) /\ Reads(Home(n), Prompt, Home(n))
  BY <1>1, <1>2, <1>3, <1>4, PlainReads, TextsTyped
<1> DEFINE s == State("I_S", <<>>, n, 0)
           st == [k \in 0 .. 2 |-> IF k = 1 THEN s ELSE Home(n)]
           text == <<"+", ".">>
<1>6. Moves(Home(n), "+", s) /\ Moves(s, ".", Home(n))
  BY HeaderMoves
<1>7. st[0] = Home(n) /\ st[1] = s /\ st[2] = Home(n)
  OBVIOUS
<1>8. Len(text) = 2 /\ text[1] = "+" /\ text[2] = "." /\ text \in Seq(Characters)
  BY DEF Characters
<1> HIDE DEF st, s, text
<1>9. \A k \in 1 .. 2 : Moves(st[k - 1], text[k], st[k])
  <2>1. Moves(st[1 - 1], text[1], st[1]) /\ Moves(st[2 - 1], text[2], st[2])
    BY <1>6, <1>7, <1>8
  <2> QED
    BY <2>1
<1>10. Reads(Home(n), text, Home(n))
  BY <1>7, <1>8, <1>9 DEF Reads
<1>11. Reads(Home(n), text \o Ok, Home(n))
  BY <1>5, <1>8, <1>10, ReadsJoin, TextsTyped
<1> QED
  BY <1>5, <1>11 DEF Address, text

LEMMA AtoiIs == \A d \in 1 .. 9 : atoi(<<DigitOf[d]>>) = d
<1>0. \A c \in Digits : Digit(c) \in Nat
  BY DigitsAre, Zenon
<1>1. ASSUME NEW c \in Digits PROVE atoi(<<c>>) = Digit(c)
  <2> DEFINE s == <<c>>
             prefix == CHOOSE n \in 0 .. Len(s) :
                         /\ \A k \in 1 .. n : s[k] \in Digits
                         /\ n < Len(s) => s[n + 1] \notin Digits
             g == [n \in 0 .. 1 |-> IF n = 0 THEN 0 ELSE Digit(c)]
  <2>1. Len(s) = 1 /\ s[1] = c
    OBVIOUS
  <2>2. prefix = 1
    <3>1. /\ 1 \in 0 .. Len(s)
          /\ \A k \in 1 .. 1 : s[k] \in Digits
          /\ 1 < Len(s) => s[1 + 1] \notin Digits
      BY <2>1
    <3>2. ASSUME NEW n \in 0 .. Len(s), n < Len(s) => s[n + 1] \notin Digits PROVE n = 1
      BY <2>1, <3>2
    <3> QED
      BY <3>1, <3>2
  <2> HIDE DEF prefix
  <2> DEFINE value[n \in 0 .. prefix] ==
               IF n = 0 THEN 0 ELSE 10 * value[n - 1] + Digit(s[n])
  <2>3. atoi(<<c>>) = value[prefix]
    BY DEF atoi, prefix
  <2>4. g = [n \in 0 .. prefix |-> IF n = 0 THEN 0 ELSE 10 * g[n - 1] + Digit(s[n])]
    <3>1. Digit(c) \in Nat
      BY <1>0
    <3>2. ASSUME NEW n \in 0 .. 1
          PROVE  g[n] = IF n = 0 THEN 0 ELSE 10 * g[n - 1] + Digit(s[n])
      BY <2>1, <3>1
    <3> QED
      BY <2>2, <3>2
  <2>5. value = [n \in 0 .. prefix |-> IF n = 0 THEN 0 ELSE 10 * value[n - 1] + Digit(s[n])]
    <3> HIDE DEF g
    <3> QED
      BY <2>4
  <2>6. value[0] = 0 /\ value[1] = 10 * value[1 - 1] + Digit(s[1])
    <3> HIDE DEF value
    <3> QED
      BY <2>2, <2>5
  <2>7. Digit(c) \in Nat
    BY <1>0
  <2> HIDE DEF value
  <2> QED
    BY <2>1, <2>2, <2>3, <2>6, <2>7
<1> QED
  BY <1>1, DigitsAre

\* The header of a datagram, up to the state in which the first character is expected.
LEMMA HeaderReads ==
  ASSUME NEW n, NEW payload \in Payloads
  PROVE  Reads(Home(n), Header(payload), State("DATA_S", <<>>, Len(payload), 0))
<1> DEFINE d == DigitOf[Len(payload)]
           text == Header(payload)
           s0 == Home(n)
           s1 == State("I_S", <<>>, n, 0)
           s2 == State("P_S", <<>>, n, 0)
           s3 == State("D_S", <<>>, n, 0)
           s4 == State("H_S", <<>>, n, 0)
           s5 == State("LEN_S", <<>>, n, 0)
           s6 == State("LEN_S", <<d>>, n, 1)
           s7 == State("DATA_S", <<>>, Len(payload), 0)
           st == [k \in 0 .. 7 |->
                    CASE k = 0 -> s0 [] k = 1 -> s1 [] k = 2 -> s2 [] k = 3 -> s3
                      [] k = 4 -> s4 [] k = 5 -> s5 [] k = 6 -> s6 [] OTHER -> s7]
<1>1. /\ Len(text) = 7 /\ text[1] = "+" /\ text[2] = "I" /\ text[3] = "P" /\ text[4] = "D"
      /\ text[5] = "," /\ text[6] = d /\ text[7] = ":"
  BY DEF Header
<1>2. Moves(s0, "+", s1) /\ Moves(s1, "I", s2) /\ Moves(s2, "P", s3)
  BY HeaderMoves
<1>3. Moves(s3, "D", s4) /\ Moves(s4, ",", s5)
  BY HeaderMoves
<1>4. d # ":" /\ atoi(<<d>>) = Len(payload)
  BY HeaderTyped, AtoiIs, DigitsAre
<1>5. Moves(s5, d, s6) /\ Moves(s6, ":", s7)
  <2> HIDE DEF d
  <2> QED
    BY <1>4, LengthMoves
<1>6. /\ st[0] = s0 /\ st[1] = s1 /\ st[2] = s2 /\ st[3] = s3
      /\ st[4] = s4 /\ st[5] = s5 /\ st[6] = s6 /\ st[7] = s7
  <2> HIDE DEF s0, s1, s2, s3, s4, s5, s6, s7
  <2> QED
    OBVIOUS
<1> HIDE DEF st, s0, s1, s2, s3, s4, s5, s6, s7, text, d
<1>7. ASSUME NEW k \in 1 .. 7 PROVE Moves(st[k - 1], text[k], st[k])
  <2>1. Moves(st[0], text[1], st[1]) /\ Moves(st[1], text[2], st[2])
    BY <1>1, <1>2, <1>6
  <2>2. Moves(st[2], text[3], st[3]) /\ Moves(st[3], text[4], st[4])
    BY <1>1, <1>2, <1>3, <1>6
  <2>3. Moves(st[4], text[5], st[5]) /\ Moves(st[5], text[6], st[6])
    BY <1>1, <1>3, <1>5, <1>6
  <2>4. Moves(st[6], text[7], st[7])
    BY <1>1, <1>5, <1>6
  <2> QED
    BY <2>1, <2>2, <2>3, <2>4
<1>8. Reads(s0, text, s7)
  BY <1>1, <1>6, <1>7 DEF Reads
<1> QED
  BY <1>8 DEF s0, s7, text

LEMMA PayloadReads ==
  ASSUME NEW payload \in Payloads
  PROVE  Reads(State("DATA_S", <<>>, Len(payload), 0), payload, Home(Len(payload)))
<1> DEFINE l == Len(payload)
           st == [k \in 0 .. l |-> IF k = l THEN Home(l) ELSE State("DATA_S", <<>>, l, k)]
<1>1. l \in 1 .. 9
  BY HeaderTyped
<1> HIDE DEF l
<1>2. st[0] = State("DATA_S", <<>>, l, 0) /\ st[l] = Home(l)
  BY <1>1
<1>3. ASSUME NEW k \in 1 .. l PROVE Moves(st[k - 1], payload[k], st[k])
  <2>1. st[k - 1] = State("DATA_S", <<>>, l, k - 1) /\ k - 1 < l /\ (k - 1) + 1 = k
    BY <1>1
  <2>2. st[k] = IF k = l THEN State("ADD_S", <<>>, l, 0) ELSE State("DATA_S", <<>>, l, k)
    BY <1>1 DEF Home
  <2> QED
    BY <2>1, <2>2, StateIs DEF Moves
<1> HIDE DEF st
<1> QED
  BY <1>2, <1>3 DEF Reads, l

LEMMA DatagramReads ==
  ASSUME NEW n, NEW payload \in Payloads
  PROVE  Reads(Home(n), Datagram(payload), Home(Len(payload)))
<1>1. Header(payload) \in Seq(Characters) /\ payload \in Seq(Characters)
  BY HeaderTyped
<1> QED
  BY <1>1, HeaderReads, PayloadReads, ReadsJoin, DatagramIs

\* The interrupt does what the reading foretells.
LEMMA FrameFollows ==
  ASSUME Typed, ~overflow, NEW c, Frame(c), NEW m, Moves(Parser, c, m)
  PROVE  (overflow' => Overrun') /\ Parser' = m
<1>1. Parser.f = data_flag /\ Parser.b = len_buf /\ Parser.n = len /\ Parser.k = i
  BY StateIs DEF Parser
<1>2. i \in Nat /\ LEN_BUF \in Nat /\ DATA_BUF \in Nat
  BY Esp8266Assumption DEF Typed, ParserShape
<1> HIDE DEF Parser
<1>3. CASE data_flag = "LEN_S" /\ LengthEnds(c)
  <2>1. i < LEN_BUF /\ m = State("DATA_S", <<>>, atoi(len_buf), 0)
    BY <1>1, <1>3 DEF Moves
  <2>2. /\ len' = atoi(len_buf) /\ data_flag' = "DATA_S" /\ i' = 0 /\ len_buf' = <<>>
        /\ overflow' = (i >= LEN_BUF)
    BY <1>3 DEF Frame
  <2>3. ~(i >= LEN_BUF)
    BY <1>2, <2>1
  <2>4. ~overflow'
    BY <2>2, <2>3 DEF InOrder
  <2>5. Parser' = m
    BY <2>1, <2>2 DEF Parser
  <2> QED
    BY <2>4, <2>5
<1>4. CASE data_flag = "LEN_S" /\ ~LengthEnds(c)
  <2>1. i < LEN_BUF /\ m = State("LEN_S", Append(len_buf, c), len, i + 1)
    BY <1>1, <1>4 DEF Moves
  <2>2. /\ len_buf' = Append(len_buf, c) /\ i' = i + 1 /\ overflow' = (i >= LEN_BUF)
        /\ len' = len /\ data_flag' = "LEN_S"
    BY <1>4 DEF Frame
  <2>3. ~(i >= LEN_BUF)
    BY <1>2, <2>1
  <2>4. ~overflow'
    BY <2>2, <2>3 DEF InOrder
  <2>5. Parser' = m
    BY <2>1, <2>2 DEF Parser
  <2> QED
    BY <2>4, <2>5
<1>5. CASE data_flag = "DATA_S"
  <2>1. /\ i < len
        /\ m = IF i + 1 = len THEN State("ADD_S", len_buf, len, 0)
               ELSE State("DATA_S", len_buf, len, i + 1)
    BY <1>1, <1>5 DEF Moves
  <2>2. /\ overflow' = (i >= DATA_BUF)
        /\ len' = len /\ len_buf' = len_buf
        /\ i' = IF i + 1 = len THEN 0 ELSE i + 1
        /\ data_flag' = IF i + 1 = len THEN "ADD_S" ELSE "DATA_S"
    BY <1>5 DEF Frame, DataEnds
  <2>3. i >= DATA_BUF => i = DATA_BUF
    BY <1>2, <1>5 DEF Typed, ParserShape
  <2>4. overflow' => Overrun'
    <3> SUFFICES ASSUME overflow' PROVE Overrun'
      OBVIOUS
    <3>1. i = DATA_BUF
      BY <2>2, <2>3 DEF InOrder
    <3> QED
      BY <2>1, <2>2, <3>1 DEF Overrun
  <2>5. Parser' = m
    BY <2>1, <2>2 DEF Parser
  <2> QED
    BY <2>4, <2>5
<1>6. CASE data_flag \notin {"LEN_S", "DATA_S"}
  <2>1. m = State(IF c = Expected[data_flag][1] THEN Expected[data_flag][2] ELSE "ADD_S",
                  len_buf, len, i)
    BY <1>1, <1>6 DEF Moves
  <2>2. /\ data_flag' = IF c = Expected[data_flag][1] THEN Expected[data_flag][2] ELSE "ADD_S"
        /\ len' = len /\ len_buf' = len_buf /\ i' = i /\ overflow' = overflow
    BY <1>6 DEF Frame
  <2> QED
    BY <2>1, <2>2 DEF Parser
<1> QED
  BY <1>3, <1>4, <1>5, <1>6

\* More text for a parser that is going to end at home.
LEMMA ReadsMore ==
  ASSUME NEW s, NEW n, NEW m, NEW a \in Seq(Characters), NEW b \in Seq(Characters),
         Reads(s, a, Home(n)), Reads(Home(n), b, Home(m))
  PROVE  \E k : Reads(s, a \o b, Home(k))
BY ReadsJoin

LEMMA FramesInit == FirmwareInit => FramesWhole
<1> SUFFICES ASSUME FirmwareInit PROVE FramesWhole
  OBVIOUS
<1>1. Parser = Home(0) /\ line = <<>> /\ ~overflow
  BY DEF FirmwareInit, EspInit, Parser, Home
<1>2. Reads(Home(0), <<>>, Home(0))
  BY ReadsNothing
<1> QED
  BY <1>1, <1>2 DEF FramesWhole

\* A step that leaves the parser alone and has the module say something, or nothing.
LEMMA FramesSaid ==
  ASSUME Typed, FramesWhole, UNCHANGED <<data_flag, len_buf, len, i, overflow, lost>>,
         \/ line' = line
         \/ \E text \in {Ok, Failure, Busy, Prompt, Address} : line' = line \o text
         \/ \E payload \in Payloads : line' = line \o Datagram(payload)
  PROVE  FramesWhole'
<1> SUFFICES ASSUME ~lost' PROVE (overflow' => Overrun') /\ \E n : Reads(Parser', line', Home(n))
  BY DEF FramesWhole
<1>1. PICK n : Reads(Parser, line, Home(n))
  BY DEF FramesWhole
<1>2. Parser' = Parser /\ (overflow' => Overrun') /\ line \in Seq(Characters)
  BY DEF Parser, FramesWhole, Overrun, Typed, FirmwareTypeOK
<1>3. CASE line' = line
  BY <1>1, <1>2, <1>3
<1>4. ASSUME NEW text \in {Ok, Failure, Busy, Prompt, Address}, line' = line \o text
      PROVE  \E k : Reads(Parser', line', Home(k))
  BY <1>1, <1>2, <1>4, AnswersRead, ReadsMore, TextsTyped
<1>5. ASSUME NEW payload \in Payloads, line' = line \o Datagram(payload)
      PROVE  \E k : Reads(Parser', line', Home(k))
  BY <1>1, <1>2, <1>5, DatagramReads, ReadsMore, TextsTyped
<1> QED
  BY <1>2, <1>3, <1>4, <1>5

LEMMA FramesStep ==
  ASSUME Typed, FramesWhole, [FirmwareNext]_firmwareVars
  PROVE  FramesWhole'
<1>1. CASE Main
  <2>1. UNCHANGED <<data_flag, len_buf, len, i, overflow, lost>>
    BY <1>1 DEF Main, Sending, Clearing, Waiting, Delaying, Reading, SensorDies, Transmit,
                driver
  <2>2. line' = line \/ line' = line \o Busy
    BY <1>1 DEF Main, Sending, Clearing, Waiting, Delaying, Reading, SensorDies, Transmit, Say
  <2> QED
    BY <2>1, <2>2, FramesSaid
<1>2. CASE ~overflow /\ Interrupt
  <2> SUFFICES ASSUME ~lost' PROVE (overflow' => Overrun') /\ \E n : Reads(Parser', line', Home(n))
    BY DEF FramesWhole
  <2>1. line # <<>> /\ line' = Tail(line) /\ Frame(Head(line)) /\ lost' = lost
    BY <1>2 DEF Interrupt, dataHandler
  <2>2. PICK n : Reads(Parser, line, Home(n))
    BY <2>1 DEF FramesWhole
  <2>3. line \in Seq(Characters)
    BY DEF Typed, FirmwareTypeOK
  <2>4. PICK m : Moves(Parser, Head(line), m) /\ Reads(m, Tail(line), Home(n))
    BY <2>1, <2>2, <2>3, ReadsFirst
  <2>5. (overflow' => Overrun') /\ Parser' = m
    BY <1>2, <2>1, <2>4, FrameFollows
  <2> QED
    BY <2>1, <2>4, <2>5
<1>3. CASE Module
  <2>1. UNCHANGED <<data_flag, len_buf, len, i, overflow, lost>>
    BY <1>3, SaidIs DEF driver
  <2> QED
    BY <1>3, <2>1, SaidIs, FramesSaid
<1>4. CASE Noise
  BY <1>4 DEF Noise, LoseCharacter, FramesWhole
<1>5. CASE Peer
  <2>1. UNCHANGED <<data_flag, len_buf, len, i, overflow, lost>>
    BY <1>5 DEF Peer, DatagramArrives, driver
  <2>2. \E payload \in Payloads : line' = line \o Datagram(payload)
    BY <1>5 DEF Peer, DatagramArrives, Say
  <2> QED
    BY <2>1, <2>2, FramesSaid
<1>6. CASE UNCHANGED firmwareVars
  <2>1. UNCHANGED <<data_flag, len_buf, len, i, overflow, lost>> /\ line' = line
    BY <1>6 DEF firmwareVars, driver
  <2> QED
    BY <2>1, FramesSaid
<1> QED
  BY <1>1, <1>2, <1>3, <1>4, <1>5, <1>6 DEF FirmwareNext

LEMMA FramesImplied == Typed /\ FramesWhole => FramesInStep
<1> SUFFICES ASSUME Typed, FramesWhole PROVE FramesInStep
  OBVIOUS
<1>1. ASSUME ~lost, ~overflow, line = <<>> PROVE data_flag = "ADD_S" /\ i = 0 /\ len <= DATA_BUF
  <2>1. PICK n : Reads(Parser, <<>>, Home(n))
    BY <1>1 DEF FramesWhole
  <2>2. Parser = Home(n)
    BY <2>1, ReadsEnd
  <2> QED
    BY <1>1, <2>2, StateIs DEF Parser, Home, Typed, ParserShape
<1> QED
  BY <1>1 DEF FramesInStep, Typed, FramesWhole, Overrun

\* Every frame that arrives whole is read as one: the interrupt handler's dataHandler, for
\* every set of payloads and size of the buffers.  It stores behind data_buf only what a
\* datagram has that is longer, and never behind len_buf.
THEOREM FirmwareFramesInStep == FirmwareSpec => []FramesInStep
<1>1. FirmwareInit => Typed /\ FramesWhole
  BY TypedInit, FramesInit
<1>2. Typed /\ FramesWhole /\ [FirmwareNext]_firmwareVars => Typed' /\ FramesWhole'
  BY TypedStep, FramesStep
<1>3. Typed /\ FramesWhole => FramesInStep
  BY FramesImplied
<1> QED
  BY <1>1, <1>2, <1>3, PTL DEF FirmwareSpec

-----------------------------------------------------------------------------
(* The exchange with the module *)

\* What the line still holds of the two characters that end a wait.
Quiet(s) == \A k \in 1 .. Len(s) : s[k] \notin {"K", ">"}
NoK(s) == \A k \in 1 .. Len(s) : s[k] # "K"
NoPrompt(s) == \A k \in 1 .. Len(s) : s[k] # ">"
OneK(s) == \A k, n \in 1 .. Len(s) : s[k] = "K" /\ s[n] = "K" => k = n
PromptLast(s) == \A k \in 1 .. Len(s) : s[k] = ">" => k = Len(s)

\* Ready for a command, with no answer on its way.
Ready == job = "none" /\ mode = "command" /\ Quiet(line)
\* Ready for data: the prompt was the last thing said.
ReadyForData == job = "none" /\ mode = "data" /\ line = <<>>

\* A command is worked on, or was answered, or refused.
Commanded(command) ==
  /\ mode = "command"
  /\ \/ job = command /\ Quiet(line)
     \/ job = "none" /\ NoPrompt(line) /\ OneK(line)

\* The OK of CIPSEND was taken, the prompt was not.
Prompting ==
  /\ NoK(line)
  /\ \/ job = "prompt" /\ mode = "command" /\ NoPrompt(line)
     \/ job = "none" /\ mode = "data" /\ PromptLast(line)

\* CIPSEND was sent, its OK was not taken.
Announced ==
  \/ job = "CIPSEND" /\ mode = "command" /\ Quiet(line)
  \/ job = "prompt" /\ mode = "command" /\ NoPrompt(line) /\ OneK(line)
  \/ job = "none" /\ mode = "data" /\ OneK(line) /\ PromptLast(line)
  \/ Ready

\* The message was handed over, its OK was not taken.
HandedOver(message) ==
  \/ job = message /\ mode = "data" /\ Quiet(line)
  \/ job = "none" /\ mode = "command" /\ NoPrompt(line) /\ OneK(line) /\ air.what = message
  \/ Ready

\* Where the module is at each instruction of the start; after a wait that is over
\* the next instruction's condition holds.
Starting ==
  /\ pc \in {1, 3, 4, 6, 7, 9, 11, 13, 15} => Ready
  /\ pc = 2 => mode = "command" /\ job \in {"none", "RST"}
  /\ pc = 5 => IF ok_flag = 0 THEN Commanded("CWMODE") ELSE Ready
  /\ pc = 8 => IF ok_flag = 0 THEN Commanded("CWJAP") ELSE Ready
  /\ pc = 10 => mode = "command" /\ job \in {"none", "CIFSR"}
  /\ pc = 12 => mode = "command" /\ job \in {"none", "CIPCLOSE"}
  /\ pc = 14 => mode = "command" /\ job \in {"none", "CIPSTART"}
  /\ pc \in {4, 7} => ok_flag = 0

\* The same for one message of the loop, whose instructions come after the base.
Exchange(base, message, other) ==
  /\ pc \in base + 1 .. base + 8 /\ ~(pc = base + 8 /\ job = "none") => air.what = other
  /\ pc \in {base + 1, base + 2} => Ready
  /\ pc \in {base + 2, base + 7} => ok_flag = 0
  /\ pc = base + 3 => IF ok_flag = 0 THEN Announced ELSE Prompting
  /\ pc = base + 4 => Prompting
  /\ pc = base + 5 => IF ok_flag = 0 THEN Prompting ELSE ReadyForData
  /\ pc \in {base + 6, base + 7} => ReadyForData
  /\ pc = base + 8 => IF ok_flag = 0 THEN HandedOver(message) ELSE Ready /\ air.what = message
  /\ pc = base + 9 => Ready /\ air.what = message

Handshake ==
  ~untimely =>
    /\ Starting
    /\ pc <= 15 => air.what = "humidity"
    /\ Exchange(15, "temperature", "humidity")
    /\ Exchange(24, "humidity", "temperature")

\* The program's values are the last reading that came through.
Current == current = lastGood /\ dht_data \in {Bad, current}

\* No datagram holds a character that could end a wait.
Unmistakable == \A payload \in Payloads : Quiet(payload)

LEMMA QuietIs ==
  ASSUME NEW s
  PROVE  /\ Quiet(s) <=> NoK(s) /\ NoPrompt(s)
         /\ NoK(s) => OneK(s)
         /\ NoPrompt(s) => PromptLast(s)
BY DEF Quiet, NoK, NoPrompt, OneK, PromptLast

LEMMA NothingQuiet == Quiet(<<>>)
BY DEF Quiet

\* One character less.
LEMMA TailIs ==
  ASSUME NEW s \in Seq(Characters), s # <<>>
  PROVE  /\ NoK(s) => NoK(Tail(s)) /\ Head(s) # "K"
         /\ NoPrompt(s) => NoPrompt(Tail(s)) /\ Head(s) # ">"
         /\ OneK(s) => OneK(Tail(s)) /\ (Head(s) = "K" => NoK(Tail(s)))
         /\ PromptLast(s) => PromptLast(Tail(s)) /\ (Head(s) = ">" => Tail(s) = <<>>)
<1>1. /\ Len(s) \in Nat \ {0} /\ Head(s) = s[1] /\ Len(Tail(s)) = Len(s) - 1
      /\ \A k \in 1 .. Len(s) - 1 : Tail(s)[k] = s[k + 1] /\ k + 1 \in 1 .. Len(s)
      /\ Tail(s) \in Seq(Characters)
  OBVIOUS
<1>2. NoK(s) => NoK(Tail(s)) /\ Head(s) # "K"
  BY <1>1 DEF NoK
<1>3. NoPrompt(s) => NoPrompt(Tail(s)) /\ Head(s) # ">"
  BY <1>1 DEF NoPrompt
<1>4. OneK(s) => OneK(Tail(s))
  BY <1>1 DEF OneK
<1>5. OneK(s) /\ Head(s) = "K" => NoK(Tail(s))
  BY <1>1 DEF OneK, NoK
<1>6. ASSUME PromptLast(s), NEW k \in 1 .. Len(Tail(s)), Tail(s)[k] = ">"
      PROVE  k = Len(Tail(s))
  <2>1. s[k + 1] = ">" /\ k + 1 \in 1 .. Len(s)
    BY <1>1, <1>6
  <2>2. k + 1 = Len(s)
    BY <1>6, <2>1 DEF PromptLast
  <2>3. Len(s) \in Nat /\ Len(Tail(s)) = Len(s) - 1 /\ k \in Nat
    BY <1>1
  <2> QED
    BY ONLY <2>2, <2>3
<1>7. ASSUME PromptLast(s), Head(s) = ">" PROVE Tail(s) = <<>>
  <2>1. 1 \in 1 .. Len(s) /\ s[1] = ">"
    BY <1>1, <1>7
  <2>2. Len(s) = 1
    BY <1>7, <2>1 DEF PromptLast
  <2>3. Len(Tail(s)) = 0
    BY <1>1, <2>2
  <2> QED
    BY <1>1, <2>3, EmptySeq
<1> QED
  BY <1>2, <1>3, <1>4, <1>5, <1>6, <1>7 DEF PromptLast

\* One text more.
LEMMA MoreIs ==
  ASSUME NEW s \in Seq(Characters), NEW t \in Seq(Characters)
  PROVE  /\ NoK(s) /\ NoK(t) => NoK(s \o t)
         /\ NoPrompt(s) /\ NoPrompt(t) => NoPrompt(s \o t)
         /\ OneK(s) /\ NoK(t) => OneK(s \o t)
         /\ NoK(s) /\ OneK(t) => OneK(s \o t)
         /\ NoPrompt(s) /\ PromptLast(t) => PromptLast(s \o t)
<1> DEFINE st == s \o t
<1>1. /\ Len(st) = Len(s) + Len(t)
      /\ \A k \in 1 .. Len(s) + Len(t) : st[k] = IF k <= Len(s) THEN s[k] ELSE t[k - Len(s)]
  BY ConcatProperties
<1>2. \A k \in 1 .. Len(st) : \/ k \in 1 .. Len(s) /\ st[k] = s[k]
                              \/ k - Len(s) \in 1 .. Len(t) /\ st[k] = t[k - Len(s)]
  BY <1>1
<1>3. Len(s) \in Nat /\ Len(t) \in Nat
  OBVIOUS
<1> HIDE DEF st
<1>4. NoK(s) /\ NoK(t) => NoK(st)
  BY <1>2 DEF NoK
<1>5. NoPrompt(s) /\ NoPrompt(t) => NoPrompt(st)
  BY <1>2 DEF NoPrompt
<1>6. OneK(s) /\ NoK(t) => OneK(st)
  BY <1>2 DEF NoK, OneK
<1>7. ASSUME NoK(s), OneK(t), NEW k \in 1 .. Len(st), NEW n \in 1 .. Len(st),
             st[k] = "K", st[n] = "K"
      PROVE  k = n
  <2>1. /\ k - Len(s) \in 1 .. Len(t) /\ t[k - Len(s)] = "K"
        /\ n - Len(s) \in 1 .. Len(t) /\ t[n - Len(s)] = "K"
    BY <1>2, <1>7 DEF NoK
  <2>2. k - Len(s) = n - Len(s)
    BY <1>7, <2>1 DEF OneK
  <2> QED
    BY <1>1, <1>3, <2>2
<1>8. ASSUME NoPrompt(s), PromptLast(t), NEW k \in 1 .. Len(st), st[k] = ">"
      PROVE  k = Len(st)
  <2>1. k - Len(s) \in 1 .. Len(t) /\ t[k - Len(s)] = ">"
    BY <1>2, <1>8 DEF NoPrompt
  <2>2. k - Len(s) = Len(t)
    BY <1>8, <2>1 DEF PromptLast
  <2> QED
    BY <1>1, <1>3, <2>2
<1> QED
  BY <1>4, <1>5, <1>6, <1>7, <1>8 DEF OneK, PromptLast, st

LEMMA TextsQuiet ==
  /\ Quiet(Failure) /\ Quiet(Busy)
  /\ NoPrompt(Ok) /\ OneK(Ok) /\ NoK(Prompt) /\ PromptLast(Prompt)
  /\ Unmistakable => \A payload \in Payloads : Quiet(Datagram(payload))
<1>1. Quiet(Failure) /\ Quiet(Busy)
  BY DEF Failure, Busy, Quiet
<1>2. NoPrompt(Ok) /\ OneK(Ok)
  BY DEF Ok, NoPrompt, OneK
<1>3. NoK(Prompt) /\ PromptLast(Prompt)
  BY DEF Prompt, NoK, PromptLast
<1>4. ASSUME Unmistakable, NEW payload \in Payloads PROVE Quiet(Datagram(payload))
  <2>1. Quiet(Header(payload))
    <3> DEFINE h == Header(payload)
    <3>1. /\ Len(h) = 7 /\ h[1] = "+" /\ h[2] = "I" /\ h[3] = "P" /\ h[4] = "D"
          /\ h[5] = "," /\ h[6] \in Digits /\ h[7] = ":"
      BY HeaderTyped DEF Header
    <3> HIDE DEF h
    <3>2. ASSUME NEW k \in 1 .. 7 PROVE h[k] \notin {"K", ">"}
      <4>1. k = 1 \/ k = 2 \/ k = 3 \/ k = 4 \/ k = 5 \/ k = 6 \/ k = 7
        OBVIOUS
      <4> QED
        BY <3>1, <4>1, DigitsAre
    <3>3. Quiet(h)
      BY <3>1, <3>2 DEF Quiet
    <3> QED
      BY <3>3 DEF h
  <2>2. Header(payload) \in Seq(Characters)
    BY HeaderTyped
  <2>3. payload \in Seq(Characters) /\ Quiet(payload)
    BY <1>4, Esp8266Assumption DEF Unmistakable
  <2> QED
    BY <2>1, <2>2, <2>3, DatagramIs, MoreIs, QuietIs
<1> QED
  BY <1>1, <1>2, <1>3, <1>4

\* A character taken from the line, by the interrupt or by noise.
LEMMA TakenKeeps ==
  ASSUME line \in Seq(Characters), line # <<>>, line' = Tail(line),
         UNCHANGED <<job, mode, air>>
  PROVE  /\ Ready => Ready' /\ Head(line) \notin {"K", ">"}
         /\ ~ReadyForData
         /\ \A command : Commanded(command) =>
              Commanded(command)' /\ (Head(line) \in {"K", ">"} => Ready')
         /\ Announced => Announced' /\ (Head(line) \in {"K", ">"} => Prompting')
         /\ Prompting => Prompting' /\ (Head(line) \in {"K", ">"} => ReadyForData')
         /\ \A message : HandedOver(message) =>
              /\ HandedOver(message)'
              /\ Head(line) \in {"K", ">"} => Ready' /\ air'.what = message
<1>1. Ready => Ready' /\ Head(line) \notin {"K", ">"}
  BY TailIs, QuietIs DEF Ready
<1>2. ~ReadyForData
  BY DEF ReadyForData
<1>3. ASSUME NEW command, Commanded(command)
      PROVE  Commanded(command)' /\ (Head(line) \in {"K", ">"} => Ready')
  BY <1>3, TailIs, QuietIs DEF Commanded, Ready
<1>4. Announced => Announced' /\ (Head(line) \in {"K", ">"} => Prompting')
  <2>1. ASSUME Announced PROVE Announced'
    BY <1>1, <2>1, TailIs, QuietIs DEF Announced
  <2>2. ASSUME Announced, Head(line) = "K" PROVE Prompting'
    BY <1>1, <2>2, TailIs, QuietIs DEF Announced, Prompting
  <2>3. ASSUME Announced, Head(line) = ">" PROVE Prompting'
    <3>1. job = "none" /\ mode = "data" /\ line' = <<>>
      BY <1>1, <2>3, TailIs, QuietIs DEF Announced
    <3> QED
      BY <3>1, NothingQuiet, QuietIs DEF Prompting
  <2> QED
    BY <2>1, <2>2, <2>3
<1>5. Prompting => Prompting' /\ (Head(line) \in {"K", ">"} => ReadyForData')
  BY TailIs, QuietIs DEF Prompting, ReadyForData
<1>6. ASSUME NEW message, HandedOver(message)
      PROVE  /\ HandedOver(message)'
             /\ Head(line) \in {"K", ">"} => Ready' /\ air'.what = message
  <2>1. HandedOver(message)'
    BY <1>1, <1>6, TailIs, QuietIs DEF HandedOver
  <2>2. ASSUME Head(line) \in {"K", ">"} PROVE Ready' /\ air'.what = message
    <3>1. job = "none" /\ mode = "command" /\ NoPrompt(line) /\ OneK(line) /\ air.what = message
      BY <1>1, <1>6, <2>2, TailIs, QuietIs DEF HandedOver
    <3> QED
      BY <2>2, <3>1, TailIs, QuietIs DEF Ready
  <2> QED
    BY <2>1, <2>2
<1> QED
  BY <1>1, <1>2, <1>3, <1>4, <1>5, <1>6

\* A datagram for the parser.
LEMMA DatagramKeeps ==
  ASSUME line \in Seq(Characters), NEW text \in Seq(Characters), Quiet(text),
         line' = line \o text, mode = "command", UNCHANGED <<job, mode, air>>
  PROVE  /\ Ready => Ready'
         /\ ~ReadyForData
         /\ \A command : Commanded(command) => Commanded(command)'
         /\ Announced => Announced'
         /\ Prompting => Prompting'
         /\ \A message : HandedOver(message) => HandedOver(message)'
<1>1. NoK(text) /\ NoPrompt(text)
  BY QuietIs
<1>2. Ready => Ready'
  BY <1>1, MoreIs, QuietIs DEF Ready
<1>3. ~ReadyForData
  BY DEF ReadyForData
<1>4. ASSUME NEW command, Commanded(command) PROVE Commanded(command)'
  BY <1>1, <1>4, MoreIs, QuietIs DEF Commanded
<1>5. Announced => Announced'
  BY <1>1, <1>2, MoreIs, QuietIs DEF Announced
<1>6. Prompting => Prompting'
  BY <1>1, MoreIs, QuietIs DEF Prompting
<1>7. ASSUME NEW message, HandedOver(message) PROVE HandedOver(message)'
  BY <1>1, <1>2, <1>7, MoreIs, QuietIs DEF HandedOver
<1> QED
  BY <1>2, <1>3, <1>4, <1>5, <1>6, <1>7

\* An answer of the module.
LEMMA AnswerKeeps ==
  ASSUME line \in Seq(Characters), ModuleAnswers, UNCHANGED air
  PROVE  /\ ~Ready /\ ~ReadyForData
         /\ \A command \in {"CWMODE", "CWJAP"} : Commanded(command) => Commanded(command)'
         /\ Announced => Announced'
         /\ Prompting => Prompting'
         /\ \A message \in Messages : HandedOver(message) => HandedOver(message)' /\ job' = "none"
         /\ \A command \in {"RST", "CIFSR", "CIPCLOSE", "CIPSTART"} :
              mode = "command" /\ job = command => mode' = "command" /\ job' = "none"
<1>1. job # "none" /\ job' = IF job = "CIPSEND" /\ linked THEN "prompt" ELSE "none"
  BY AnswersAre DEF NextJob
<1>2. ~Ready /\ ~ReadyForData
  BY <1>1 DEF Ready, ReadyForData
<1>3. /\ Ok \in Seq(Characters) /\ Failure \in Seq(Characters) /\ Prompt \in Seq(Characters)
      /\ NoK(Failure) /\ NoPrompt(Failure)
      /\ NoPrompt(Ok) /\ OneK(Ok) /\ NoK(Prompt) /\ PromptLast(Prompt)
  BY TextsTyped, TextsQuiet, QuietIs
<1>4. ASSUME NEW command \in {"CWMODE", "CWJAP"}, Commanded(command)
      PROVE  Commanded(command)'
  <2>1. job = command /\ mode = "command" /\ Quiet(line) /\ job' = "none"
    BY <1>1, <1>4 DEF Commanded
  <2>2. mode' = "command" /\ (line' = line \o Ok \/ line' = line \o Failure)
    BY <2>1, AnswersAre
  <2>3. NoPrompt(line') /\ OneK(line')
    BY <1>3, <2>1, <2>2, MoreIs, QuietIs
  <2> QED
    BY <2>1, <2>2, <2>3 DEF Commanded
<1>5. ASSUME Announced PROVE Announced'
  <2>1. CASE job = "CIPSEND" /\ mode = "command" /\ Quiet(line)
    <3>1. CASE linked /\ line' = line \o Ok /\ mode' = mode
      <4>1. job' = "prompt" /\ mode' = "command" /\ NoPrompt(line') /\ OneK(line')
        BY <1>1, <1>3, <2>1, <3>1, MoreIs, QuietIs
      <4> QED
        BY <4>1 DEF Announced
    <3>2. CASE ~linked /\ line' = line \o Failure /\ mode' = "command"
      <4>1. job' = "none" /\ Quiet(line')
        BY <1>1, <1>3, <2>1, <3>2, MoreIs, QuietIs
      <4> QED
        BY <3>2, <4>1 DEF Announced, Ready
    <3> QED
      BY <2>1, <3>1, <3>2, AnswersAre DEF Messages
  <2>2. CASE job = "prompt" /\ mode = "command" /\ NoPrompt(line) /\ OneK(line)
    <3>1. line' = line \o Prompt /\ mode' = "data" /\ job' = "none"
      BY <1>1, <2>2, AnswersAre DEF Messages
    <3>2. OneK(line') /\ PromptLast(line')
      BY <1>3, <2>2, <3>1, MoreIs
    <3> QED
      BY <3>1, <3>2 DEF Announced
  <2> QED
    BY <1>1, <1>2, <1>5, <2>1, <2>2 DEF Announced
<1>6. ASSUME Prompting PROVE Prompting'
  <2>1. job = "prompt" /\ mode = "command" /\ NoPrompt(line) /\ NoK(line)
    BY <1>1, <1>6 DEF Prompting
  <2>2. line' = line \o Prompt /\ mode' = "data" /\ job' = "none"
    BY <1>1, <2>1, AnswersAre DEF Messages
  <2>3. NoK(line') /\ PromptLast(line')
    BY <1>3, <2>1, <2>2, MoreIs
  <2> QED
    BY <2>2, <2>3 DEF Prompting
<1>7. ASSUME NEW message \in Messages, HandedOver(message)
      PROVE  HandedOver(message)' /\ job' = "none"
  <2>1. job = message /\ mode = "data" /\ Quiet(line)
    BY <1>1, <1>2, <1>7 DEF HandedOver
  <2>2. line' = line \o Failure /\ mode' = "command" /\ job' = "none"
    BY <1>1, <2>1, AnswersAre DEF Messages
  <2>3. Quiet(line')
    BY <1>3, <2>1, <2>2, MoreIs, QuietIs
  <2> QED
    BY <2>2, <2>3 DEF HandedOver, Ready
<1>8. ASSUME NEW command \in {"RST", "CIFSR", "CIPCLOSE", "CIPSTART"},
             mode = "command", job = command
      PROVE  mode' = "command" /\ job' = "none"
  BY <1>1, <1>8, AnswersAre DEF Messages
<1> QED
  BY <1>2, <1>4, <1>5, <1>6, <1>7, <1>8

\* The datagram leaves only while the main loop waits for it to.
LEMMA LeavesKeeps ==
  ASSUME line \in Seq(Characters), Leaves
  PROVE  /\ ~Ready /\ ~ReadyForData /\ mode = "data"
         /\ \A command : ~Commanded(command)
         /\ ~Announced /\ ~Prompting
         /\ \A message \in Messages : HandedOver(message) =>
              /\ job = message /\ HandedOver(message)'
              /\ job' = "none" /\ air' = [what |-> message, value |-> current]
<1>1. /\ job # "none" /\ job' = (IF job = "CIPSEND" /\ linked THEN "prompt" ELSE "none")
      /\ mode = "data" /\ line' = line \o Ok /\ mode' = "command"
      /\ air' = [what |-> job, value |-> current]
  BY DEF Leaves, ModuleSends, NextJob, Accept, Say
<1>2. ~Ready /\ ~ReadyForData
  BY <1>1 DEF Ready, ReadyForData
<1>3. \A command : ~Commanded(command)
  BY <1>1 DEF Commanded
<1>4. ~Announced /\ ~Prompting
  BY <1>1, <1>2 DEF Announced, Prompting
<1>5. ASSUME NEW message \in Messages, HandedOver(message)
      PROVE  /\ job = message /\ HandedOver(message)'
             /\ job' = "none" /\ air' = [what |-> message, value |-> current]
  <2>1. job = message /\ Quiet(line)
    BY <1>1, <1>2, <1>5 DEF HandedOver
  <2>2. NoPrompt(line') /\ OneK(line')
    BY <1>1, <2>1, MoreIs, QuietIs, TextsTyped, TextsQuiet
  <2>3. job' = "none" /\ air' = [what |-> message, value |-> current] /\ air'.what = message
    BY <1>1, <2>1 DEF Messages
  <2> QED
    BY <1>1, <2>1, <2>2, <2>3 DEF HandedOver
<1> QED
  BY <1>1, <1>2, <1>3, <1>4, <1>5

LEMMA HandshakeInit == FirmwareInit => Handshake /\ Current
<1> SUFFICES ASSUME FirmwareInit PROVE Handshake /\ Current
  OBVIOUS
<1>1. /\ job = "none" /\ mode = "command" /\ line = <<>> /\ pc = 1
      /\ air = [what |-> "humidity", value |-> 0]
      /\ dht_data = 0 /\ current = 0 /\ lastGood = 0
  BY DEF FirmwareInit, EspInit
<1>2. Ready
  BY <1>1, NothingQuiet DEF Ready
<1>3. Starting
  BY <1>1, <1>2 DEF Starting
<1>4. \A m, o : Exchange(15, m, o) /\ Exchange(24, m, o)
  BY <1>1 DEF Exchange
<1> QED
  BY <1>1, <1>3, <1>4 DEF Handshake, Current

\* What the interrupt and noise have in common.
Taken ==
  /\ line # <<>> /\ line' = Tail(line) /\ UNCHANGED <<job, mode, air, pc, untimely>>
  /\ ok_flag' \in {0, 1} /\ (ok_flag = 1 => ok_flag' = 1)
  /\ ok_flag # ok_flag' => Head(line) \in {"K", ">"}

LEMMA TakenIs ==
  ASSUME Typed, Interrupt \/ Noise
  PROVE  Taken
<1>1. CASE Interrupt
  <2>1. /\ line # <<>> /\ line' = Tail(line) /\ Answered(Head(line))
        /\ UNCHANGED <<job, mode, air, pc, untimely>>
    BY <1>1 DEF Interrupt, dataHandler, module, main
  <2>2. /\ ok_flag' \in {0, 1} /\ (ok_flag = 1 => ok_flag' = 1)
        /\ ok_flag # ok_flag' => Head(line) \in {"K", ">"}
    BY <2>1 DEF Answered, Typed, FirmwareTypeOK
  <2> QED
    BY <2>1, <2>2 DEF Taken
<1>2. CASE Noise
  BY <1>2 DEF Noise, LoseCharacter, driver, module, main, Taken, Typed, FirmwareTypeOK
<1> QED
  BY <1>1, <1>2

LEMMA TakenStarting ==
  ASSUME Typed, Taken, Starting
  PROVE  Starting'
<1>1. line \in Seq(Characters) /\ pc \in 1 .. 33 /\ ok_flag \in {0, 1}
  BY ProgramIs DEF Typed, FirmwareTypeOK
<1>2. /\ pc' = pc /\ job' = job /\ mode' = mode /\ ok_flag' \in {0, 1}
      /\ (ok_flag = 1 => ok_flag' = 1)
      /\ ok_flag # ok_flag' => Head(line) \in {"K", ">"}
  BY DEF Taken
<1>3. /\ Ready => Ready' /\ Head(line) \notin {"K", ">"}
      /\ Commanded("CWMODE") => Commanded("CWMODE")' /\ (Head(line) \in {"K", ">"} => Ready')
      /\ Commanded("CWJAP") => Commanded("CWJAP")' /\ (Head(line) \in {"K", ">"} => Ready')
  BY <1>1, TakenKeeps DEF Taken
<1> QED
  BY <1>1, <1>2, <1>3 DEF Starting

LEMMA TakenExchange ==
  ASSUME Typed, Taken, NEW base \in {15, 24}, NEW message, NEW other,
         Exchange(base, message, other)
  PROVE  Exchange(base, message, other)'
<1>1. line \in Seq(Characters) /\ pc \in 1 .. 33 /\ ok_flag \in {0, 1}
  BY ProgramIs DEF Typed, FirmwareTypeOK
<1>2. /\ pc' = pc /\ job' = job /\ air' = air /\ ok_flag' \in {0, 1}
      /\ (ok_flag = 1 => ok_flag' = 1)
      /\ ok_flag # ok_flag' => Head(line) \in {"K", ">"}
  BY DEF Taken
<1>3. /\ Ready => Ready' /\ Head(line) \notin {"K", ">"}
      /\ ~ReadyForData
      /\ Announced => Announced' /\ (Head(line) \in {"K", ">"} => Prompting')
      /\ Prompting => Prompting' /\ (Head(line) \in {"K", ">"} => ReadyForData')
      /\ HandedOver(message) =>
           /\ HandedOver(message)'
           /\ Head(line) \in {"K", ">"} => Ready' /\ air'.what = message
  BY <1>1, TakenKeeps DEF Taken
<1> QED
  BY <1>1, <1>2, <1>3 DEF Exchange

LEMMA HandshakeTaken ==
  ASSUME Typed, Taken, Handshake
  PROVE  Handshake'
<1> SUFFICES ASSUME ~untimely
             PROVE  /\ Starting' /\ (pc' <= 15 => air'.what = "humidity")
                    /\ Exchange(15, "temperature", "humidity")'
                    /\ Exchange(24, "humidity", "temperature")'
  BY DEF Handshake, Taken
<1>1. Starting'
  BY TakenStarting DEF Handshake
<1>2. Exchange(15, "temperature", "humidity")' /\ Exchange(24, "humidity", "temperature")'
  BY TakenExchange DEF Handshake
<1>3. pc' <= 15 => air'.what = "humidity"
  BY DEF Handshake, Taken
<1> QED
  BY <1>1, <1>2, <1>3

LEMMA HandshakePeer ==
  ASSUME Typed, Unmistakable, Peer, Handshake
  PROVE  Handshake'
<1>1. line \in Seq(Characters) /\ pc \in 1 .. 33 /\ ok_flag \in {0, 1}
  BY ProgramIs DEF Typed, FirmwareTypeOK
<1>2. /\ UNCHANGED <<job, mode, air, pc, ok_flag, untimely>> /\ mode = "command"
      /\ \E payload \in Payloads : line' = line \o Datagram(payload)
  BY DEF Peer, DatagramArrives, Say, driver, module, main
<1>3. PICK text \in Seq(Characters) : Quiet(text) /\ line' = line \o text
  BY <1>2, TextsTyped, TextsQuiet
<1>4. /\ Ready => Ready'
      /\ ~ReadyForData
      /\ Commanded("CWMODE") => Commanded("CWMODE")'
      /\ Commanded("CWJAP") => Commanded("CWJAP")'
      /\ Announced => Announced'
      /\ Prompting => Prompting'
      /\ HandedOver("temperature") => HandedOver("temperature")'
      /\ HandedOver("humidity") => HandedOver("humidity")'
  BY <1>1, <1>2, <1>3, DatagramKeeps
<1> SUFFICES ASSUME ~untimely
             PROVE  /\ Starting' /\ (pc' <= 15 => air'.what = "humidity")
                    /\ Exchange(15, "temperature", "humidity")'
                    /\ Exchange(24, "humidity", "temperature")'
  BY <1>2 DEF Handshake
<1>5. Starting'
  BY <1>1, <1>2, <1>4 DEF Handshake, Starting
<1>6. Exchange(15, "temperature", "humidity")'
  BY <1>1, <1>2, <1>4 DEF Handshake, Exchange
<1>7. Exchange(24, "humidity", "temperature")'
  BY <1>1, <1>2, <1>4 DEF Handshake, Exchange
<1> QED
  BY <1>2, <1>5, <1>6, <1>7 DEF Handshake

LEMMA HandshakeAnswer ==
  ASSUME Typed, ModuleAnswers, UNCHANGED <<air, pc, untimely>>, Handshake
  PROVE  Handshake'
<1>1. line \in Seq(Characters) /\ pc \in 1 .. 33 /\ ok_flag \in {0, 1}
  BY ProgramIs DEF Typed, FirmwareTypeOK
<1>2. ok_flag' = ok_flag /\ job # "none"
  BY AnswersAre DEF driver, NextJob
<1>3. /\ ~Ready /\ ~ReadyForData
      /\ Commanded("CWMODE") => Commanded("CWMODE")'
      /\ Commanded("CWJAP") => Commanded("CWJAP")'
      /\ Announced => Announced'
      /\ Prompting => Prompting'
      /\ HandedOver("temperature") => HandedOver("temperature")' /\ job' = "none"
      /\ HandedOver("humidity") => HandedOver("humidity")' /\ job' = "none"
      /\ mode = "command" /\ job \in {"RST", "CIFSR", "CIPCLOSE", "CIPSTART"} =>
           mode' = "command" /\ job' = "none"
  BY <1>1, AnswerKeeps DEF Messages
<1> SUFFICES ASSUME ~untimely
             PROVE  /\ Starting' /\ (pc' <= 15 => air'.what = "humidity")
                    /\ Exchange(15, "temperature", "humidity")'
                    /\ Exchange(24, "humidity", "temperature")'
  BY DEF Handshake
<1>4. Starting'
  BY <1>1, <1>2, <1>3 DEF Handshake, Starting
<1>5. Exchange(15, "temperature", "humidity")'
  BY <1>1, <1>2, <1>3 DEF Handshake, Exchange
<1>6. Exchange(24, "humidity", "temperature")'
  BY <1>1, <1>2, <1>3 DEF Handshake, Exchange
<1> QED
  BY <1>4, <1>5, <1>6 DEF Handshake

\* The datagram leaves at the last wait of a message.
LEMMA LeavesWhere ==
  ASSUME Typed, Leaves, Handshake, ~untimely
  PROVE  \/ pc = 23 /\ ok_flag = 0 /\ HandedOver("temperature") /\ air.what = "humidity"
         \/ pc = 32 /\ ok_flag = 0 /\ HandedOver("humidity") /\ air.what = "temperature"
<1>1. line \in Seq(Characters) /\ pc \in 1 .. 33 /\ ok_flag \in {0, 1} /\ job # "none"
  BY ProgramIs DEF Typed, FirmwareTypeOK, Leaves, ModuleSends, NextJob
<1>2. /\ ~Ready /\ ~ReadyForData /\ mode = "data"
      /\ ~Commanded("CWMODE") /\ ~Commanded("CWJAP") /\ ~Announced /\ ~Prompting
  BY <1>1, LeavesKeeps
<1>3. pc \notin 1 .. 15
  BY <1>1, <1>2 DEF Handshake, Starting
<1>4. pc \in 16 .. 24 => pc = 23 /\ ok_flag = 0 /\ HandedOver("temperature") /\ air.what = "humidity"
  BY <1>1, <1>2 DEF Handshake, Exchange
<1>5. pc \in 25 .. 33 => pc = 32 /\ ok_flag = 0 /\ HandedOver("humidity") /\ air.what = "temperature"
  BY <1>1, <1>2 DEF Handshake, Exchange
<1> QED
  BY <1>1, <1>3, <1>4, <1>5

LEMMA HandshakeLeaves ==
  ASSUME Typed, Leaves, UNCHANGED <<pc, untimely>>, Handshake
  PROVE  Handshake'
<1> SUFFICES ASSUME ~untimely
             PROVE  /\ Starting' /\ (pc' <= 15 => air'.what = "humidity")
                    /\ Exchange(15, "temperature", "humidity")'
                    /\ Exchange(24, "humidity", "temperature")'
  BY DEF Handshake
<1>1. line \in Seq(Characters) /\ ok_flag' = ok_flag
  BY DEF Typed, FirmwareTypeOK, Leaves, ModuleSends, driver
<1>2. CASE pc = 23 /\ ok_flag = 0 /\ HandedOver("temperature")
  <2>1. HandedOver("temperature")' /\ job' = "none"
    BY <1>1, <1>2, LeavesKeeps DEF Messages
  <2> QED
    BY <1>1, <1>2, <2>1 DEF Starting, Exchange
<1>3. CASE pc = 32 /\ ok_flag = 0 /\ HandedOver("humidity")
  <2>1. HandedOver("humidity")' /\ job' = "none"
    BY <1>1, <1>3, LeavesKeeps DEF Messages
  <2> QED
    BY <1>1, <1>3, <2>1 DEF Starting, Exchange
<1> QED
  BY <1>2, <1>3, LeavesWhere

\* What the conditions at an instruction say, when only the program has moved.
LEMMA SameModule ==
  ASSUME UNCHANGED <<job, mode, line, air>>
  PROVE  /\ Ready' = Ready /\ ReadyForData' = ReadyForData
         /\ Announced' = Announced /\ Prompting' = Prompting
         /\ \A command : Commanded(command)' = Commanded(command)
         /\ \A message : HandedOver(message)' = HandedOver(message)
BY DEF Ready, ReadyForData, Announced, Prompting, Commanded, HandedOver, Quiet, NoK, NoPrompt,
       OneK, PromptLast

LEMMA SendsInStep ==
  ASSUME Typed, Handshake, ~untimely, Instruction.do = "send"
  PROVE  \/ /\ pc \in {1, 4, 7, 9, 11, 13, 17, 26} /\ Instruction.what \notin Messages
            /\ Ready
         \/ /\ pc \in {22, 31} /\ Instruction.what \in Messages
            /\ ReadyForData
<1>1. pc \in 1 .. 33
  BY ProgramIs DEF Typed, FirmwareTypeOK
<1>2. pc \in {1, 4, 7, 9, 11, 13, 17, 22, 26, 31}
  BY <1>1, Places
<1>3. CASE pc \in {1, 4, 7, 9, 11, 13}
  <2>1. Instruction.what \notin Messages
    BY <1>1, <1>3, Places DEF Messages
  <2> QED
    BY <1>3, <2>1 DEF Handshake, Starting
<1>4. CASE pc \in {17, 26}
  <2>1. Instruction.what \notin Messages
    BY <1>1, <1>4, Places DEF Messages
  <2> QED
    BY <1>4, <2>1 DEF Handshake, Exchange
<1>5. CASE pc \in {22, 31}
  <2>1. Instruction.what \in Messages
    BY <1>1, <1>5, Places DEF Messages
  <2> QED
    BY <1>5, <2>1 DEF Handshake, Exchange
<1> QED
  BY <1>2, <1>3, <1>4, <1>5

LEMMA HandshakeSending ==
  ASSUME Typed, Handshake, Sending
  PROVE  Handshake'
<1> SUFFICES ASSUME ~untimely
             PROVE  /\ Starting' /\ (pc' <= 15 => air'.what = "humidity")
                    /\ Exchange(15, "temperature", "humidity")'
                    /\ Exchange(24, "humidity", "temperature")'
  BY DEF Handshake, Sending
<1>1. pc \in 1 .. 33 /\ ok_flag \in {0, 1}
  BY ProgramIs DEF Typed, FirmwareTypeOK
<1>2. /\ Instruction.do = "send" /\ Transmit(Instruction.what)
      /\ ok_flag' = ok_flag /\ air' = air /\ mode' = mode
      /\ pc' = IF pc = 33 THEN 15 ELSE pc + 1
  BY AdvanceIs DEF Sending, Transmit, driver
<1>3. \/ pc \in {1, 4, 7, 9, 11, 13, 17, 26} /\ Ready
      \/ pc \in {22, 31} /\ ReadyForData
  BY <1>2, SendsInStep
<1>4. job = "none" /\ job' = Instruction.what /\ line' = line
  BY <1>2, <1>3 DEF Transmit, Ready, ReadyForData
<1>5. CASE pc \in {1, 9, 11, 13} /\ Ready
  <2>1. job' \in {"RST", "CIFSR", "CIPCLOSE", "CIPSTART"} /\ mode' = "command"
    BY <1>1, <1>2, <1>4, <1>5, Places DEF Ready
  <2>2. Starting'
    BY <1>1, <1>2, <1>4, <1>5, <2>1, Places DEF Starting
  <2>3. \A m, o : Exchange(15, m, o)' /\ Exchange(24, m, o)'
    BY <1>2, <1>5 DEF Exchange
  <2> QED
    BY <1>2, <1>5, <2>2, <2>3 DEF Handshake
<1>6. CASE pc = 4 /\ Ready
  <2>1. Commanded("CWMODE")' /\ ok_flag' = 0 /\ pc' = 5
    BY <1>1, <1>2, <1>4, <1>6, Places DEF Ready, Commanded, Quiet, Handshake, Starting
  <2>2. \A m, o : Exchange(15, m, o)' /\ Exchange(24, m, o)'
    BY <2>1 DEF Exchange
  <2>3. Starting'
    BY <2>1 DEF Starting
  <2> QED
    BY <1>2, <1>6, <2>1, <2>2, <2>3 DEF Handshake
<1>7. CASE pc = 7 /\ Ready
  <2>1. Commanded("CWJAP")' /\ ok_flag' = 0 /\ pc' = 8
    BY <1>1, <1>2, <1>4, <1>7, Places DEF Ready, Commanded, Quiet, Handshake, Starting
  <2>2. \A m, o : Exchange(15, m, o)' /\ Exchange(24, m, o)'
    BY <2>1 DEF Exchange
  <2>3. Starting'
    BY <2>1 DEF Starting
  <2> QED
    BY <1>2, <1>7, <2>1, <2>2, <2>3 DEF Handshake
<1>8. CASE pc \in {17, 26} /\ Ready
  <2>1. Announced' /\ ok_flag' = 0 /\ pc' = pc + 1
    BY <1>1, <1>2, <1>4, <1>8, Places DEF Ready, Announced, Quiet, Handshake, Exchange
  <2>2. Starting'
    BY <1>8, <2>1 DEF Starting
  <2>3. Exchange(15, "temperature", "humidity")'
    BY <1>2, <1>8, <2>1 DEF Exchange, Handshake
  <2>4. Exchange(24, "humidity", "temperature")'
    BY <1>2, <1>8, <2>1 DEF Exchange, Handshake
  <2> QED
    BY <1>8, <2>1, <2>2, <2>3, <2>4
<1>9. CASE pc \in {22, 31} /\ ReadyForData
  <2>1. Quiet(line) /\ Quiet(line') /\ mode' = "data" /\ ok_flag' = 0 /\ pc' = pc + 1
    BY <1>1, <1>2, <1>4, <1>9, NothingQuiet DEF ReadyForData, Handshake, Exchange
  <2>2. /\ pc = 22 => HandedOver("temperature")' /\ job' = "temperature"
        /\ pc = 31 => HandedOver("humidity")' /\ job' = "humidity"
    BY <1>1, <1>4, <1>9, <2>1, Places DEF HandedOver
  <2>3. Starting'
    BY <1>9, <2>1 DEF Starting
  <2>4. Exchange(15, "temperature", "humidity")'
    BY <1>2, <1>9, <2>1, <2>2 DEF Exchange, Handshake
  <2>5. Exchange(24, "humidity", "temperature")'
    BY <1>2, <1>9, <2>1, <2>2 DEF Exchange, Handshake
  <2> QED
    BY <1>9, <2>1, <2>3, <2>4, <2>5
<1> QED
  BY <1>3, <1>5, <1>6, <1>7, <1>8, <1>9

\* Clear, a wait that is over, and the sensor: the program moves on, the module does not.
LEMMA HandshakeMoving ==
  ASSUME Typed, Handshake, Clearing \/ Waiting \/ Reading
  PROVE  Handshake'
<1> SUFFICES ASSUME ~untimely
             PROVE  /\ Starting' /\ (pc' <= 15 => air'.what = "humidity")
                    /\ Exchange(15, "temperature", "humidity")'
                    /\ Exchange(24, "humidity", "temperature")'
  BY DEF Handshake, Clearing, Waiting, Reading
<1>1. pc \in 1 .. 33 /\ ok_flag \in {0, 1}
  BY ProgramIs DEF Typed, FirmwareTypeOK
<1>2. /\ UNCHANGED <<job, mode, line, air>>
      /\ pc' = IF pc = 33 THEN 15 ELSE pc + 1
  BY AdvanceIs DEF Clearing, Waiting, Reading, module
<1>3. /\ Ready' = Ready /\ ReadyForData' = ReadyForData /\ Prompting' = Prompting
  BY <1>2, SameModule
<1>4. CASE pc \in {3, 6, 16, 25, 19, 28, 21, 30} /\ ok_flag' = 0
  <2>1. Starting'
    BY <1>2, <1>3, <1>4 DEF Handshake, Starting
  <2>2. Exchange(15, "temperature", "humidity")'
    BY <1>2, <1>3, <1>4 DEF Handshake, Exchange
  <2>3. Exchange(24, "humidity", "temperature")'
    BY <1>2, <1>3, <1>4 DEF Handshake, Exchange
  <2> QED
    BY <1>2, <1>4, <2>1, <2>2, <2>3 DEF Handshake
<1>5. CASE pc \in {5, 8, 18, 27, 20, 29, 23, 32} /\ ok_flag = 1
  <2>1. Starting'
    BY <1>2, <1>3, <1>5 DEF Handshake, Starting
  <2>2. Exchange(15, "temperature", "humidity")'
    BY <1>2, <1>3, <1>5 DEF Handshake, Exchange
  <2>3. Exchange(24, "humidity", "temperature")'
    BY <1>2, <1>3, <1>5 DEF Handshake, Exchange
  <2> QED
    BY <1>2, <1>5, <2>1, <2>2, <2>3 DEF Handshake
<1>6. CASE pc = 15
  <2>1. Starting'
    BY <1>2, <1>3, <1>6 DEF Handshake, Starting
  <2>2. Exchange(15, "temperature", "humidity")'
    BY <1>2, <1>3, <1>6 DEF Handshake, Starting, Exchange
  <2>3. Exchange(24, "humidity", "temperature")'
    BY <1>2, <1>3, <1>6 DEF Handshake, Exchange
  <2> QED
    BY <1>2, <1>6, <2>1, <2>2, <2>3 DEF Handshake
<1>7. CASE Clearing
  BY <1>1, <1>4, <1>7, Places DEF Clearing
<1>8. CASE Waiting
  BY <1>1, <1>5, <1>8, Places DEF Waiting
<1>9. CASE Reading
  BY <1>1, <1>6, <1>9, Places DEF Reading
<1> QED
  BY <1>7, <1>8, <1>9

LEMMA HandshakeDelaying ==
  ASSUME Typed, Handshake, Delaying
  PROVE  Handshake'
<1> SUFFICES ASSUME ~untimely'
             PROVE  /\ Starting' /\ (pc' <= 15 => air'.what = "humidity")
                    /\ Exchange(15, "temperature", "humidity")'
                    /\ Exchange(24, "humidity", "temperature")'
  BY DEF Handshake
<1>1. pc \in 1 .. 33
  BY ProgramIs DEF Typed, FirmwareTypeOK
<1>2. /\ UNCHANGED <<job, mode, line, air>>
      /\ pc' = IF pc = 33 THEN 15 ELSE pc + 1
      /\ ~untimely /\ job = "none" /\ line = <<>>
      /\ pc \in {2, 10, 12, 14, 24, 33}
  BY <1>1, AdvanceIs, Places DEF Delaying, DelayTooShort, module, driver
<1>3. mode = "command" /\ air.what = IF pc = 24 THEN "temperature" ELSE "humidity"
  BY <1>2 DEF Handshake, Starting, Exchange, Ready
<1>4. Ready'
  BY <1>2, <1>3, NothingQuiet DEF Ready
<1>5. pc' \in {3, 11, 13, 15, 25}
  BY <1>2
<1>6. Starting'
  BY <1>4, <1>5 DEF Starting
<1>7. Exchange(15, "temperature", "humidity")'
  BY <1>4, <1>5 DEF Exchange
<1>8. Exchange(24, "humidity", "temperature")'
  BY <1>2, <1>3, <1>4, <1>5 DEF Exchange
<1> QED
  BY <1>2, <1>3, <1>5, <1>6, <1>7, <1>8

LEMMA HandshakeSame ==
  ASSUME Handshake, UNCHANGED <<job, mode, line, air, pc, ok_flag, untimely>>
  PROVE  Handshake'
BY SameModule DEF Handshake, Starting, Exchange

LEMMA HandshakeStep ==
  ASSUME Typed, Unmistakable, Handshake, [FirmwareNext]_firmwareVars
  PROVE  Handshake'
<1>1. CASE Main
  <2>1. CASE SensorDies
    BY <2>1, HandshakeSame DEF SensorDies, driver, module
  <2> QED
    BY <1>1, <2>1, HandshakeSending, HandshakeMoving, HandshakeDelaying DEF Main
<1>2. CASE Interrupt \/ Noise
  BY <1>2, TakenIs, HandshakeTaken
<1>3. CASE Module
  BY <1>3, HandshakeLeaves, HandshakeAnswer DEF Module, main
<1>4. CASE Peer
  BY <1>4, HandshakePeer
<1>5. CASE UNCHANGED firmwareVars
  BY <1>5, HandshakeSame DEF firmwareVars, driver, module, main
<1> QED
  BY <1>1, <1>2, <1>3, <1>4, <1>5 DEF FirmwareNext

LEMMA CurrentStep ==
  ASSUME Typed, Current, [FirmwareNext]_firmwareVars
  PROVE  Current'
<1>1. CASE Reading
  <2>1. \A v \in Values : v # Bad
    BY FirmwareAssumption
  <2> QED
    BY <1>1, <2>1 DEF Reading, TimedOut, Current
<1>2. UNCHANGED <<dht_data, current, lastGood>> => Current'
  BY DEF Current
<1>3. CASE Main
  BY <1>1, <1>2, <1>3 DEF Main, Sending, Clearing, Waiting, Delaying, SensorDies
<1>4. CASE Interrupt \/ Module \/ Noise \/ Peer \/ UNCHANGED firmwareVars
  BY <1>2, <1>4 DEF Interrupt, Module, Noise, Peer, firmwareVars, main
<1> QED
  BY <1>3, <1>4 DEF FirmwareNext

LEMMA InStepImplied == Typed /\ Handshake => HandshakeInStep
<1> SUFFICES ASSUME Typed, Handshake, ~untimely, Instruction.do = "send"
             PROVE  /\ job = "none"
                    /\ mode = IF Instruction.what \in Messages THEN "data" ELSE "command"
  BY DEF HandshakeInStep
<1> QED
  BY SendsInStep DEF Ready, ReadyForData

\* A refusal is not an answer: the step in which a datagram leaves is told by what the
\* module says.
LEMMA AlternateStep ==
  ASSUME Typed, Handshake, Current, [FirmwareNext]_firmwareVars, ~untimely, ModuleSends
  PROVE  air'.what \in Messages \ {air.what} /\ air'.value = lastGood
<1>1. line \in Seq(Characters)
  BY DEF Typed, FirmwareTypeOK
<1>2. Leaves
  <2>1. mode = "data" /\ mode' = "command" /\ line' = line \o Ok
    BY DEF ModuleSends, Accept, Say
  <2>2. Module
    BY <2>1 DEF FirmwareNext, Main, Sending, Clearing, Waiting, Delaying, Reading, SensorDies, Transmit,
                Interrupt, dataHandler, Noise, LoseCharacter, Peer, DatagramArrives, module, firmwareVars
  <2>3. line \o Ok # line \o Failure
    <3>1. Ok \in Seq(Characters) /\ Failure \in Seq(Characters) /\ Len(Ok) = 4 /\ Len(Failure) = 2
      BY TextsTyped DEF Ok, Failure
    <3>2. Len(line \o Ok) = Len(line) + Len(Ok)
      BY <1>1, <3>1, ConcatTyped
    <3>3. Len(line \o Failure) = Len(line) + Len(Failure)
      BY <1>1, <3>1, ConcatTyped
    <3>4. Len(line) \in Nat
      BY <1>1
    <3> QED
      BY <3>1, <3>2, <3>3, <3>4
  <2>4. ~ModuleAnswers
    BY <2>1, <2>3 DEF ModuleAnswers, Refuse, Say
  <2> QED
    BY <2>2, <2>4 DEF Module
<1>3. PICK message \in Messages : HandedOver(message) /\ air.what # message
  BY <1>2, LeavesWhere DEF Messages
<1>4. air' = [what |-> message, value |-> current]
  BY <1>1, <1>2, <1>3, LeavesKeeps
<1> QED
  BY <1>3, <1>4 DEF Current

\* The invariant of the exchange, from the start and under every step.
LEMMA FirmwareInvariant ==
  ASSUME Unmistakable
  PROVE  FirmwareSpec => [](Typed /\ Handshake /\ Current)
<1>1. FirmwareInit => Typed /\ Handshake /\ Current
  BY TypedInit, HandshakeInit
<1>2. Typed /\ Handshake /\ Current /\ [FirmwareNext]_firmwareVars => (Typed /\ Handshake /\ Current)'
  BY TypedStep, HandshakeStep, CurrentStep
<1> QED
  BY <1>1, <1>2, PTL DEF FirmwareSpec

\* esp8266_send and the module agree where they are: a command goes to a module that waits
\* for one, a message to one that has given the prompt, unless a delay was too short; also
\* when a character was lost or the module refused.
THEOREM FirmwareHandshakeInStep ==
  ASSUME Unmistakable
  PROVE  FirmwareSpec => []HandshakeInStep
<1>1. Typed /\ Handshake => HandshakeInStep
  BY InStepImplied
<1> QED
  BY <1>1, FirmwareInvariant, PTL

\* The main loop's two datagrams alternate, none is sent twice, and each carries the last
\* reading that came through get_dht_value and its checksum.
THEOREM FirmwareDatagramsAlternate ==
  ASSUME Unmistakable
  PROVE  FirmwareSpec => DatagramsAlternate
<1>1. Typed /\ Handshake /\ Current /\ [FirmwareNext]_firmwareVars =>
        [~untimely /\ ModuleSends =>
           air'.what \in Messages \ {air.what} /\ air'.value = lastGood]_firmwareVars
  BY AlternateStep
<1> QED
  BY <1>1, FirmwareInvariant, PTL DEF FirmwareSpec, DatagramsAlternate
=============================================================================
