--------------------------- MODULE MqttConnection ---------------------------
(***************************************************************************)
(* The MQTT client the desktop is built on: QMqttClient and                *)
(* QMqttConnection (qtmqtt) with protocol 3.1.1 over a plain TCP socket.   *)
(*                                                                         *)
(* A handler of the client runs to its end before the next event: one      *)
(* action per call of the application and per event of the socket or the   *)
(* timer.  A packet arrives in two units, its fixed header and its body,   *)
(* read one at a time: every segmentation of the stream is a sequence of   *)
(* such reads.  The broker and the network are external.                   *)
(***************************************************************************)
EXTENDS Integers, Sequences, FiniteSets

CONSTANTS
  Topics,            \* topic filters of the application
  QoS,               \* quality of service of its messages, within 0 .. 2
  CleanSessions,     \* values of the property cleanSession
  MaxId,             \* the largest packet identifier (65535)
  MaxConnects,       \* bound: calls of connectToHost that start a connection
  MaxExchanges,      \* bound: messages published and subscriptions created
  MaxIncoming        \* bound: messages the broker publishes

ASSUME MqttAssumption ==
  /\ QoS \subseteq 0 .. 2 /\ CleanSessions \subseteq BOOLEAN
  /\ MaxId \in Nat \ {0, 1}
  /\ MaxConnects \in Nat /\ MaxExchanges \in Nat /\ MaxIncoming \in Nat

VARIABLES
  cleanSession,  \* m_cleanSession
  state,         \* m_state of the client
  internal,      \* m_internalState of the connection
  socket,        \* the transport: "closed", "opening", "open"
  up, down,      \* packets to the broker; units of packets to the client
  missing,       \* m_missingData > 0: the header of a packet has been read
  counter,       \* packetIdentifierCounter
  pendingMessages, pendingReleaseMessages,           \* id -> message, 0: none
  pendingSubscriptionAck, pendingUnsubscriptions,    \* id -> subscription, 0: none
  subscriptions, \* the QMqttSubscription objects created, oldest first
  active,        \* m_activeSubscriptions
  pingTimer,     \* m_pingTimer is running
  pingTimeout,   \* PINGREQs without an answer
  session,       \* broker: the topics it holds for this client
  inflight,      \* broker: per message of its own, how far it is
  silent,        \* the peer has gone without closing the connection
  connects,      \* history: connections begun
  published,     \* history: messages published
  received,      \* history: per message, how often the broker received it
  sent,          \* history: messages whose messageSent was emitted
  unheard,       \* history: messages that met no active subscription
  restored,      \* history: this connection continued a session
  outOfStep,     \* history: a unit was taken for something it is not
  exhausted      \* history: an identifier was given out while all were in use

Ids == 1 .. MaxId
Messages == 1 .. MaxExchanges
Incoming == 1 .. MaxIncoming
None == 0

client  == <<cleanSession, state, internal, connects>>
tables  == <<pendingMessages, pendingReleaseMessages>>
subVars == <<pendingSubscriptionAck, pendingUnsubscriptions, subscriptions, active>>
ping    == <<pingTimer, pingTimeout>>
stream  == <<socket, up, down, missing, outOfStep>>
broker  == <<session, inflight, silent>>
history == <<published, received, sent, unheard, restored>>
ids     == <<counter, exhausted>>
vars == <<client, stream, ids, tables, subVars, ping, broker, history>>

Packet(type, id, value) == [type |-> type, id |-> id, value |-> value]
Units(packet) ==
  <<[packet |-> packet, part |-> "header"], [packet |-> packet, part |-> "body"]>>

Init ==
  /\ cleanSession \in CleanSessions
  /\ state = "Disconnected" /\ internal = "BrokerDisconnected"
  /\ socket = "closed" /\ up = <<>> /\ down = <<>> /\ missing = FALSE
  /\ counter = 1
  /\ pendingMessages = [i \in Ids |-> None] /\ pendingReleaseMessages = [i \in Ids |-> None]
  /\ pendingSubscriptionAck = [i \in Ids |-> None]
  /\ pendingUnsubscriptions = [i \in Ids |-> None]
  /\ subscriptions = <<>> /\ active = {}
  /\ pingTimer = FALSE /\ pingTimeout = 0
  /\ session = {} /\ inflight = [n \in Incoming |-> [status |-> "unsent", topic |-> None]] /\ silent = FALSE
  /\ connects = 0 /\ published = 0 /\ received = [n \in Messages |-> 0] /\ sent = {}
  /\ unheard = {} /\ restored = FALSE /\ outOfStep = FALSE /\ exhausted = FALSE

-----------------------------------------------------------------------------
(* Identifiers and subscriptions *)

InUseButSubscribing(i) ==
  \/ pendingUnsubscriptions[i] # None
  \/ pendingMessages[i] # None \/ pendingReleaseMessages[i] # None

InUse(i) ==
  \/ pendingSubscriptionAck[i] # None \/ pendingUnsubscriptions[i] # None
  \/ pendingMessages[i] # None \/ pendingReleaseMessages[i] # None

\* The identifier n steps after the counter; identifiers wrap to 1.
After(n) == ((counter - 1 + n) % MaxId) + 1

\* The first free one; after a full circle the counter itself, free or not.
unusedPacketIdentifier ==
  LET free == {n \in 1 .. MaxId - 1 : ~InUse(After(n))}
  IN  IF free = {} THEN counter
      ELSE After(CHOOSE n \in free : \A k \in free : n <= k)

NextIdentifier ==
  /\ counter' = unusedPacketIdentifier
  /\ exhausted' = (exhausted \/ InUse(counter'))

\* findActiveSubscription: the active ones without a pending unsubscription.
Standing(topic) ==
  {s \in active : /\ subscriptions[s].topic = topic
                  /\ \A i \in Ids : pendingUnsubscriptions[i] # s}

InState(subs, value) ==
  [s \in DOMAIN subscriptions |->
     IF s \in subs THEN [subscriptions[s] EXCEPT !.state = value] ELSE subscriptions[s]]

Listed(table) == {table[i] : i \in Ids} \ {None}

LeaveSubscriptions == UNCHANGED subVars

cleanSubscriptions ==
  /\ subscriptions' = InState(
       Listed(pendingSubscriptionAck) \union Listed(pendingUnsubscriptions) \union active,
       "Unsubscribed")
  /\ pendingSubscriptionAck' = [i \in Ids |-> None]
  /\ pendingUnsubscriptions' = [i \in Ids |-> None]
  /\ active' = {}

\* To a peer that has gone silent nothing gets through.
Write(packets) == up' = IF silent THEN up ELSE up \o packets
StopPing == pingTimer' = FALSE /\ pingTimeout' = 0

\* What both ways of losing the transport have in common.
DropTransport ==
  /\ socket' = "closed" /\ up' = <<>> /\ down' = <<>>
  /\ StopPing
  /\ state' = "Disconnected"

\* The error it tells the application is left out.
closeConnection ==
  /\ DropTransport
  /\ active' = {} /\ internal' = "BrokerDisconnected"
  /\ UNCHANGED <<cleanSession, connects>>

-----------------------------------------------------------------------------
(* Calls of the application *)

connectToHost ==
  /\ state = "Disconnected" /\ connects < MaxConnects
  /\ connects' = connects + 1
  /\ state' = "Connecting"
  /\ IF cleanSession THEN cleanSubscriptions ELSE LeaveSubscriptions
  /\ internal' = "BrokerConnecting" /\ socket' = "opening"
  /\ silent' = FALSE /\ restored' = FALSE
  /\ UNCHANGED <<cleanSession, up, down, missing, outOfStep, ids, tables, ping>>
  /\ UNCHANGED <<session, inflight, published, received, sent, unheard>>

\* sendControlDisconnect closes the transport once DISCONNECT is written; a write
\* that does not get through in 30 s leaves it open.  Subscriptions keep their state.
disconnectConnected ==
  /\ internal = "BrokerConnected"
  /\ active' = {} /\ internal' = "BrokerDisconnected"
  /\ \/ DropTransport
     \/ /\ silent
        /\ StopPing /\ Write(<<Packet("DISCONNECT", None, None)>>)
        /\ UNCHANGED <<socket, down, state>>
  /\ UNCHANGED <<cleanSession, connects, missing, outOfStep, ids, tables, broker, history>>
  /\ UNCHANGED <<pendingSubscriptionAck, pendingUnsubscriptions, subscriptions>>

\* Before CONNACK the transport is just closed: transportConnectionClosed leaves the
\* internal state.
disconnectConnecting ==
  /\ state = "Connecting" /\ internal \in {"BrokerConnecting", "BrokerWaitForConnectAck"}
  /\ DropTransport
  /\ UNCHANGED <<cleanSession, internal, connects, missing, outOfStep, ids, tables>>
  /\ UNCHANGED <<subVars, broker, history>>

disconnectFromHost == disconnectConnected \/ disconnectConnecting

NotDisconnected == state # "Disconnected"
Online == state = "Connected"

AssumeSent(m) == sent' = sent \union {m}
AwaitAnswer(m) == UNCHANGED sent

ExchangesLeft == published + Len(subscriptions) < MaxExchanges

publish(q) ==
  /\ Online /\ ExchangesLeft
  /\ published' = published + 1 /\ AwaitAnswer(published')
  /\ IF q = 0
       THEN /\ Write(<<Packet("PUBLISH0", None, published')>>)
            /\ UNCHANGED <<ids, pendingMessages>>
       ELSE /\ NextIdentifier
            /\ pendingMessages' = [pendingMessages EXCEPT ![counter'] = published']
            /\ Write(<<Packet(IF q = 1 THEN "PUBLISH1" ELSE "PUBLISH2", counter', published')>>)
  /\ UNCHANGED <<client, socket, down, missing, outOfStep, pendingReleaseMessages, subVars>>
  /\ UNCHANGED <<ping, broker, received, unheard, restored>>

\* A topic that is subscribed already yields the same object and no packet.
subscribe(topic) ==
  /\ Online /\ Standing(topic) = {}
  /\ ExchangesLeft
  /\ NextIdentifier
  /\ subscriptions' = Append(subscriptions, [topic |-> topic, state |-> "SubscriptionPending"])
  /\ pendingSubscriptionAck' = [pendingSubscriptionAck EXCEPT ![counter'] = Len(subscriptions')]
  /\ active' = active \union {Len(subscriptions')}
  /\ Write(<<Packet("SUBSCRIBE", counter', topic)>>)
  /\ UNCHANGED <<client, socket, down, missing, outOfStep, tables, pendingUnsubscriptions>>
  /\ UNCHANGED <<ping, broker, history>>

RemovedAtOnce(s) == active' = active \ {s}
\* QoS 1 and 2 messages may still come before the UNSUBACK.
KeptUntilAcknowledged(s) == UNCHANGED active

unsubscribe(s) ==
  /\ s \in active /\ s \in Standing(subscriptions[s].topic)
  /\ IF internal # "BrokerConnected"
       THEN /\ active' = active \ {s}
            /\ UNCHANGED <<ids, subscriptions, pendingUnsubscriptions, up>>
       ELSE /\ NextIdentifier
            /\ subscriptions' = InState({s}, "UnsubscriptionPending")
            /\ pendingUnsubscriptions' = [pendingUnsubscriptions EXCEPT ![counter'] = s]
            /\ Write(<<Packet("UNSUBSCRIBE", counter', subscriptions[s].topic)>>)
            /\ KeptUntilAcknowledged(s)
  /\ UNCHANGED <<client, socket, down, missing, outOfStep, tables, pendingSubscriptionAck>>
  /\ UNCHANGED <<ping, broker, history>>

-----------------------------------------------------------------------------
(* Timer and transport *)

DoNotCount == UNCHANGED pingTimeout
CountPing == pingTimeout' = pingTimeout + 1
PingsUnanswered == pingTimeout > 1

\* sendControlPingRequest: the third unanswered ping closes the connection.
PingTimer ==
  /\ pingTimer /\ internal = "BrokerConnected"
  /\ IF PingsUnanswered
       THEN /\ closeConnection
            /\ UNCHANGED <<pendingSubscriptionAck, pendingUnsubscriptions, subscriptions>>
       ELSE /\ CountPing
            /\ Write(<<Packet("PINGREQ", None, None)>>)
            /\ UNCHANGED <<client, socket, down, subVars, pingTimer>>
  /\ UNCHANGED <<missing, outOfStep, ids, tables, broker, history>>

KeepMissing == UNCHANGED missing
\* m_missingData = 0
ClearMissing == missing' = FALSE

\* sendControlConnect
transportConnectionEstablished ==
  /\ socket = "opening" /\ ~silent
  /\ socket' = "open"
  /\ internal' = "BrokerWaitForConnectAck" /\ ClearMissing
  /\ Write(<<Packet("CONNECT", None, None)>>)
  /\ UNCHANGED <<cleanSession, state, connects, down, outOfStep, ids, tables>>
  /\ UNCHANGED <<subVars, ping, broker, history>>

\* The connection is refused, reset or closed by the peer.
transportError ==
  /\ socket # "closed"
  /\ closeConnection
  /\ UNCHANGED <<missing, outOfStep, ids, tables, broker, history>>
  /\ UNCHANGED <<pendingSubscriptionAck, pendingUnsubscriptions, subscriptions>>

-----------------------------------------------------------------------------
(* transportReadyRead, processDataHelper *)

Arriving == Head(down).packet
Part == Head(down).part

ProtocolViolation ==
  /\ closeConnection
  /\ UNCHANGED <<missing, ids, tables, broker, history>>
  /\ UNCHANGED <<pendingSubscriptionAck, pendingUnsubscriptions, subscriptions>>

ReadHeader ==
  /\ down # <<>> /\ ~missing
  /\ IF Part = "header" /\ (Arriving.type = "CONNACK" => internal = "BrokerWaitForConnectAck")
       THEN /\ missing' = TRUE /\ down' = Tail(down)
            /\ UNCHANGED <<client, socket, up, outOfStep, ids, tables, subVars, ping>>
            /\ UNCHANGED <<broker, history>>
       ELSE ProtocolViolation /\ outOfStep' = TRUE

\* The body that follows is not the one the header announced.
Misread ==
  /\ down # <<>> /\ missing /\ Part = "header"
  /\ ProtocolViolation /\ outOfStep' = TRUE

Body(types) ==
  /\ down # <<>> /\ missing /\ Part = "body" /\ Arriving.type \in types

Consume == missing' = FALSE /\ down' = Tail(down)

\* value is the result: 0 accepts the connection; id 1: a session is present.
finalize_connack ==
  /\ Body({"CONNACK"})
  /\ restored' = (Arriving.id = 1)
  /\ IF Arriving.value # 0
       THEN /\ closeConnection /\ missing' = FALSE
            /\ IF Arriving.id = 1
                 THEN UNCHANGED <<pendingSubscriptionAck, pendingUnsubscriptions, subscriptions>>
                 ELSE cleanSubscriptions
       ELSE /\ IF Arriving.id = 1 THEN LeaveSubscriptions ELSE cleanSubscriptions
            /\ Consume
            /\ internal' = "BrokerConnected" /\ state' = "Connected"
            /\ pingTimer' = TRUE
            /\ UNCHANGED <<cleanSession, connects, socket, up, pingTimeout>>
  /\ UNCHANGED <<outOfStep, ids, tables, broker, published, received, sent, unheard>>

AnyAnswer(reason) == "Subscribed"
\* 128 is the broker's refusal.
AckedState(reason) == IF reason = 128 THEN "Error" ELSE "Subscribed"

\* An unknown identifier leaves the rest of the packet in the stream.
finalize_suback ==
  /\ Body({"SUBACK"}) /\ Consume
  /\ LET s == pendingSubscriptionAck[Arriving.id]
     IN  /\ outOfStep' = (outOfStep \/ s = None)
         /\ pendingSubscriptionAck' = [pendingSubscriptionAck EXCEPT ![Arriving.id] = None]
         /\ subscriptions' = InState({s}, AckedState(Arriving.value))
  /\ UNCHANGED <<client, socket, up, ids, tables, pendingUnsubscriptions, active>>
  /\ UNCHANGED <<ping, broker, history>>

finalize_unsuback ==
  /\ Body({"UNSUBACK"}) /\ Consume
  /\ LET s == pendingUnsubscriptions[Arriving.id]
     IN  /\ pendingUnsubscriptions' = [pendingUnsubscriptions EXCEPT ![Arriving.id] = None]
         /\ active' = active \ {s}
         /\ subscriptions' = InState({s}, "Unsubscribed")
  /\ UNCHANGED <<client, socket, up, outOfStep, ids, tables, pendingSubscriptionAck>>
  /\ UNCHANGED <<ping, broker, history>>

\* value: the broker's message and its topic.
finalize_publish ==
  /\ Body({"PUBLISH1", "PUBLISH2"}) /\ Consume
  /\ unheard' = IF \E s \in active : subscriptions[s].topic = Arriving.value
                THEN unheard ELSE unheard \union {Arriving.id}
  /\ Write(<<Packet(IF Arriving.type = "PUBLISH1" THEN "PUBACK" ELSE "PUBREC",
                    Arriving.id, None)>>)
  /\ UNCHANGED <<client, socket, outOfStep, ids, tables, subVars, ping, broker>>
  /\ UNCHANGED <<published, received, sent, restored>>

\* PUBREL of the broker's message.
finalize_pubrel ==
  /\ Body({"PUBREL"}) /\ Consume
  /\ Write(<<Packet("PUBCOMP", Arriving.id, None)>>)
  /\ UNCHANGED <<client, socket, outOfStep, ids, tables, subVars, ping, broker, history>>

Taken(table) == [table EXCEPT ![Arriving.id] = None]

\* PUBACK: the message is done.
finalize_puback ==
  /\ Body({"PUBACK"}) /\ Consume
  /\ pendingMessages' = Taken(pendingMessages)
  /\ sent' = sent \union ({pendingMessages[Arriving.id]} \ {None})
  /\ UNCHANGED <<client, socket, up, outOfStep, ids, pendingReleaseMessages, subVars>>
  /\ UNCHANGED <<ping, broker, published, received, unheard, restored>>

\* PUBREC: the message waits for its release to be confirmed.
finalize_pubrec ==
  /\ Body({"PUBREC"}) /\ Consume
  /\ IF pendingMessages[Arriving.id] = None
       THEN UNCHANGED <<tables, up>>
       ELSE /\ pendingMessages' = Taken(pendingMessages)
            /\ pendingReleaseMessages' =
                 [pendingReleaseMessages EXCEPT ![Arriving.id] = pendingMessages[Arriving.id]]
            /\ Write(<<Packet("PUBREL", Arriving.id, None)>>)
  /\ UNCHANGED <<client, socket, outOfStep, ids, subVars, ping, broker, history>>

\* PUBCOMP: messageSent is emitted for the identifier, pending or not.
finalize_pubcomp ==
  /\ Body({"PUBCOMP"}) /\ Consume
  /\ pendingReleaseMessages' = Taken(pendingReleaseMessages)
  /\ sent' = sent \union ({pendingReleaseMessages[Arriving.id]} \ {None})
  /\ UNCHANGED <<client, socket, up, outOfStep, ids, pendingMessages, subVars>>
  /\ UNCHANGED <<ping, broker, published, received, unheard, restored>>

finalize_pingresp ==
  /\ Body({"PINGRESP"}) /\ Consume
  /\ pingTimeout' = pingTimeout - 1
  /\ UNCHANGED <<client, socket, up, outOfStep, ids, tables, subVars, pingTimer>>
  /\ UNCHANGED <<broker, history>>

ReadBody ==
  \/ finalize_connack \/ finalize_suback \/ finalize_unsuback \/ finalize_publish
  \/ finalize_pubrel \/ finalize_puback \/ finalize_pubrec \/ finalize_pubcomp
  \/ finalize_pingresp

transportReadyRead == socket = "open" /\ (ReadHeader \/ Misread \/ ReadBody)

-----------------------------------------------------------------------------
(* The broker, and the link to it *)

Answering == socket = "open" /\ ~silent

\* What a broker that continues a session sends again: the messages not yet done, in the
\* order they were published.
Unfinished == {n \in Incoming : inflight[n].status \in {"PUBLISH1", "PUBLISH2", "PUBREL"}}

Orders ==
  {order \in [1 .. Cardinality(Unfinished) -> Unfinished] :
     \A j, k \in DOMAIN order : j < k => order[j] < order[k]}

Repeated(n) ==
  Packet(inflight[n].status, n, IF inflight[n].status = "PUBREL" THEN None ELSE inflight[n].topic)

RepeatedAll(order) ==
  [k \in 1 .. 2 * Cardinality(Unfinished) |->
     Units(Repeated(order[(k + 1) \div 2]))[IF k % 2 = 1 THEN 1 ELSE 2]]

\* A session is continued if both sides want it and the broker still has it.
BrokerConnects ==
  \E present \in {0, 1}, result \in {0, 5} :
    /\ present = 1 => ~cleanSession /\ connects > 1 /\ result = 0
    /\ IF present = 1
       THEN /\ \E order \in Orders :
                 down' = down \o Units(Packet("CONNACK", 1, 0)) \o RepeatedAll(order)
            /\ UNCHANGED <<session, inflight>>
       ELSE /\ down' = down \o Units(Packet("CONNACK", 0, result))
            /\ session' = {}
            /\ inflight' = [n \in Incoming |->
                 IF inflight[n].status = "unsent" THEN inflight[n]
                 ELSE [inflight[n] EXCEPT !.status = "done"]]
    /\ UNCHANGED received

Answer(units) == down' = down \o units

BrokerSubscribes(p) ==
  /\ \/ session' = session \union {p.value} /\ Answer(Units(Packet("SUBACK", p.id, 0)))
     \/ UNCHANGED session /\ Answer(Units(Packet("SUBACK", p.id, 128)))
  /\ UNCHANGED <<inflight, received>>

BrokerReceives(p) ==
  /\ received' = [received EXCEPT ![p.value] = @ + 1]
  /\ Answer(CASE p.type = "PUBLISH0" -> <<>>
              [] p.type = "PUBLISH1" -> Units(Packet("PUBACK", p.id, None))
              [] p.type = "PUBLISH2" -> Units(Packet("PUBREC", p.id, None)))
  /\ UNCHANGED <<session, inflight>>

\* The answers of the client to the broker's own messages.
BrokerAdvances(p) ==
  /\ inflight' = [inflight EXCEPT ![p.id].status =
                    IF p.type = "PUBREC" THEN "PUBREL" ELSE "done"]
  /\ Answer(IF p.type = "PUBREC" THEN Units(Packet("PUBREL", p.id, None)) ELSE <<>>)
  /\ UNCHANGED <<session, received>>

BrokerTakes ==
  /\ Answering /\ up # <<>> /\ up' = Tail(up)
  /\ LET p == Head(up)
     IN  CASE p.type = "CONNECT" -> BrokerConnects
           [] p.type = "SUBSCRIBE" -> BrokerSubscribes(p)
           [] p.type = "UNSUBSCRIBE" ->
                /\ session' = session \ {p.value}
                /\ Answer(Units(Packet("UNSUBACK", p.id, None)))
                /\ UNCHANGED <<inflight, received>>
           [] p.type \in {"PUBLISH0", "PUBLISH1", "PUBLISH2"} -> BrokerReceives(p)
           [] p.type \in {"PUBACK", "PUBREC", "PUBCOMP"} -> BrokerAdvances(p)
           [] p.type = "PUBREL" ->
                /\ Answer(Units(Packet("PUBCOMP", p.id, None)))
                /\ UNCHANGED <<session, inflight, received>>
           [] p.type = "PINGREQ" ->
                /\ Answer(Units(Packet("PINGRESP", None, None)))
                /\ UNCHANGED <<session, inflight, received>>
           [] p.type = "DISCONNECT" -> UNCHANGED <<down, session, inflight, received>>
  /\ UNCHANGED <<client, socket, missing, outOfStep, ids, tables, subVars, ping, silent>>
  /\ UNCHANGED <<published, sent, unheard, restored>>

\* Another program publishes to a topic this client is subscribed to.
BrokerPublishes(n, topic, type) ==
  /\ Answering /\ topic \in session
  /\ up # <<>> => Head(up).type # "CONNECT"
  /\ inflight[n].status = "unsent" /\ \A k \in 1 .. n - 1 : inflight[k].status # "unsent"
  /\ inflight' = [inflight EXCEPT ![n] = [status |-> type, topic |-> topic]]
  /\ Answer(Units(Packet(type, n, topic)))
  /\ UNCHANGED <<client, socket, up, missing, outOfStep, ids, tables, subVars, ping>>
  /\ UNCHANGED <<session, silent, history>>

\* The peer vanishes: nothing arrives any more on either side and nobody is told.
FallSilent ==
  /\ socket # "closed" /\ ~silent /\ silent' = TRUE
  /\ up' = <<>> /\ down' = <<>>
  /\ UNCHANGED <<client, socket, missing, outOfStep, ids, tables, subVars, ping>>
  /\ UNCHANGED <<session, inflight, history>>

-----------------------------------------------------------------------------
Application ==
  \/ connectToHost \/ disconnectFromHost
  \/ \E q \in QoS : publish(q)
  \/ \E topic \in Topics : subscribe(topic)
  \/ \E s \in active : unsubscribe(s)

Transport ==
  PingTimer \/ transportConnectionEstablished \/ transportError \/ transportReadyRead

Broker ==
  \/ BrokerTakes \/ FallSilent
  \/ \E n \in Incoming, topic \in Topics, type \in {"PUBLISH1", "PUBLISH2"} :
       BrokerPublishes(n, topic, type)

Next == Application \/ Transport \/ Broker

Spec == Init /\ [][Next]_vars

\* The timer fires as long as it runs.
Fairness == WF_vars(PingTimer)

FairSpec == Spec /\ Fairness
-----------------------------------------------------------------------------
Tables ==
  <<pendingMessages, pendingReleaseMessages, pendingSubscriptionAck, pendingUnsubscriptions>>

TypeOK ==
  /\ cleanSession \in BOOLEAN
  /\ state \in {"Disconnected", "Connecting", "Connected"}
  /\ internal \in {"BrokerDisconnected", "BrokerConnecting", "BrokerWaitForConnectAck",
                    "BrokerConnected"}
  /\ socket \in {"closed", "opening", "open"} /\ missing \in BOOLEAN
  /\ counter \in Ids /\ exhausted \in BOOLEAN
  /\ pendingMessages \in [Ids -> Messages \union {None}]
  /\ pendingReleaseMessages \in [Ids -> Messages \union {None}]
  /\ pendingSubscriptionAck \in [Ids -> DOMAIN subscriptions \union {None}]
  /\ pendingUnsubscriptions \in [Ids -> DOMAIN subscriptions \union {None}]
  /\ subscriptions \in Seq([topic : Topics, state : {"SubscriptionPending", "Subscribed",
                            "UnsubscriptionPending", "Unsubscribed", "Error"}])
  /\ active \subseteq DOMAIN subscriptions
  /\ pingTimer \in BOOLEAN /\ pingTimeout \in 0 .. 2
  /\ connects \in 0 .. MaxConnects /\ published \in 0 .. MaxExchanges

\* Whatever the segmentation, the losses and the reconnections, the client takes a header
\* for a header and a body for the body of that header, and knows every SUBACK it gets.
PacketsInStep == ~exhausted => ~outOfStep

\* qmqttconnection.cpp:752: an identifier that is given out is unused, in all four tables,
\* over every connection, until all identifiers are taken.
OneUsePerIdentifier ==
  ~exhausted =>
    \A i \in Ids, a, b \in DOMAIN Tables :
      Tables[a][i] # None /\ Tables[b][i] # None => a = b

\* messageSent is emitted only for a message that the broker has received, and no
\* message is received twice.
SentOnlyIfReceived ==
  ~exhausted => \A m \in Messages : received[m] <= 1 /\ (m \in sent => received[m] = 1)

\* What the application sees as subscribed is held by the broker of this connection.
SubscribedIsHeld ==
  /\ TypeOK
  /\ state = "Connected" /\ internal = "BrokerConnected" /\ ~exhausted =>
       \A s \in active :
         subscriptions[s].state = "Subscribed" /\ s \in Standing(subscriptions[s].topic)
           => subscriptions[s].topic \in session

\* A message of this connection finds a subscription that is still active, even when the
\* application is unsubscribing (qmqttconnection.cpp:676); only the messages of a restored
\* session may come for subscriptions the client has forgotten, and an identifier given out
\* twice may end the wrong subscription.
HeardUnlessRestored == [][unheard' # unheard => restored \/ exhausted]_vars

\* A peer that vanishes from an established connection is noticed by the pings.
DeadPeerNoticed == silent /\ internal = "BrokerConnected" ~> internal # "BrokerConnected"

Session == INSTANCE MqttSession WITH subscribed <- {subscriptions[s].topic : s \in active}

\* To the application it is a session.
ImplementsSession == Session!Spec
=============================================================================
