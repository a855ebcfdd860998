------------------------ MODULE MqttConnectionProofs ------------------------
(***************************************************************************)
(* The client of MqttConnection is correct for every number of packet      *)
(* identifiers, connections, messages and subscriptions.  In the order of  *)
(* the module: the types; the framing and the handshake; the session the   *)
(* application sees; the requests and answers under way; and, from these,  *)
(* what is said of the messages of the client, of those to the client and  *)
(* of its subscriptions.                                                   *)
(***************************************************************************)
EXTENDS MqttConnection, FiniteSetTheorems, SequenceTheorems, WellFoundedInduction, TLAPS

\* How many elements of a sequence are in S.
Index(q, S) == {k \in 1 .. Len(q) : q[k] \in S}
Count(q, S) == Cardinality(Index(q, S))

\* The positions counted are finitely many.
LEMMA CountType ==
  ASSUME NEW X, NEW q \in Seq(X), NEW S
  PROVE  Count(q, S) \in Nat /\ IsFiniteSet(Index(q, S))
  <1>1. IsFiniteSet(1 .. Len(q)) /\ Index(q, S) \in SUBSET (1 .. Len(q))
    BY FS_Interval DEF Index
  <1> QED
    BY <1>1, FS_Subset, FS_CardinalityType DEF Count

\* Nothing is counted in a sequence that has no element in S.
LEMMA CountNone ==
  ASSUME NEW q, NEW S, \A k \in 1 .. Len(q) : q[k] \notin S
  PROVE  Count(q, S) = 0
  <1>1. Index(q, S) = {}
    BY DEF Index
  <1> QED
    BY <1>1, FS_EmptySet DEF Count

\* An element in S is counted.
LEMMA CountSome ==
  ASSUME NEW X, NEW q \in Seq(X), NEW S, NEW k \in 1 .. Len(q), q[k] \in S
  PROVE  Count(q, S) >= 1
  <1>1. k \in Index(q, S)
    BY DEF Index
  <1>2. Count(q, S) # 0
    BY <1>1, CountType, FS_EmptySet DEF Count
  <1> QED
    BY <1>2, CountType

\* If at most one is counted, two positions in S are the same.
LEMMA CountOne ==
  ASSUME NEW X, NEW q \in Seq(X), NEW S, Count(q, S) <= 1,
         NEW j \in 1 .. Len(q), NEW k \in 1 .. Len(q), q[j] \in S, q[k] \in S
  PROVE  j = k
  <1>1. j \in Index(q, S) /\ k \in Index(q, S)
    BY DEF Index
  <1>2. Cardinality(Index(q, S)) = 1
    BY CountType, CountSome DEF Count
  <1>3. \E x : Index(q, S) = {x}
    BY <1>2, CountType, FS_Singleton
  <1> QED
    BY <1>1, <1>3

\* What is counted in two sequences one after the other.
LEMMA CountConcat ==
  ASSUME NEW X, NEW q \in Seq(X), NEW r \in Seq(X), NEW S
  PROVE  Count(q \o r, S) = Count(q, S) + Count(r, S)
  <1> DEFINE n == Len(q)
             shifted == {n + k : k \in Index(r, S)}
             f == [k \in Index(r, S) |-> n + k]
  <1>1. n \in Nat /\ Len(r) \in Nat
    OBVIOUS
  <1>2. /\ Len(q \o r) = n + Len(r)
        /\ \A k \in 1 .. n + Len(r) : (q \o r)[k] = IF k <= n THEN q[k] ELSE r[k - n]
    BY ConcatProperties
  <1> HIDE DEF n
  <1>3. \A k \in Index(q, S) : k \in 1 .. n
    BY DEF Index, n
  <1>4. \A k \in Index(r, S) : k \in 1 .. Len(r)
    BY DEF Index
  <1>5. Index(q \o r, S) = Index(q, S) \union shifted
    <2>1. ASSUME NEW k \in Index(q \o r, S) PROVE k \in Index(q, S) \union shifted
      <3>1. k \in 1 .. n + Len(r) /\ (q \o r)[k] \in S
        BY <1>2 DEF Index
      <3>2. CASE k <= n
        BY <1>1, <1>2, <3>1, <3>2 DEF Index, n
      <3>3. CASE k > n
        <4>1. k - n \in 1 .. Len(r) /\ r[k - n] \in S /\ k = n + (k - n)
          BY <1>1, <1>2, <3>1, <3>3
        <4>2. k - n \in Index(r, S)
          BY <4>1 DEF Index
        <4> QED
          BY <4>1, <4>2
      <3> QED
        BY <1>1, <3>1, <3>2, <3>3
    <2>2. ASSUME NEW k \in Index(q, S) PROVE k \in Index(q \o r, S)
      <3>1. k \in 1 .. n /\ q[k] \in S
        BY DEF Index, n
      <3>2. k \in 1 .. n + Len(r) /\ (q \o r)[k] \in S
        BY <1>1, <1>2, <3>1
      <3> QED
        BY <1>2, <3>2 DEF Index
    <2>3. ASSUME NEW k \in Index(r, S) PROVE n + k \in Index(q \o r, S)
      <3>1. k \in 1 .. Len(r) /\ r[k] \in S
        BY DEF Index
      <3>2. n + k \in 1 .. n + Len(r) /\ ~(n + k <= n) /\ (n + k) - n = k
        BY <1>1, <3>1
      <3>3. (q \o r)[n + k] \in S
        BY <1>2, <3>1, <3>2
      <3> QED
        BY <1>2, <3>2, <3>3 DEF Index
    <2> QED
      BY <2>1, <2>2, <2>3
  <1>6. Index(q, S) \cap shifted = {}
    BY <1>1, <1>3, <1>4
  <1>7. f \in Bijection(Index(r, S), shifted)
    <2>1. \A j, k \in Index(r, S) : n + j = n + k => j = k
      BY <1>1, <1>4
    <2> QED
      BY <2>1 DEF Bijection, Injection, Surjection, IsInjective
  <1>8. IsFiniteSet(shifted) /\ Cardinality(shifted) = Count(r, S)
    <2>1. ExistsBijection(Index(r, S), shifted)
      BY <1>7 DEF ExistsBijection
    <2>2. IsFiniteSet(Index(r, S))
      BY CountType
    <2> HIDE DEF shifted
    <2> QED
      BY <2>1, <2>2, FS_Bijection DEF Count
  <1>9. Cardinality(Index(q, S) \union shifted)
          = Cardinality(Index(q, S)) + Cardinality(shifted) - Cardinality(Index(q, S) \cap shifted)
    <2>1. IsFiniteSet(Index(q, S))
      BY CountType
    <2> HIDE DEF shifted
    <2> QED
      BY <1>8, <2>1, FS_Union
  <1>10. Cardinality(Index(q, S) \cap shifted) = 0
    BY <1>6, FS_EmptySet
  <1>11. Cardinality(Index(q, S)) \in Nat /\ Cardinality(shifted) \in Nat
    BY <1>8, CountType DEF Count
  <1> HIDE DEF shifted
  <1> QED
    BY <1>5, <1>8, <1>9, <1>10, <1>11 DEF Count

\* One element more at the end.
LEMMA CountAppend ==
  ASSUME NEW X, NEW q \in Seq(X), NEW e \in X, NEW S
  PROVE  Count(q \o <<e>>, S) = Count(q, S) + (IF e \in S THEN 1 ELSE 0)
  <1>1. <<e>> \in Seq(X) /\ Len(<<e>>) = 1 /\ <<e>>[1] = e
    OBVIOUS
  <1>2. Index(<<e>>, S) = IF e \in S THEN {1} ELSE {}
    BY <1>1 DEF Index
  <1>3. Count(<<e>>, S) = IF e \in S THEN 1 ELSE 0
    BY <1>2, FS_Singleton, FS_EmptySet DEF Count
  <1>4. Count(q \o <<e>>, S) = Count(q, S) + Count(<<e>>, S)
    BY <1>1, CountConcat
  <1> QED
    BY <1>3, <1>4

\* The first element is taken away.
LEMMA CountTail ==
  ASSUME NEW X, NEW q \in Seq(X), q # <<>>, NEW S
  PROVE  Count(Tail(q), S) = Count(q, S) - (IF Head(q) \in S THEN 1 ELSE 0)
  <1>1. Head(q) \in X /\ Tail(q) \in Seq(X) /\ <<Head(q)>> \in Seq(X)
    OBVIOUS
  <1>2. q = <<Head(q)>> \o Tail(q)
    BY <1>1
  <1>3. <<>> \in Seq(X) /\ <<>> \o <<Head(q)>> = <<Head(q)>>
    BY <1>1
  <1>4. Count(<<>>, S) = 0
    BY CountNone
  <1>5. Count(<<Head(q)>>, S) = IF Head(q) \in S THEN 1 ELSE 0
    <2>1. Count(<<>> \o <<Head(q)>>, S) = Count(<<>>, S) + (IF Head(q) \in S THEN 1 ELSE 0)
      BY <1>1, <1>3, CountAppend
    <2> QED
      BY <1>3, <1>4, <2>1
  <1>6. Count(<<Head(q)>> \o Tail(q), S) = Count(<<Head(q)>>, S) + Count(Tail(q), S)
    BY <1>1, CountConcat
  <1>7. Count(Tail(q), S) \in Nat
    BY <1>1, CountType
  <1>8. Count(q, S) = Count(<<Head(q)>>, S) + Count(Tail(q), S)
    BY <1>2, <1>6
  <1> HIDE DEF Count
  <1> QED
    BY <1>5, <1>7, <1>8

-----------------------------------------------------------------------------
(* Packets *)

UpPacket ==
  [type : {"CONNECT", "PINGREQ", "DISCONNECT"}, id : {None}, value : {None}]
  \union [type : {"SUBSCRIBE", "UNSUBSCRIBE"}, id : Ids, value : Topics]
  \union [type : {"PUBLISH0"}, id : {None}, value : Messages]
  \union [type : {"PUBLISH1", "PUBLISH2"}, id : Ids, value : Messages]
  \union [type : {"PUBREL"}, id : Ids, value : {None}]
  \union [type : {"PUBACK", "PUBREC", "PUBCOMP"}, id : Incoming, value : {None}]

DownPacket ==
  [type : {"CONNACK"}, id : {0, 1}, value : {0, 5}]
  \union [type : {"SUBACK"}, id : Ids, value : {0, 128}]
  \union [type : {"UNSUBACK", "PUBACK", "PUBREC", "PUBCOMP"}, id : Ids, value : {None}]
  \union [type : {"PUBLISH1", "PUBLISH2"}, id : Incoming, value : Topics]
  \union [type : {"PUBREL"}, id : Incoming, value : {None}]
  \union [type : {"PINGRESP"}, id : {None}, value : {None}]

Unit == [packet : DownPacket, part : {"header", "body"}]

\* A packet is its parts.
LEMMA PacketParts ==
  \A type, id, value :
    /\ Packet(type, id, value).type = type
    /\ Packet(type, id, value).id = id
    /\ Packet(type, id, value).value = value
  BY DEF Packet

\* What the client writes.
LEMMA UpPackets ==
  /\ \A t \in {"CONNECT", "PINGREQ", "DISCONNECT"} : Packet(t, None, None) \in UpPacket
  /\ \A t \in {"SUBSCRIBE", "UNSUBSCRIBE"}, i \in Ids, v \in Topics : Packet(t, i, v) \in UpPacket
  /\ \A m \in Messages : Packet("PUBLISH0", None, m) \in UpPacket
  /\ \A t \in {"PUBLISH1", "PUBLISH2"}, i \in Ids, m \in Messages : Packet(t, i, m) \in UpPacket
  /\ \A i \in Ids : Packet("PUBREL", i, None) \in UpPacket
  /\ \A t \in {"PUBACK", "PUBREC", "PUBCOMP"}, n \in Incoming : Packet(t, n, None) \in UpPacket
  BY DEF UpPacket, Packet

\* What the broker answers.
LEMMA DownPackets ==
  /\ \A i \in {0, 1}, v \in {0, 5} : Packet("CONNACK", i, v) \in DownPacket
  /\ \A i \in Ids, v \in {0, 128} : Packet("SUBACK", i, v) \in DownPacket
  /\ \A t \in {"UNSUBACK", "PUBACK", "PUBREC", "PUBCOMP"}, i \in Ids : Packet(t, i, None) \in DownPacket
  /\ \A t \in {"PUBLISH1", "PUBLISH2"}, n \in Incoming, v \in Topics : Packet(t, n, v) \in DownPacket
  /\ \A n \in Incoming : Packet("PUBREL", n, None) \in DownPacket
  /\ Packet("PINGRESP", None, None) \in DownPacket
  BY DEF DownPacket, Packet

\* What the broker takes is what its type says.
LEMMA UpFields ==
  ASSUME NEW p \in UpPacket
  PROVE  /\ p.type \in {"CONNECT", "PINGREQ", "DISCONNECT", "SUBSCRIBE", "UNSUBSCRIBE", "PUBLISH0",
                         "PUBLISH1", "PUBLISH2", "PUBREL", "PUBACK", "PUBREC", "PUBCOMP"}
         /\ p.type \in {"SUBSCRIBE", "UNSUBSCRIBE"} => p.id \in Ids /\ p.value \in Topics
         /\ p.type = "PUBLISH0" => p.value \in Messages
         /\ p.type \in {"PUBLISH1", "PUBLISH2"} => p.id \in Ids /\ p.value \in Messages
         /\ p.type = "PUBREL" => p.id \in Ids
         /\ p.type = "PINGREQ" => p.id = None
         /\ p.type \in {"PUBACK", "PUBREC", "PUBCOMP"} => p.id \in Incoming
  BY DEF UpPacket

\* What the client reads is what its type says.
LEMMA DownFields ==
  ASSUME NEW p \in DownPacket
  PROVE  /\ p.type \in {"CONNACK", "SUBACK", "UNSUBACK", "PUBACK", "PUBREC", "PUBCOMP",
                         "PUBLISH1", "PUBLISH2", "PUBREL", "PINGRESP"}
         /\ p.type = "CONNACK" => p.id \in {0, 1} /\ p.value \in {0, 5}
         /\ p.type \in {"SUBACK", "UNSUBACK", "PUBACK", "PUBREC", "PUBCOMP"} => p.id \in Ids
         /\ p.type \in {"PUBLISH1", "PUBLISH2"} => p.id \in Incoming /\ p.value \in Topics
         /\ p.type = "PUBREL" => p.id \in Incoming
         /\ p.type = "PINGRESP" => p.id = None
  BY DEF DownPacket

\* A packet is sent as its header and its body.
LEMMA UnitsAre ==
  ASSUME NEW p \in DownPacket
  PROVE  /\ Units(p) \in Seq(Unit) /\ Len(Units(p)) = 2
         /\ Units(p)[1] = [packet |-> p, part |-> "header"]
         /\ Units(p)[2] = [packet |-> p, part |-> "body"]
         /\ Units(p)[1].packet = p /\ Units(p)[1].part = "header"
         /\ Units(p)[2].packet = p /\ Units(p)[2].part = "body"
         /\ Units(p)[1] \in Unit /\ Units(p)[2] \in Unit
  <1> DEFINE h == [packet |-> p, part |-> "header"]
             b == [packet |-> p, part |-> "body"]
  <1>1. h \in Unit /\ b \in Unit /\ h.packet = p /\ h.part = "header" /\ b.packet = p /\ b.part = "body"
    BY DEF Unit
  <1>2. Units(p) = <<h, b>>
    BY DEF Units
  <1> HIDE DEF h, b
  <1>3. <<h, b>> \in Seq(Unit) /\ Len(<<h, b>>) = 2 /\ <<h, b>>[1] = h /\ <<h, b>>[2] = b
    BY <1>1
  <1> QED
    BY <1>1, <1>2, <1>3 DEF h, b

\* The fields of a unit.
LEMMA UnitParts ==
  ASSUME NEW u \in Unit
  PROVE  u.packet \in DownPacket /\ u.part \in {"header", "body"}
  BY DEF Unit

-----------------------------------------------------------------------------
(* Identifiers and subscriptions *)

\* A set of numbers that is not empty has a smallest one.
LEMMA Smallest ==
  ASSUME NEW S \in SUBSET Nat, S # {}
  PROVE  \E n \in S : \A k \in S : n <= k
  <1>1. PICK n \in S : \A k \in S : <<k, n>> \notin OpToRel(<, Nat)
    BY NatLessThanWellFounded, WFMin
  <1>2. \A k \in S : ~(k < n)
    BY <1>1 DEF OpToRel
  <1> QED
    BY <1>2

\* The identifiers after the counter are identifiers, all but the counter itself.
LEMMA AfterIs ==
  ASSUME counter \in Ids
  PROVE  /\ \A n \in 1 .. MaxId - 1 : After(n) \in Ids
         /\ \A i \in Ids \ {counter} : \E n \in 1 .. MaxId - 1 : After(n) = i
  <1>1. MaxId \in Nat /\ MaxId > 1 /\ counter \in 1 .. MaxId
    BY MqttAssumption DEF Ids
  <1>2. ASSUME NEW n \in 1 .. MaxId - 1 PROVE After(n) \in Ids
    <2>1. counter - 1 + n \in Nat /\ (counter - 1 + n) % MaxId \in 0 .. MaxId - 1
      BY <1>1
    <2> QED
      BY <1>1, <2>1 DEF After, Ids
  <1>3. ASSUME NEW i \in Ids \ {counter} PROVE \E n \in 1 .. MaxId - 1 : After(n) = i
    <2>1. i \in 1 .. MaxId /\ i # counter
      BY DEF Ids
    <2>2. CASE i > counter
      <3>1. i - counter \in 1 .. MaxId - 1 /\ counter - 1 + (i - counter) = i - 1
        BY <1>1, <2>1, <2>2
      <3>2. (i - 1) % MaxId = i - 1
        BY <1>1, <2>1
      <3>3. After(i - counter) = ((i - 1) % MaxId) + 1
        BY <3>1 DEF After
      <3> QED
        BY <2>1, <3>1, <3>2, <3>3
    <2>3. CASE i < counter
      <3>1. i - counter + MaxId \in 1 .. MaxId - 1 /\ counter - 1 + (i - counter + MaxId) = i - 1 + MaxId
        BY <1>1, <2>1, <2>3
      <3>2. (i - 1 + MaxId) % MaxId = i - 1
        BY <1>1, <2>1
      <3>3. After(i - counter + MaxId) = ((i - 1 + MaxId) % MaxId) + 1
        BY <3>1 DEF After
      <3> QED
        BY <2>1, <3>1, <3>2, <3>3
    <2> QED
      BY <1>1, <2>1, <2>2, <2>3
  <1> QED
    BY <1>2, <1>3

\* unusedPacketIdentifier returns an identifier, and a free one if there is any.
THEOREM UnusedIsFreeIfAny ==
  ASSUME counter \in Ids
  PROVE  /\ unusedPacketIdentifier \in Ids
         /\ (\E i \in Ids : ~InUse(i)) => ~InUse(unusedPacketIdentifier)
  <1> DEFINE free == {n \in 1 .. MaxId - 1 : ~InUse(After(n))}
  <1>1. free \in SUBSET (1 .. MaxId - 1) /\ free \in SUBSET Nat
    BY MqttAssumption
  <1>2. \A n \in free : After(n) \in Ids /\ ~InUse(After(n))
    BY AfterIs
  <1>3. \A i \in Ids : ~InUse(i) => i = counter \/ free # {}
    <2>1. ASSUME NEW i \in Ids, ~InUse(i), i # counter PROVE free # {}
      <3>1. PICK n \in 1 .. MaxId - 1 : After(n) = i
        BY <2>1, AfterIs
      <3> QED
        BY <2>1, <3>1
    <2> QED
      BY <2>1
  <1>4. unusedPacketIdentifier =
          IF free = {} THEN counter ELSE After(CHOOSE n \in free : \A k \in free : n <= k)
    BY DEF unusedPacketIdentifier
  <1> HIDE DEF free
  <1>5. CASE free = {}
    BY <1>3, <1>4, <1>5
  <1>6. CASE free # {}
    <2>1. (CHOOSE n \in free : \A k \in free : n <= k) \in free
      BY <1>1, <1>6, Smallest
    <2> QED
      BY <1>2, <1>4, <1>6, <2>1
  <1> QED
    BY <1>5, <1>6

\* An identifier is given out that no table holds, until all of them are taken.
LEMMA IdentifierGiven ==
  ASSUME counter \in Ids, NextIdentifier
  PROVE  /\ counter' \in Ids /\ exhausted' \in BOOLEAN
         /\ ~exhausted' => ~exhausted /\ ~InUse(counter')
         /\ exhausted' /\ ~exhausted => \A i \in Ids : InUse(i)
  BY UnusedIsFreeIfAny DEF NextIdentifier

SubscriptionStates ==
  {"SubscriptionPending", "Subscribed", "UnsubscriptionPending", "Unsubscribed", "Error"}
Subscription == [topic : Topics, state : SubscriptionStates]

\* A change of state leaves the subscriptions and their topics.
LEMMA InStateIs ==
  ASSUME subscriptions \in Seq(Subscription), NEW subs, NEW value \in SubscriptionStates
  PROVE  /\ InState(subs, value) \in Seq(Subscription)
         /\ Len(InState(subs, value)) = Len(subscriptions)
         /\ DOMAIN InState(subs, value) = DOMAIN subscriptions
         /\ \A s \in DOMAIN subscriptions :
              /\ InState(subs, value)[s].topic = subscriptions[s].topic
              /\ InState(subs, value)[s].state = IF s \in subs THEN value ELSE subscriptions[s].state
  <1> DEFINE e(s) == IF s \in subs THEN [subscriptions[s] EXCEPT !.state = value] ELSE subscriptions[s]
  <1>1. Len(subscriptions) \in Nat /\ DOMAIN subscriptions = 1 .. Len(subscriptions)
    OBVIOUS
  <1>2. \A s \in 1 .. Len(subscriptions) : subscriptions[s] \in Subscription
    OBVIOUS
  <1>3. \A s \in 1 .. Len(subscriptions) :
          /\ e(s) \in Subscription /\ e(s).topic = subscriptions[s].topic
          /\ e(s).state = IF s \in subs THEN value ELSE subscriptions[s].state
    BY <1>2 DEF Subscription
  <1>4. InState(subs, value) = [s \in 1 .. Len(subscriptions) |-> e(s)]
    BY <1>1 DEF InState
  <1> HIDE DEF e
  <1>5. [s \in 1 .. Len(subscriptions) |-> e(s)] \in Seq(Subscription)
    BY <1>1, <1>3, IsASeq
  <1>6. Len([s \in 1 .. Len(subscriptions) |-> e(s)]) = Len(subscriptions)
    BY <1>1, <1>5, LenProperties
  <1> QED
    BY <1>1, <1>3, <1>4, <1>5, <1>6

-----------------------------------------------------------------------------
(* Type correctness.  That no more answers to pings come than were asked for
   needs the stream: pingTimeout has only its upper bound here. *)

Flags ==
  /\ cleanSession \in BOOLEAN /\ missing \in BOOLEAN /\ pingTimer \in BOOLEAN
  /\ exhausted \in BOOLEAN /\ silent \in BOOLEAN
  /\ restored \in BOOLEAN /\ outOfStep \in BOOLEAN

ClientTypes ==
  /\ state \in {"Disconnected", "Connecting", "Connected"}
  /\ internal \in {"BrokerDisconnected", "BrokerConnecting", "BrokerWaitForConnectAck",
                    "BrokerConnected"}
  /\ socket \in {"closed", "opening", "open"}
  /\ pingTimeout \in Int /\ pingTimeout <= 2
  /\ connects \in 0 .. MaxConnects

TableTypes ==
  /\ counter \in Ids
  /\ pendingMessages \in [Ids -> Messages \union {None}]
  /\ pendingReleaseMessages \in [Ids -> Messages \union {None}]
  /\ pendingSubscriptionAck \in [Ids -> DOMAIN subscriptions \union {None}]
  /\ pendingUnsubscriptions \in [Ids -> DOMAIN subscriptions \union {None}]
  /\ subscriptions \in Seq(Subscription)
  /\ active \subseteq DOMAIN subscriptions

Flight == [status : {"unsent", "PUBLISH1", "PUBLISH2", "PUBREL", "done"}, topic : Topics \union {None}]

BrokerTypes ==
  /\ session \subseteq Topics
  /\ inflight \in [Incoming -> Flight]
  /\ \A n \in Incoming :
       inflight[n].status \in {"PUBLISH1", "PUBLISH2"} => inflight[n].topic \in Topics
  /\ received \in [Messages -> Nat] /\ published \in 0 .. MaxExchanges

StreamTypes == up \in Seq(UpPacket) /\ down \in Seq(Unit)

HistoryTypes ==
  /\ sent \subseteq Messages /\ unheard \subseteq Incoming

Types == Flags /\ ClientTypes /\ TableTypes /\ BrokerTypes /\ StreamTypes /\ HistoryTypes

\* The objects behind the indices.
LEMMA Objects ==
  ASSUME TableTypes
  PROVE  /\ Len(subscriptions) \in Nat /\ DOMAIN subscriptions = 1 .. Len(subscriptions)
         /\ \A s \in DOMAIN subscriptions :
              /\ s \in Nat /\ s # None /\ subscriptions[s] \in Subscription
              /\ subscriptions[s].topic \in Topics /\ subscriptions[s].state \in SubscriptionStates
         /\ \A s \in active : s \in DOMAIN subscriptions
  <1>1. Len(subscriptions) \in Nat /\ DOMAIN subscriptions = 1 .. Len(subscriptions)
    BY DEF TableTypes
  <1>2. \A s \in DOMAIN subscriptions : subscriptions[s] \in Subscription
    BY <1>1 DEF TableTypes
  <1>3. \A s \in DOMAIN subscriptions : s \in Nat /\ s # None
    BY <1>1 DEF None
  <1>4. \A x \in Subscription : x.topic \in Topics /\ x.state \in SubscriptionStates
    BY DEF Subscription
  <1> QED
    BY <1>1, <1>2, <1>3, <1>4 DEF TableTypes

\* What a step is.
LEMMA Actions ==
  [Next]_vars =>
    \/ connectToHost \/ disconnectConnected \/ disconnectConnecting
    \/ \E q \in QoS : publish(q)
    \/ \E topic \in Topics : subscribe(topic)
    \/ \E s \in active : unsubscribe(s)
    \/ PingTimer \/ transportConnectionEstablished \/ transportError
    \/ socket = "open" /\ (ReadHeader \/ Misread)
    \/ socket = "open" /\ finalize_connack
    \/ socket = "open" /\ finalize_suback
    \/ socket = "open" /\ finalize_unsuback
    \/ socket = "open" /\ finalize_publish
    \/ socket = "open" /\ finalize_pubrel
    \/ socket = "open" /\ finalize_puback
    \/ socket = "open" /\ finalize_pubrec
    \/ socket = "open" /\ finalize_pubcomp
    \/ socket = "open" /\ finalize_pingresp
    \/ BrokerTakes \/ FallSilent
    \/ \E n \in Incoming, topic \in Topics, type \in {"PUBLISH1", "PUBLISH2"} :
         BrokerPublishes(n, topic, type)
    \/ UNCHANGED vars
  BY DEF Next, Application, Transport, Broker, disconnectFromHost, transportReadyRead, ReadBody

\* The client and the broker start from nothing.
LEMMA InitTypes == Init => Types
  <1> SUFFICES ASSUME Init PROVE Types
    OBVIOUS
  <1>1. Flags
    BY MqttAssumption, Zenon DEF Init, Flags
  <1>5. ClientTypes
    BY MqttAssumption DEF Init, ClientTypes
  <1>2. TableTypes
    <2>1. 1 \in Ids /\ <<>> \in Seq(Subscription) /\ DOMAIN <<>> = {}
      BY MqttAssumption DEF Ids
    <2> QED
      BY <2>1 DEF Init, TableTypes
  <1>3. BrokerTypes
    BY MqttAssumption DEF Init, BrokerTypes, Flight, None
  <1>4. StreamTypes /\ HistoryTypes
    BY DEF Init, StreamTypes, HistoryTypes
  <1> QED
    BY <1>1, <1>2, <1>3, <1>4, <1>5 DEF Types

\* What the first unit of the stream is.
LEMMA Reading ==
  ASSUME StreamTypes, down # <<>>
  PROVE  /\ Head(down) \in Unit /\ Arriving \in DownPacket /\ Part \in {"header", "body"}
         /\ Head(down) = down[1] /\ Tail(down) \in Seq(Unit) /\ Len(down) > 0
         /\ Len(Tail(down)) = Len(down) - 1
         /\ \A k \in 1 .. Len(Tail(down)) : Tail(down)[k] = down[k + 1]
  <1>1. Head(down) \in Unit /\ Head(down) = down[1]
    BY DEF StreamTypes
  <1>2. Tail(down) \in Seq(Unit) /\ Len(down) > 0 /\ Len(Tail(down)) = Len(down) - 1
    BY DEF StreamTypes
  <1>3. \A k \in 1 .. Len(Tail(down)) : Tail(down)[k] = down[k + 1]
    BY DEF StreamTypes
  <1> QED
    BY <1>1, <1>2, <1>3, UnitParts DEF Arriving, Part

\* What is true or false stays so.
LEMMA FlagsStep == Types /\ [Next]_vars => Flags'
  <1> SUFFICES ASSUME Types, [Next]_vars PROVE Flags'
    OBVIOUS
  <1> USE DEF Types, Flags, client, ping, ids, history, broker
  <1>1. CASE connectToHost
    BY <1>1, Zenon DEF connectToHost
  <1>2. CASE disconnectConnected
    BY <1>2, Zenon DEF disconnectConnected, DropTransport, StopPing
  <1>3. CASE disconnectConnecting
    BY <1>3, Zenon DEF disconnectConnecting, DropTransport, StopPing
  <1>4. CASE \E q \in QoS : publish(q)
    <2> PICK q \in QoS : publish(q)
      BY <1>4
    <2>1. exhausted' \in BOOLEAN
      BY Zenon, IdentifierGiven DEF publish, TableTypes
    <2> QED
      BY <2>1, Zenon DEF publish
  <1>5. CASE \E topic \in Topics : subscribe(topic)
    <2> PICK topic \in Topics : subscribe(topic)
      BY <1>5
    <2>1. exhausted' \in BOOLEAN
      BY Zenon, IdentifierGiven DEF subscribe, TableTypes
    <2> QED
      BY <2>1, Zenon DEF subscribe
  <1>6. CASE \E s \in active : unsubscribe(s)
    <2> PICK s \in active : unsubscribe(s)
      BY <1>6
    <2>1. exhausted' \in BOOLEAN
      BY Zenon, IdentifierGiven DEF unsubscribe, TableTypes
    <2> QED
      BY <2>1, Zenon DEF unsubscribe
  <1>7. CASE PingTimer
    BY <1>7, Zenon DEF PingTimer, closeConnection, DropTransport, StopPing
  <1>8. CASE transportConnectionEstablished
    BY <1>8, Zenon DEF transportConnectionEstablished, ClearMissing
  <1>9. CASE transportError
    BY <1>9, Zenon DEF transportError, closeConnection, DropTransport, StopPing
  <1>10. CASE ReadHeader \/ Misread
    BY <1>10, Zenon DEF ReadHeader, Misread, ProtocolViolation, closeConnection, DropTransport, StopPing
  <1>11. CASE finalize_connack
    BY <1>11, Zenon DEF finalize_connack, Consume, closeConnection, DropTransport, StopPing
  <1>12. CASE finalize_suback \/ finalize_unsuback \/ finalize_publish
    BY <1>12, Zenon DEF finalize_suback, finalize_unsuback, finalize_publish, Consume
  <1>13. CASE finalize_pubrel \/ finalize_puback \/ finalize_pubrec \/ finalize_pubcomp
    BY <1>13, Zenon DEF finalize_pubrel, finalize_puback, finalize_pubrec, finalize_pubcomp, Consume
  <1>14. CASE finalize_pingresp
    BY <1>14, Zenon DEF finalize_pingresp, Consume
  <1>15. CASE BrokerTakes
    BY <1>15, Zenon DEF BrokerTakes
  <1>16. CASE FallSilent
    BY <1>16, Zenon DEF FallSilent
  <1>17. CASE \E n \in Incoming, topic \in Topics, type \in {"PUBLISH1", "PUBLISH2"} :
                BrokerPublishes(n, topic, type)
    BY <1>17, Zenon DEF BrokerPublishes
  <1>18. CASE UNCHANGED vars
    BY <1>18, Zenon DEF vars, stream
  <1> QED
    BY <1>1, <1>2, <1>3, <1>4, <1>5, <1>6, <1>7, <1>8, <1>9, <1>10, <1>11, <1>12, <1>13, <1>14,
       <1>15, <1>16, <1>17, <1>18, Actions

\* What the client types are after every step.
LEMMA ClientTypesStep == Types /\ [Next]_vars => ClientTypes'
  <1> SUFFICES ASSUME Types, [Next]_vars PROVE ClientTypes'
    OBVIOUS
  <1> USE DEF Types, ClientTypes, client, ping, stream
  <1>1. CASE connectToHost
    BY <1>1, MqttAssumption DEF connectToHost
  <1>2. CASE disconnectConnected
    BY <1>2 DEF disconnectConnected, DropTransport, StopPing
  <1>3. CASE disconnectConnecting
    BY <1>3 DEF disconnectConnecting, DropTransport, StopPing
  <1>4. CASE \E q \in QoS : publish(q)
    BY <1>4 DEF publish
  <1>5. CASE \E topic \in Topics : subscribe(topic)
    BY <1>5 DEF subscribe
  <1>6. CASE \E s \in active : unsubscribe(s)
    BY <1>6 DEF unsubscribe
  <1>7. CASE PingTimer
    <2>1. CASE PingsUnanswered
      BY <1>7, <2>1 DEF PingTimer, closeConnection, DropTransport, StopPing
    <2>2. CASE ~PingsUnanswered
      <3>1. UNCHANGED <<state, internal, socket, connects>> /\ CountPing
        BY <1>7, <2>2 DEF PingTimer
      <3> QED
        BY <2>2, <3>1 DEF CountPing, PingsUnanswered
    <2> QED
      BY <2>1, <2>2
  <1>8. CASE transportConnectionEstablished
    BY <1>8 DEF transportConnectionEstablished, ClearMissing
  <1>9. CASE transportError
    BY <1>9 DEF transportError, closeConnection, DropTransport, StopPing
  <1>10. CASE ReadHeader \/ Misread
    BY <1>10 DEF ReadHeader, Misread, ProtocolViolation, closeConnection, DropTransport, StopPing
  <1>11. CASE finalize_connack
    BY <1>11 DEF finalize_connack, Consume, closeConnection, DropTransport, StopPing
  <1>12. CASE finalize_suback \/ finalize_unsuback \/ finalize_publish
    BY <1>12 DEF finalize_suback, finalize_unsuback, finalize_publish, Consume
  <1>13. CASE finalize_pubrel \/ finalize_puback \/ finalize_pubrec \/ finalize_pubcomp
    BY <1>13 DEF finalize_pubrel, finalize_puback, finalize_pubrec, finalize_pubcomp, Consume
  <1>14. CASE finalize_pingresp
    BY <1>14 DEF finalize_pingresp, Consume
  <1>15. CASE BrokerTakes
    BY <1>15 DEF BrokerTakes
  <1>16. CASE FallSilent
    BY <1>16 DEF FallSilent
  <1>17. CASE \E n \in Incoming, topic \in Topics, type \in {"PUBLISH1", "PUBLISH2"} :
                BrokerPublishes(n, topic, type)
    BY <1>17 DEF BrokerPublishes
  <1>18. CASE UNCHANGED vars
    BY <1>18 DEF vars
  <1> QED
    BY <1>1, <1>2, <1>3, <1>4, <1>5, <1>6, <1>7, <1>8, <1>9, <1>10, <1>11, <1>12, <1>13, <1>14,
       <1>15, <1>16, <1>17, <1>18, Actions

-----------------------------------------------------------------------------
(* What the steps do to the streams. *)

\* One packet more is on its way to the broker, unless the broker has gone.
LEMMA Written ==
  ASSUME StreamTypes, NEW p \in UpPacket, Write(<<p>>)
  PROVE  /\ up' \in Seq(UpPacket)
         /\ silent => up' = up
         /\ ~silent => /\ up' = up \o <<p>> /\ Len(up') = Len(up) + 1 /\ up'[Len(up) + 1] = p
                       /\ \A k \in 1 .. Len(up) : up'[k] = up[k]
  <1>1. <<p>> \in Seq(UpPacket) /\ Len(<<p>>) = 1 /\ <<p>>[1] = p
    OBVIOUS
  <1>2. /\ up \o <<p>> \in Seq(UpPacket)
        /\ Len(up \o <<p>>) = Len(up) + Len(<<p>>)
        /\ \A k \in 1 .. Len(up) + Len(<<p>>) :
             (up \o <<p>>)[k] = IF k <= Len(up) THEN up[k] ELSE <<p>>[k - Len(up)]
    BY <1>1, ConcatProperties DEF StreamTypes
  <1>3. Len(up) \in Nat
    BY DEF StreamTypes
  <1>4. /\ Len(up \o <<p>>) = Len(up) + 1 /\ (up \o <<p>>)[Len(up) + 1] = p
        /\ \A k \in 1 .. Len(up) : (up \o <<p>>)[k] = up[k]
    BY <1>1, <1>2, <1>3
  <1> QED
    BY <1>2, <1>4 DEF StreamTypes, Write

\* One packet more is on its way to the client.
LEMMA Answered ==
  ASSUME StreamTypes, NEW a \in DownPacket, Answer(Units(a))
  PROVE  /\ down' \in Seq(Unit) /\ Len(down') = Len(down) + 2
         /\ down' = down \o Units(a)
         /\ \A k \in 1 .. Len(down) : down'[k] = down[k]
         /\ down'[Len(down) + 1] = [packet |-> a, part |-> "header"]
         /\ down'[Len(down) + 2] = [packet |-> a, part |-> "body"]
         /\ down'[Len(down) + 1].packet = a /\ down'[Len(down) + 1].part = "header"
         /\ down'[Len(down) + 2].packet = a /\ down'[Len(down) + 2].part = "body"
  <1>1. /\ Units(a) \in Seq(Unit) /\ Len(Units(a)) = 2
        /\ Units(a)[1] = [packet |-> a, part |-> "header"]
        /\ Units(a)[2] = [packet |-> a, part |-> "body"]
        /\ Units(a)[1].packet = a /\ Units(a)[1].part = "header"
        /\ Units(a)[2].packet = a /\ Units(a)[2].part = "body"
    BY UnitsAre
  <1>2. down' = down \o Units(a)
    BY DEF Answer
  <1> DEFINE r == Units(a)
  <1> HIDE DEF r
  <1>3. /\ down \o r \in Seq(Unit)
        /\ Len(down \o r) = Len(down) + Len(r)
        /\ \A k \in 1 .. Len(down) + Len(r) :
             (down \o r)[k] = IF k <= Len(down) THEN down[k] ELSE r[k - Len(down)]
    BY <1>1, ConcatProperties DEF StreamTypes, r
  <1>4. Len(down) \in Nat
    BY DEF StreamTypes
  <1>5. /\ Len(down \o r) = Len(down) + 2
        /\ (down \o r)[Len(down) + 1] = r[1] /\ (down \o r)[Len(down) + 2] = r[2]
        /\ \A k \in 1 .. Len(down) : (down \o r)[k] = down[k]
    BY <1>1, <1>3, <1>4 DEF r
  <1> QED
    BY <1>1, <1>2, <1>3, <1>5 DEF r

\* The answer a of the broker to the packet p.
Matches(p, a) ==
  /\ <<p.type, a.type>> \in {<<"SUBSCRIBE", "SUBACK">>, <<"UNSUBSCRIBE", "UNSUBACK">>,
       <<"PUBLISH1", "PUBACK">>, <<"PUBLISH2", "PUBREC">>, <<"PUBREC", "PUBREL">>,
       <<"PUBREL", "PUBCOMP">>, <<"PINGREQ", "PINGRESP">>}
  /\ a.id = p.id

\* The first packet is taken.
LEMMA Taking ==
  ASSUME StreamTypes, up # <<>>
  PROVE  /\ Head(up) \in UpPacket /\ Head(up) = up[1] /\ Len(up) > 0
         /\ Tail(up) \in Seq(UpPacket) /\ Len(Tail(up)) = Len(up) - 1
         /\ \A k \in 1 .. Len(Tail(up)) : Tail(up)[k] = up[k + 1]
  BY DEF StreamTypes

\* A broker takes a packet and gives its one answer, except to CONNECT, or none.
LEMMA TakesOne ==
  ASSUME StreamTypes, BrokerTakes
  PROVE  \/ Head(up).type = "CONNECT" /\ BrokerConnects
         \/ /\ Head(up).type \in {"PUBLISH0", "PUBACK", "PUBCOMP", "DISCONNECT"}
            /\ down' = down
         \/ \E a \in DownPacket : Matches(Head(up), a) /\ Answer(Units(a))
  <1> DEFINE p == Head(up)
  <1>1. p \in UpPacket
    BY Taking DEF BrokerTakes
  <1> HIDE DEF p
  <1>2. down \o <<>> = down
    BY DEF StreamTypes
  <1>3. CASE p.type = "CONNECT"
    BY <1>3 DEF BrokerTakes, p
  <1>4. CASE p.type = "SUBSCRIBE"
    <2>1. BrokerSubscribes(p)
      BY <1>4 DEF BrokerTakes, p
    <2>2. PICK v \in {0, 128} : Answer(Units(Packet("SUBACK", p.id, v)))
      BY <2>1 DEF BrokerSubscribes
    <2>3. Packet("SUBACK", p.id, v) \in DownPacket
      BY <1>1, <1>4, UpFields, DownPackets
    <2>4. Matches(p, Packet("SUBACK", p.id, v))
      BY <1>4, PacketParts DEF Matches
    <2> QED
      BY <2>2, <2>3, <2>4 DEF p
  <1>5. CASE p.type = "UNSUBSCRIBE"
    <2>1. Answer(Units(Packet("UNSUBACK", p.id, None)))
      BY <1>5 DEF BrokerTakes, p
    <2>2. Packet("UNSUBACK", p.id, None) \in DownPacket
      BY <1>1, <1>5, UpFields, DownPackets
    <2>3. Matches(p, Packet("UNSUBACK", p.id, None))
      BY <1>5, PacketParts DEF Matches
    <2> QED
      BY <2>1, <2>2, <2>3 DEF p
  <1>6. CASE p.type \in {"PUBLISH0", "PUBLISH1", "PUBLISH2"}
    <2>1. BrokerReceives(p)
      BY <1>6 DEF BrokerTakes, p
    <2>2. CASE p.type = "PUBLISH0"
      BY <1>2, <2>1, <2>2 DEF BrokerReceives, Answer, p
    <2>3. CASE p.type = "PUBLISH1"
      <3>1. Answer(Units(Packet("PUBACK", p.id, None)))
        BY <2>1, <2>3 DEF BrokerReceives
      <3>2. Packet("PUBACK", p.id, None) \in DownPacket
        BY <1>1, <2>3, UpFields, DownPackets
      <3>3. Matches(p, Packet("PUBACK", p.id, None))
        BY <2>3, PacketParts DEF Matches
      <3> QED
        BY <3>1, <3>2, <3>3 DEF p
    <2>4. CASE p.type = "PUBLISH2"
      <3>1. Answer(Units(Packet("PUBREC", p.id, None)))
        BY <2>1, <2>4 DEF BrokerReceives
      <3>2. Packet("PUBREC", p.id, None) \in DownPacket
        BY <1>1, <2>4, UpFields, DownPackets
      <3>3. Matches(p, Packet("PUBREC", p.id, None))
        BY <2>4, PacketParts DEF Matches
      <3> QED
        BY <3>1, <3>2, <3>3 DEF p
    <2> QED
      BY <1>6, <2>2, <2>3, <2>4
  <1>7. CASE p.type \in {"PUBACK", "PUBREC", "PUBCOMP"}
    <2>1. BrokerAdvances(p)
      BY <1>7 DEF BrokerTakes, p
    <2>2. CASE p.type # "PUBREC"
      BY <1>2, <1>7, <2>1, <2>2 DEF BrokerAdvances, Answer, p
    <2>3. CASE p.type = "PUBREC"
      <3>1. Answer(Units(Packet("PUBREL", p.id, None)))
        BY <2>1, <2>3 DEF BrokerAdvances
      <3>2. Packet("PUBREL", p.id, None) \in DownPacket
        BY <1>1, <2>3, UpFields, DownPackets
      <3>3. Matches(p, Packet("PUBREL", p.id, None))
        BY <2>3, PacketParts DEF Matches
      <3> QED
        BY <3>1, <3>2, <3>3 DEF p
    <2> QED
      BY <2>2, <2>3
  <1>8. CASE p.type = "PUBREL"
    <2>1. Answer(Units(Packet("PUBCOMP", p.id, None)))
      BY <1>8 DEF BrokerTakes, p
    <2>2. Packet("PUBCOMP", p.id, None) \in DownPacket
      BY <1>1, <1>8, UpFields, DownPackets
    <2>3. Matches(p, Packet("PUBCOMP", p.id, None))
      BY <1>8, PacketParts DEF Matches
    <2> QED
      BY <2>1, <2>2, <2>3 DEF p
  <1>9. CASE p.type = "PINGREQ"
    <2>1. Answer(Units(Packet("PINGRESP", None, None)))
      BY <1>9 DEF BrokerTakes, p
    <2>2. Packet("PINGRESP", None, None) \in DownPacket /\ p.id = None
      BY <1>1, <1>9, UpFields, DownPackets
    <2>3. Matches(p, Packet("PINGRESP", None, None))
      BY <1>9, <2>2, PacketParts DEF Matches
    <2> QED
      BY <2>1, <2>2, <2>3 DEF p
  <1>10. CASE p.type = "DISCONNECT"
    BY <1>10 DEF BrokerTakes, p
  <1> QED
    BY <1>1, <1>3, <1>4, <1>5, <1>6, <1>7, <1>8, <1>9, <1>10, UpFields DEF p

\* A header is followed by its body, a body by the next header.
WellFramed(q) ==
  /\ \A k \in 1 .. Len(q) : q[k].part = "header" =>
       k + 1 \in 1 .. Len(q) /\ q[k + 1] = [packet |-> q[k].packet, part |-> "body"]
  /\ \A k \in 1 .. Len(q) - 1 : q[k].part = "body" => q[k + 1].part = "header"

\* Only messages and releases are sent again.
Repeats(q) ==
  \A k \in 1 .. Len(q) : q[k].packet.type \in {"PUBLISH1", "PUBLISH2", "PUBREL"}

\* The messages that are sent again are whole packets.
LEMMA RepeatedIs ==
  ASSUME BrokerTypes, NEW order \in Orders
  PROVE  /\ RepeatedAll(order) \in Seq(Unit)
         /\ WellFramed(RepeatedAll(order)) /\ Repeats(RepeatedAll(order))
         /\ RepeatedAll(order) # <<>> => RepeatedAll(order)[1].part = "header"
  <1> DEFINE c == Cardinality(Unfinished)
             r == RepeatedAll(order)
             e(k) == Units(Repeated(order[(k + 1) \div 2]))[IF k % 2 = 1 THEN 1 ELSE 2]
  <1>1. c \in Nat
    <2>1. IsFiniteSet(Incoming) /\ Unfinished \in SUBSET Incoming
      BY FS_Interval, MqttAssumption DEF Incoming, Unfinished
    <2> QED
      BY <2>1, FS_Subset, FS_CardinalityType
  <1>2. order \in [1 .. c -> Unfinished]
    BY DEF Orders
  <1>3. r = [k \in 1 .. 2 * c |-> e(k)]
    BY DEF RepeatedAll
  <1> HIDE DEF c
  <1>4. ASSUME NEW n \in Unfinished
        PROVE  Repeated(n) \in DownPacket /\ Repeated(n).type \in {"PUBLISH1", "PUBLISH2", "PUBREL"}
    <2>1. n \in Incoming /\ inflight[n].status \in {"PUBLISH1", "PUBLISH2", "PUBREL"}
      BY DEF Unfinished
    <2>2. Repeated(n) = Packet(inflight[n].status, n,
                                IF inflight[n].status = "PUBREL" THEN None ELSE inflight[n].topic)
      BY DEF Repeated
    <2>3. CASE inflight[n].status = "PUBREL"
      BY <2>1, <2>2, <2>3, DownPackets, PacketParts
    <2>4. CASE inflight[n].status # "PUBREL"
      <3>1. inflight[n].status \in {"PUBLISH1", "PUBLISH2"} /\ inflight[n].topic \in Topics
        BY <2>1, <2>4 DEF BrokerTypes
      <3>2. Repeated(n) = Packet(inflight[n].status, n, inflight[n].topic)
        BY <2>2, <2>4
      <3> QED
        BY <2>1, <3>1, <3>2, DownPackets, PacketParts
    <2> QED
      BY <2>3, <2>4
  <1>5. ASSUME NEW k \in 1 .. 2 * c
        PROVE  /\ e(k) \in Unit
               /\ e(k).packet = Repeated(order[(k + 1) \div 2])
               /\ e(k).part = IF k % 2 = 1 THEN "header" ELSE "body"
               /\ e(k).packet.type \in {"PUBLISH1", "PUBLISH2", "PUBREL"}
    <2> DEFINE p == Repeated(order[(k + 1) \div 2])
    <2>1. (k + 1) \div 2 \in 1 .. c
      BY <1>1
    <2>2. order[(k + 1) \div 2] \in Unfinished
      BY <1>2, <2>1
    <2>3. p \in DownPacket /\ p.type \in {"PUBLISH1", "PUBLISH2", "PUBREL"}
      BY <1>4, <2>2
    <2> HIDE DEF p
    <2>4. /\ Units(p)[1] = [packet |-> p, part |-> "header"]
          /\ Units(p)[2] = [packet |-> p, part |-> "body"]
          /\ Units(p)[1] \in Unit /\ Units(p)[2] \in Unit
      BY <2>3, UnitsAre
    <2>5. e(k) = IF k % 2 = 1 THEN Units(p)[1] ELSE Units(p)[2]
      BY DEF p
    <2> HIDE DEF e
    <2> QED
      BY <2>3, <2>4, <2>5 DEF p
  <1> HIDE DEF e
  <1>6. r \in Seq(Unit) /\ Len(r) = 2 * c /\ \A k \in 1 .. Len(r) : r[k] = e(k)
    <2>1. 2 * c \in Nat
      BY <1>1
    <2>2. [k \in 1 .. 2 * c |-> e(k)] \in Seq(Unit)
      BY <1>5, <2>1, IsASeq
    <2> HIDE DEF r
    <2>3. r \in Seq(Unit) /\ DOMAIN r = 1 .. 2 * c
      BY <1>3, <2>2
    <2>4. Len(r) = 2 * c
      BY <2>1, <2>3, LenProperties
    <2> QED
      BY <1>3, <2>3, <2>4
  <1> HIDE DEF r
  <1>7. WellFramed(r)
    <2>1. ASSUME NEW k \in 1 .. Len(r), r[k].part = "header"
          PROVE  k + 1 \in 1 .. Len(r) /\ r[k + 1] = [packet |-> r[k].packet, part |-> "body"]
      <3>1. k \in 1 .. 2 * c /\ k % 2 = 1
        BY <1>5, <1>6, <2>1
      <3>2. k + 1 \in 1 .. 2 * c /\ (k + 1) % 2 # 1 /\ (k + 1 + 1) \div 2 = (k + 1) \div 2
        BY <1>1, <3>1
      <3>3. e(k + 1) \in Unit /\ e(k + 1).part = "body" /\ e(k + 1).packet = e(k).packet
        BY <1>5, <3>1, <3>2
      <3>4. e(k + 1) = [packet |-> e(k + 1).packet, part |-> e(k + 1).part]
        BY <3>3 DEF Unit
      <3> QED
        BY <1>6, <3>2, <3>3, <3>4
    <2>2. ASSUME NEW k \in 1 .. Len(r) - 1, r[k].part = "body"
          PROVE  r[k + 1].part = "header"
      <3>1. k \in 1 .. 2 * c /\ k + 1 \in 1 .. 2 * c
        BY <1>1, <1>6
      <3>2. k % 2 # 1
        BY <1>5, <1>6, <2>2, <3>1
      <3>3. (k + 1) % 2 = 1
        BY <3>1, <3>2
      <3> QED
        BY <1>5, <1>6, <3>1, <3>3
    <2> QED
      BY <2>1, <2>2 DEF WellFramed
  <1>8. Repeats(r)
    BY <1>5, <1>6 DEF Repeats
  <1>9. r # <<>> => r[1].part = "header"
    <2>1. r # <<>> => Len(r) > 0
      BY <1>6
    <2>2. r # <<>> => 1 \in 1 .. 2 * c /\ 1 % 2 = 1
      BY <1>1, <1>6, <2>1
    <2> QED
      BY <1>5, <1>6, <2>2
  <1> QED
    BY <1>6, <1>7, <1>8, <1>9 DEF r

\* What a broker answers to CONNECT.
LEMMA Connects ==
  ASSUME BrokerTypes, StreamTypes, BrokerConnects
  PROVE  \E a \in DownPacket, r \in Seq(Unit) :
           /\ down' = down \o Units(a) \o r
           /\ a.type = "CONNACK" /\ a.id \in {0, 1} /\ a.value \in {0, 5}
           /\ WellFramed(r) /\ Repeats(r)
           /\ r # <<>> => r[1].part = "header"
           /\ a.id = 0 => r = <<>> /\ session' = {}
  <1>1. PICK present \in {0, 1}, result \in {0, 5} :
          /\ present = 1 => ~cleanSession /\ connects > 1 /\ result = 0
          /\ IF present = 1
             THEN /\ \E order \in Orders :
                       down' = down \o Units(Packet("CONNACK", 1, 0)) \o RepeatedAll(order)
                  /\ UNCHANGED <<session, inflight>>
             ELSE /\ down' = down \o Units(Packet("CONNACK", 0, result))
                  /\ session' = {}
                  /\ inflight' = [n \in Incoming |->
                       IF inflight[n].status = "unsent" THEN inflight[n]
                       ELSE [inflight[n] EXCEPT !.status = "done"]]
    BY DEF BrokerConnects
  <1> DEFINE a == Packet("CONNACK", present, result)
  <1>2. a \in DownPacket /\ a.type = "CONNACK" /\ a.id = present /\ a.value = result
    BY DownPackets, PacketParts
  <1>3. CASE present = 1
    <2>1. PICK order \in Orders :
            down' = down \o Units(Packet("CONNACK", 1, 0)) \o RepeatedAll(order)
      BY <1>1, <1>3
    <2>2. a = Packet("CONNACK", 1, 0)
      BY <1>1, <1>3
    <2> HIDE DEF a
    <2>3. down' = down \o Units(a) \o RepeatedAll(order)
      BY <2>1, <2>2
    <2> QED
      BY <1>2, <1>3, <2>3, RepeatedIs
  <1>4. CASE present = 0
    <2> DEFINE d == down \o Units(a)
    <2>1. down' = d /\ session' = {}
      BY <1>1, <1>4
    <2>2. <<>> \in Seq(Unit) /\ WellFramed(<<>>) /\ Repeats(<<>>)
      BY DEF WellFramed, Repeats
    <2>3. d \in Seq(Unit)
      BY <1>2, UnitsAre, ConcatProperties DEF StreamTypes
    <2>4. d \o <<>> = d
      BY <2>3, ConcatEmptySeq
    <2> HIDE DEF a
    <2> QED
      BY <1>2, <1>4, <2>1, <2>2, <2>4
  <1> QED
    BY <1>3, <1>4

\* The streams carry what they should after every step.
LEMMA StreamTypesStep == Types /\ [Next]_vars => StreamTypes'
  <1> SUFFICES ASSUME Types, [Next]_vars PROVE StreamTypes'
    OBVIOUS
  <1>t. StreamTypes /\ BrokerTypes /\ TableTypes /\ ClientTypes
    BY DEF Types
  <1>e. <<>> \in Seq(UpPacket) /\ <<>> \in Seq(Unit)
    OBVIOUS
  <1>u. UNCHANGED <<up, down>> => StreamTypes'
    BY <1>t DEF StreamTypes
  <1>w. \A p \in UpPacket : Write(<<p>>) => up' \in Seq(UpPacket)
    BY <1>t, Written
  <1>r. down # <<>> => Arriving \in DownPacket /\ Tail(down) \in Seq(Unit)
    BY <1>t, Reading
  <1>d. DropTransport => StreamTypes'
    BY <1>e DEF DropTransport, StreamTypes
  <1>1. CASE connectToHost
    BY <1>1, <1>u DEF connectToHost
  <1>2. CASE disconnectConnected
    <2>1. Packet("DISCONNECT", None, None) \in UpPacket
      BY UpPackets
    <2> QED
      BY <1>2, <1>t, <1>d, <1>w, <2>1 DEF disconnectConnected, StreamTypes
  <1>3. CASE disconnectConnecting
    BY <1>3, <1>d DEF disconnectConnecting
  <1>4. CASE \E q \in QoS : publish(q)
    <2> PICK q \in QoS : publish(q)
      BY <1>4
    <2>1. published' \in Messages
      BY <1>t, MqttAssumption DEF publish, ExchangesLeft, BrokerTypes, Messages, TableTypes
    <2>2. CASE q = 0
      <3>1. Packet("PUBLISH0", None, published') \in UpPacket
        BY <2>1, UpPackets
      <3> QED
        BY <1>t, <1>w, <2>2, <3>1 DEF publish, StreamTypes
    <2>3. CASE q # 0
      <3>1. counter' \in Ids
        BY <1>t, <2>3, IdentifierGiven DEF publish, TableTypes
      <3>2. Packet(IF q = 1 THEN "PUBLISH1" ELSE "PUBLISH2", counter', published') \in UpPacket
        BY <2>1, <3>1, UpPackets
      <3> QED
        BY <1>t, <1>w, <2>3, <3>2 DEF publish, StreamTypes
    <2> QED
      BY <2>2, <2>3
  <1>5. CASE \E topic \in Topics : subscribe(topic)
    <2> PICK topic \in Topics : subscribe(topic)
      BY <1>5
    <2>1. counter' \in Ids
      BY <1>t, IdentifierGiven DEF subscribe, TableTypes
    <2>2. Packet("SUBSCRIBE", counter', topic) \in UpPacket
      BY <2>1, UpPackets
    <2> QED
      BY <1>t, <1>w, <2>2 DEF subscribe, StreamTypes
  <1>6. CASE \E s \in active : unsubscribe(s)
    <2> PICK s \in active : unsubscribe(s)
      BY <1>6
    <2>1. CASE internal # "BrokerConnected"
      BY <1>u, <2>1 DEF unsubscribe
    <2>2. CASE internal = "BrokerConnected"
      <3>1. counter' \in Ids
        BY <1>t, <2>2, IdentifierGiven DEF unsubscribe, TableTypes
      <3>2. subscriptions[s].topic \in Topics
        BY <1>t, Objects
      <3>3. Packet("UNSUBSCRIBE", counter', subscriptions[s].topic) \in UpPacket
        BY <3>1, <3>2, UpPackets
      <3> QED
        BY <1>t, <1>w, <2>2, <3>3 DEF unsubscribe, StreamTypes
    <2> QED
      BY <2>1, <2>2
  <1>7. CASE PingTimer
    <2>1. Packet("PINGREQ", None, None) \in UpPacket
      BY UpPackets
    <2> QED
      BY <1>7, <1>t, <1>d, <1>w, <2>1 DEF PingTimer, closeConnection, StreamTypes
  <1>8. CASE transportConnectionEstablished
    <2>1. Packet("CONNECT", None, None) \in UpPacket
      BY UpPackets
    <2> QED
      BY <1>8, <1>t, <1>w, <2>1 DEF transportConnectionEstablished, StreamTypes
  <1>9. CASE transportError
    BY <1>9, <1>d DEF transportError, closeConnection
  <1>10. CASE ReadHeader \/ Misread
    BY <1>10, <1>d, <1>r, <1>t DEF ReadHeader, Misread, ProtocolViolation, closeConnection, StreamTypes
  <1>11. CASE finalize_connack
    BY <1>11, <1>d, <1>r, <1>t DEF finalize_connack, Body, Consume, closeConnection, StreamTypes
  <1>12. CASE finalize_suback \/ finalize_unsuback \/ finalize_puback \/ finalize_pubcomp \/ finalize_pingresp
    BY <1>12, <1>r, <1>t DEF finalize_suback, finalize_unsuback, finalize_puback, finalize_pubcomp,
       finalize_pingresp, Body, Consume, StreamTypes
  <1>13. CASE finalize_publish
    <2>1. Arriving.id \in Incoming
      BY <1>13, <1>r, DownFields DEF finalize_publish, Body
    <2>2. Packet(IF Arriving.type = "PUBLISH1" THEN "PUBACK" ELSE "PUBREC", Arriving.id, None) \in UpPacket
      BY <2>1, UpPackets
    <2> QED
      BY <1>13, <1>r, <1>w, <2>2 DEF finalize_publish, Body, Consume, StreamTypes
  <1>14. CASE finalize_pubrel
    <2>1. Arriving.id \in Incoming
      BY <1>14, <1>r, DownFields DEF finalize_pubrel, Body
    <2>2. Packet("PUBCOMP", Arriving.id, None) \in UpPacket
      BY <2>1, UpPackets
    <2> QED
      BY <1>14, <1>r, <1>w, <2>2 DEF finalize_pubrel, Body, Consume, StreamTypes
  <1>15. CASE finalize_pubrec
    <2>1. Arriving.id \in Ids
      BY <1>15, <1>r, DownFields DEF finalize_pubrec, Body
    <2>2. Packet("PUBREL", Arriving.id, None) \in UpPacket
      BY <2>1, UpPackets
    <2> QED
      BY <1>15, <1>r, <1>t, <1>w, <2>2 DEF finalize_pubrec, Body, Consume, StreamTypes
  <1>16. CASE BrokerTakes
    <2>1. up' \in Seq(UpPacket)
      BY <1>16, <1>t, Taking DEF BrokerTakes
    <2>2. CASE BrokerConnects
      <3>1. PICK a \in DownPacket, r \in Seq(Unit) : down' = down \o Units(a) \o r
        BY <1>t, <2>2, Connects
      <3>2. down \o Units(a) \in Seq(Unit)
        BY <1>t, UnitsAre, ConcatProperties DEF StreamTypes
      <3>3. down \o Units(a) \o r \in Seq(Unit)
        BY <3>2, ConcatProperties
      <3> QED
        BY <2>1, <3>1, <3>3 DEF StreamTypes
    <2>3. CASE down' = down
      BY <1>t, <2>1, <2>3 DEF StreamTypes
    <2>4. CASE \E a \in DownPacket : Matches(Head(up), a) /\ Answer(Units(a))
      BY <1>t, <2>1, <2>4, Answered DEF StreamTypes
    <2> QED
      BY <1>16, <1>t, <2>2, <2>3, <2>4, TakesOne
  <1>17. CASE FallSilent
    BY <1>17, <1>e DEF FallSilent, StreamTypes
  <1>18. CASE \E n \in Incoming, topic \in Topics, type \in {"PUBLISH1", "PUBLISH2"} :
                BrokerPublishes(n, topic, type)
    <2> PICK n \in Incoming, topic \in Topics, type \in {"PUBLISH1", "PUBLISH2"} :
               BrokerPublishes(n, topic, type)
      BY <1>18
    <2>1. Packet(type, n, topic) \in DownPacket
      BY DownPackets
    <2> QED
      BY <1>t, <2>1, Answered DEF BrokerPublishes, StreamTypes
  <1>19. CASE UNCHANGED vars
    BY <1>19, <1>u DEF vars, stream
  <1> QED
    BY <1>1, <1>2, <1>3, <1>4, <1>5, <1>6, <1>7, <1>8, <1>9, <1>10, <1>11, <1>12, <1>13, <1>14,
       <1>15, <1>16, <1>17, <1>18, <1>19, Actions

\* The tables and subscriptions after a change of state of some.
LEMMA StateChanged ==
  ASSUME TableTypes, NEW subs, NEW value \in SubscriptionStates, subscriptions' = InState(subs, value)
  PROVE  /\ subscriptions' \in Seq(Subscription) /\ DOMAIN subscriptions' = DOMAIN subscriptions
         /\ Len(subscriptions') = Len(subscriptions)
         /\ \A s \in DOMAIN subscriptions : 
              /\ subscriptions'[s].topic = subscriptions[s].topic
              /\ subscriptions'[s].state = IF s \in subs THEN value ELSE subscriptions[s].state
  BY InStateIs DEF TableTypes

\* cleanSubscriptions leaves objects that no table and no set holds.
LEMMA Cleaned ==
  ASSUME TableTypes, cleanSubscriptions
  PROVE  /\ subscriptions' \in Seq(Subscription) /\ DOMAIN subscriptions' = DOMAIN subscriptions
         /\ Len(subscriptions') = Len(subscriptions)
         /\ pendingSubscriptionAck' = [i \in Ids |-> None]
         /\ pendingUnsubscriptions' = [i \in Ids |-> None] /\ active' = {}
  <1>1. "Unsubscribed" \in SubscriptionStates
    BY DEF SubscriptionStates
  <1> QED
    BY <1>1, StateChanged DEF cleanSubscriptions

\* A new subscription is the last.
LEMMA Subscribed ==
  ASSUME TableTypes, NEW topic \in Topics,
         subscriptions' = Append(subscriptions, [topic |-> topic, state |-> "SubscriptionPending"])
  PROVE  /\ subscriptions' \in Seq(Subscription)
         /\ Len(subscriptions') = Len(subscriptions) + 1 /\ Len(subscriptions') \in DOMAIN subscriptions'
         /\ Len(subscriptions') \notin DOMAIN subscriptions /\ Len(subscriptions') # None
         /\ DOMAIN subscriptions' = DOMAIN subscriptions \union {Len(subscriptions')}
         /\ subscriptions'[Len(subscriptions')] = [topic |-> topic, state |-> "SubscriptionPending"]
         /\ \A s \in DOMAIN subscriptions : subscriptions'[s] = subscriptions[s]
  <1> DEFINE new == [topic |-> topic, state |-> "SubscriptionPending"]
  <1>1. new \in Subscription
    BY DEF Subscription, SubscriptionStates
  <1> HIDE DEF new
  <1>2. subscriptions \in Seq(Subscription) /\ subscriptions' = Append(subscriptions, new)
    BY DEF TableTypes, new
  <1>3. Len(subscriptions) \in Nat /\ DOMAIN subscriptions = 1 .. Len(subscriptions)
    BY <1>2
  <1>4. subscriptions' \in Seq(Subscription) /\ Len(subscriptions') = Len(subscriptions) + 1
    BY <1>1, <1>2
  <1>5. DOMAIN subscriptions' = 1 .. Len(subscriptions) + 1
    BY <1>4, LenProperties
  <1>6. /\ subscriptions'[Len(subscriptions) + 1] = new
        /\ \A s \in 1 .. Len(subscriptions) : subscriptions'[s] = subscriptions[s]
    BY <1>1, <1>2
  <1> QED
    BY <1>3, <1>4, <1>5, <1>6 DEF new, None

\* The tables after every step.
LEMMA TableTypesStep == Types /\ [Next]_vars => TableTypes'
  <1> SUFFICES ASSUME Types, [Next]_vars PROVE TableTypes'
    OBVIOUS
  <1>t. StreamTypes /\ BrokerTypes /\ TableTypes /\ ClientTypes
    BY DEF Types
  <1>u. UNCHANGED <<counter, tables>> /\ UNCHANGED <<pendingSubscriptionAck, pendingUnsubscriptions, subscriptions>>
          /\ active' \in {{}, active} => TableTypes'
    BY <1>t DEF TableTypes, tables
  <1>c. UNCHANGED <<counter, tables>> /\ cleanSubscriptions => TableTypes'
    BY <1>t, Cleaned DEF TableTypes, tables
  <1>1. CASE connectToHost
    BY <1>1, <1>u, <1>c DEF connectToHost, ids, LeaveSubscriptions, subVars
  <1>2. CASE disconnectConnected
    BY <1>2, <1>u DEF disconnectConnected, ids
  <1>3. CASE disconnectConnecting
    BY <1>3, <1>u DEF disconnectConnecting, ids, subVars
  <1>4. CASE \E q \in QoS : publish(q)
    <2> PICK q \in QoS : publish(q)
      BY <1>4
    <2>1. published' \in Messages
      BY <1>t, MqttAssumption DEF publish, ExchangesLeft, BrokerTypes, Messages, TableTypes
    <2>2. CASE q = 0
      BY <1>u, <2>2 DEF publish, ids, tables, subVars
    <2>3. CASE q # 0
      <3>1. counter' \in Ids
        BY <1>t, <2>3, IdentifierGiven DEF publish, TableTypes
      <3>2. pendingMessages' \in [Ids -> Messages \union {None}]
        BY <1>t, <2>1, <2>3 DEF publish, TableTypes
      <3> QED
        BY <1>t, <3>1, <3>2 DEF publish, TableTypes, subVars
    <2> QED
      BY <2>2, <2>3
  <1>5. CASE \E topic \in Topics : subscribe(topic)
    <2> PICK topic \in Topics : subscribe(topic)
      BY <1>5
    <2>1. counter' \in Ids
      BY <1>t, IdentifierGiven DEF subscribe, TableTypes
    <2> DEFINE new == Len(subscriptions')
    <2>2. /\ subscriptions' \in Seq(Subscription) /\ new \in DOMAIN subscriptions'
          /\ DOMAIN subscriptions' = DOMAIN subscriptions \union {new}
      BY <1>t, Subscribed DEF subscribe
    <2> HIDE DEF new
    <2>3. /\ pendingSubscriptionAck' = [pendingSubscriptionAck EXCEPT ![counter'] = new]
          /\ active' = active \union {new}
          /\ UNCHANGED <<pendingUnsubscriptions, pendingMessages, pendingReleaseMessages>>
      BY DEF subscribe, tables, new
    <2>4. /\ pendingSubscriptionAck' \in [Ids -> DOMAIN subscriptions' \union {None}]
          /\ pendingUnsubscriptions' \in [Ids -> DOMAIN subscriptions' \union {None}]
          /\ active' \subseteq DOMAIN subscriptions'
      BY <1>t, <2>2, <2>3 DEF TableTypes
    <2> QED
      BY <1>t, <2>1, <2>2, <2>3, <2>4 DEF TableTypes
  <1>6. CASE \E s \in active : unsubscribe(s)
    <2> PICK s \in active : unsubscribe(s)
      BY <1>6
    <2>1. CASE internal # "BrokerConnected"
      BY <1>t, <2>1 DEF unsubscribe, ids, TableTypes, tables
    <2>2. CASE internal = "BrokerConnected"
      <3>1. counter' \in Ids
        BY <1>t, <2>2, IdentifierGiven DEF unsubscribe, TableTypes
      <3>2. "UnsubscriptionPending" \in SubscriptionStates
        BY DEF SubscriptionStates
      <3>3. subscriptions' \in Seq(Subscription) /\ DOMAIN subscriptions' = DOMAIN subscriptions
        BY <1>t, <2>2, <3>2, StateChanged DEF unsubscribe
      <3>4. s \in DOMAIN subscriptions
        BY <1>t, Objects
      <3>5. pendingUnsubscriptions' \in [Ids -> DOMAIN subscriptions \union {None}]
        BY <1>t, <2>2, <3>4 DEF unsubscribe, TableTypes
      <3> QED
        BY <1>t, <2>2, <3>1, <3>3, <3>5 DEF unsubscribe, TableTypes, tables, KeptUntilAcknowledged
    <2> QED
      BY <2>1, <2>2
  <1>7. CASE PingTimer
    BY <1>7, <1>u DEF PingTimer, closeConnection, ids, subVars
  <1>8. CASE transportConnectionEstablished
    BY <1>8, <1>u DEF transportConnectionEstablished, ids, subVars
  <1>9. CASE transportError
    BY <1>9, <1>u DEF transportError, closeConnection, ids
  <1>10. CASE ReadHeader \/ Misread
    BY <1>10, <1>u DEF ReadHeader, Misread, ProtocolViolation, closeConnection, ids, subVars
  <1>11. CASE finalize_connack
    <2>1. CASE cleanSubscriptions
      BY <1>11, <1>c, <2>1 DEF finalize_connack, ids
    <2>2. CASE ~cleanSubscriptions
      BY <1>11, <1>u, <2>2 DEF finalize_connack, ids, closeConnection, LeaveSubscriptions, subVars
    <2> QED
      BY <2>1, <2>2
  <1>12. CASE finalize_suback
    <2> DEFINE s == pendingSubscriptionAck[Arriving.id]
    <2>1. AckedState(Arriving.value) \in SubscriptionStates
      BY DEF AckedState, SubscriptionStates
    <2>2. subscriptions' \in Seq(Subscription) /\ DOMAIN subscriptions' = DOMAIN subscriptions
      BY <1>12, <1>t, <2>1, StateChanged DEF finalize_suback
    <2>3. pendingSubscriptionAck' \in [Ids -> DOMAIN subscriptions \union {None}]
      BY <1>12, <1>t DEF finalize_suback, TableTypes
    <2> QED
      BY <1>12, <1>t, <2>2, <2>3 DEF finalize_suback, TableTypes, ids, tables
  <1>13. CASE finalize_unsuback
    <2>1. "Unsubscribed" \in SubscriptionStates
      BY DEF SubscriptionStates
    <2>2. subscriptions' \in Seq(Subscription) /\ DOMAIN subscriptions' = DOMAIN subscriptions
      BY <1>13, <1>t, <2>1, StateChanged DEF finalize_unsuback
    <2>3. pendingUnsubscriptions' \in [Ids -> DOMAIN subscriptions \union {None}]
      BY <1>13, <1>t DEF finalize_unsuback, TableTypes
    <2>4. active' \subseteq active
      BY <1>13 DEF finalize_unsuback
    <2> QED
      BY <1>13, <1>t, <2>2, <2>3, <2>4 DEF finalize_unsuback, TableTypes, ids, tables
  <1>14. CASE finalize_publish \/ finalize_pubrel \/ finalize_pingresp
    BY <1>14, <1>u DEF finalize_publish, finalize_pubrel, finalize_pingresp, ids, subVars
  <1>15. CASE finalize_puback \/ finalize_pubcomp
    <2>1. /\ pendingMessages' \in [Ids -> Messages \union {None}]
          /\ pendingReleaseMessages' \in [Ids -> Messages \union {None}]
      BY <1>15, <1>t DEF finalize_puback, finalize_pubcomp, Taken, TableTypes
    <2> QED
      BY <1>15, <1>t, <2>1 DEF finalize_puback, finalize_pubcomp, TableTypes, ids, subVars
  <1>16. CASE finalize_pubrec
    <2>1. Arriving.id \in Ids
      BY <1>16, <1>t, Reading, DownFields DEF finalize_pubrec, Body
    <2>2. pendingMessages[Arriving.id] \in Messages \union {None}
      BY <1>t, <2>1 DEF TableTypes
    <2>3. /\ pendingMessages' \in [Ids -> Messages \union {None}]
          /\ pendingReleaseMessages' \in [Ids -> Messages \union {None}]
      BY <1>16, <1>t, <2>2 DEF finalize_pubrec, Taken, TableTypes, tables
    <2> QED
      BY <1>16, <1>t, <2>3 DEF finalize_pubrec, TableTypes, ids, subVars
  <1>17. CASE BrokerTakes
    BY <1>17, <1>u DEF BrokerTakes, ids, subVars
  <1>18. CASE FallSilent
    BY <1>18, <1>u DEF FallSilent, ids, subVars
  <1>19. CASE \E n \in Incoming, topic \in Topics, type \in {"PUBLISH1", "PUBLISH2"} :
                BrokerPublishes(n, topic, type)
    BY <1>19, <1>u DEF BrokerPublishes, ids, subVars
  <1>20. CASE UNCHANGED vars
    BY <1>20, <1>u DEF vars, ids, subVars
  <1> QED
    BY <1>1, <1>2, <1>3, <1>4, <1>5, <1>6, <1>7, <1>8, <1>9, <1>10, <1>11, <1>12, <1>13, <1>14,
       <1>15, <1>16, <1>17, <1>18, <1>19, <1>20, Actions

\* What the broker keeps after every step.
LEMMA BrokerTypesStep == Types /\ [Next]_vars => BrokerTypes'
  <1> SUFFICES ASSUME Types, [Next]_vars PROVE BrokerTypes'
    OBVIOUS
  <1>t. StreamTypes /\ BrokerTypes /\ TableTypes /\ ClientTypes
    BY DEF Types
  <1>u. UNCHANGED <<session, inflight, received, published>> => BrokerTypes'
    BY <1>t DEF BrokerTypes
  <1> USE DEF broker, history
  <1>1. CASE connectToHost
    BY <1>1, <1>u DEF connectToHost
  <1>2. CASE disconnectConnected
    BY <1>2, <1>u DEF disconnectConnected
  <1>3. CASE disconnectConnecting
    BY <1>3, <1>u DEF disconnectConnecting
  <1>4. CASE \E q \in QoS : publish(q)
    <2> PICK q \in QoS : publish(q)
      BY <1>4
    <2>1. published' \in 0 .. MaxExchanges
      BY <1>t, MqttAssumption DEF publish, ExchangesLeft, BrokerTypes, TableTypes
    <2> QED
      BY <1>t, <2>1 DEF publish, BrokerTypes
  <1>5. CASE \E topic \in Topics : subscribe(topic)
    BY <1>5, <1>u DEF subscribe
  <1>6. CASE \E s \in active : unsubscribe(s)
    BY <1>6, <1>u DEF unsubscribe
  <1>7. CASE PingTimer
    BY <1>7, <1>u DEF PingTimer
  <1>8. CASE transportConnectionEstablished
    BY <1>8, <1>u DEF transportConnectionEstablished
  <1>9. CASE transportError
    BY <1>9, <1>u DEF transportError
  <1>10. CASE ReadHeader \/ Misread
    BY <1>10, <1>u DEF ReadHeader, Misread, ProtocolViolation
  <1>11. CASE finalize_connack \/ finalize_suback \/ finalize_unsuback \/ finalize_publish \/ finalize_pubrel
    BY <1>11, <1>u DEF finalize_connack, finalize_suback, finalize_unsuback, finalize_publish, finalize_pubrel
  <1>12. CASE finalize_puback \/ finalize_pubrec \/ finalize_pubcomp \/ finalize_pingresp
    BY <1>12, <1>u DEF finalize_puback, finalize_pubrec, finalize_pubcomp, finalize_pingresp
  <1>13. CASE BrokerTakes
    <2> DEFINE p == Head(up)
    <2>1. p \in UpPacket /\ published' = published
      BY <1>13, <1>t, Taking DEF BrokerTakes
    <2> HIDE DEF p
    <2>2. CASE p.type = "CONNECT"
      <3>1. BrokerConnects
        BY <1>13, <2>2 DEF BrokerTakes, p
      <3>2. PICK present \in {0, 1} : 
              /\ UNCHANGED received
              /\ IF present = 1 THEN UNCHANGED <<session, inflight>>
                 ELSE /\ session' = {}
                      /\ inflight' = [n \in Incoming |->
                           IF inflight[n].status = "unsent" THEN inflight[n]
                           ELSE [inflight[n] EXCEPT !.status = "done"]]
        BY <3>1 DEF BrokerConnects
      <3>3. CASE present = 1
        BY <1>u, <2>1, <3>2, <3>3
      <3>4. CASE present # 1
        <4>1. \A n \in Incoming :
                /\ inflight'[n] \in Flight
                /\ inflight'[n].status \in {"unsent", "done"}
          BY <1>t, <3>2, <3>4 DEF BrokerTypes, Flight
        <4> QED
          BY <1>t, <2>1, <3>2, <3>4, <4>1 DEF BrokerTypes
      <3> QED
        BY <3>3, <3>4
    <2>3. CASE p.type = "SUBSCRIBE"
      <3>1. p.value \in Topics
        BY <2>1, <2>3, UpFields
      <3>2. BrokerSubscribes(p)
        BY <1>13, <2>3 DEF BrokerTakes, p
      <3> QED
        BY <1>t, <2>1, <3>1, <3>2 DEF BrokerSubscribes, BrokerTypes
    <2>4. CASE p.type = "UNSUBSCRIBE"
      <3>1. session' \subseteq session /\ UNCHANGED <<inflight, received>>
        BY <1>13, <2>4 DEF BrokerTakes, p
      <3> QED
        BY <1>t, <2>1, <3>1 DEF BrokerTypes
    <2>5. CASE p.type \in {"PUBLISH0", "PUBLISH1", "PUBLISH2"}
      <3>1. p.value \in Messages
        BY <2>1, <2>5, UpFields
      <3>2. BrokerReceives(p)
        BY <1>13, <2>5 DEF BrokerTakes, p
      <3>3. received' \in [Messages -> Nat]
        BY <1>t, <3>1, <3>2 DEF BrokerReceives, BrokerTypes
      <3> QED
        BY <1>t, <2>1, <3>2, <3>3 DEF BrokerReceives, BrokerTypes
    <2>6. CASE p.type \in {"PUBACK", "PUBREC", "PUBCOMP"}
      <3>1. p.id \in Incoming
        BY <2>1, <2>6, UpFields
      <3>2. BrokerAdvances(p)
        BY <1>13, <2>6 DEF BrokerTakes, p
      <3>3. PICK v \in {"PUBREL", "done"} : inflight' = [inflight EXCEPT ![p.id].status = v]
        BY <3>2 DEF BrokerAdvances
      <3>4. inflight' \in [Incoming -> Flight] /\ inflight'[p.id].status = v
        BY <1>t, <3>1, <3>3 DEF BrokerTypes, Flight
      <3>5. \A n \in Incoming : n # p.id => inflight'[n] = inflight[n]
        BY <1>t, <3>1, <3>3 DEF BrokerTypes
      <3> QED
        BY <1>t, <2>1, <3>2, <3>4, <3>5 DEF BrokerAdvances, BrokerTypes
    <2>7. CASE p.type = "PUBREL"
      BY <1>13, <1>u, <2>1, <2>7 DEF BrokerTakes, p
    <2>8. CASE p.type = "PINGREQ"
      BY <1>13, <1>u, <2>1, <2>8 DEF BrokerTakes, p
    <2>9. CASE p.type = "DISCONNECT"
      BY <1>13, <1>u, <2>1, <2>9 DEF BrokerTakes, p
    <2> QED
      BY <2>1, <2>2, <2>3, <2>4, <2>5, <2>6, <2>7, <2>8, <2>9, UpFields
  <1>14. CASE FallSilent
    BY <1>14, <1>u DEF FallSilent
  <1>15. CASE \E n \in Incoming, topic \in Topics, type \in {"PUBLISH1", "PUBLISH2"} :
                BrokerPublishes(n, topic, type)
    <2> PICK n \in Incoming, topic \in Topics, type \in {"PUBLISH1", "PUBLISH2"} :
               BrokerPublishes(n, topic, type)
      BY <1>15
    <2>1. [status |-> type, topic |-> topic] \in Flight
      BY DEF Flight
    <2>2. inflight' = [inflight EXCEPT ![n] = [status |-> type, topic |-> topic]]
      BY DEF BrokerPublishes
    <2> QED
      BY <1>t, <2>1, <2>2 DEF BrokerPublishes, BrokerTypes
  <1>16. CASE UNCHANGED vars
    BY <1>16, <1>u DEF vars
  <1> QED
    BY <1>1, <1>2, <1>3, <1>4, <1>5, <1>6, <1>7, <1>8, <1>9, <1>10, <1>11, <1>12, <1>13, <1>14,
       <1>15, <1>16, Actions

\* What has been told after every step.
LEMMA HistoryTypesStep == Types /\ [Next]_vars => HistoryTypes'
  <1> SUFFICES ASSUME Types, [Next]_vars PROVE HistoryTypes'
    OBVIOUS
  <1>t. StreamTypes /\ HistoryTypes /\ TableTypes
    BY DEF Types
  <1>r. down # <<>> => Arriving \in DownPacket
    BY <1>t, Reading
  <1>u. UNCHANGED <<sent, unheard>> => HistoryTypes'
    BY <1>t DEF HistoryTypes
  <1> USE DEF history
  <1>1. CASE connectToHost
    BY <1>1, <1>u DEF connectToHost
  <1>2. CASE disconnectConnected
    BY <1>2, <1>u DEF disconnectConnected
  <1>3. CASE disconnectConnecting
    BY <1>3, <1>u DEF disconnectConnecting
  <1>4. CASE \E q \in QoS : publish(q)
    BY <1>4, <1>u DEF publish, AwaitAnswer
  <1>5. CASE \E topic \in Topics : subscribe(topic)
    BY <1>5, <1>u DEF subscribe
  <1>6. CASE \E s \in active : unsubscribe(s)
    BY <1>6, <1>u DEF unsubscribe
  <1>7. CASE PingTimer
    BY <1>7, <1>u DEF PingTimer
  <1>8. CASE transportConnectionEstablished
    BY <1>8, <1>u DEF transportConnectionEstablished
  <1>9. CASE transportError
    BY <1>9, <1>u DEF transportError
  <1>10. CASE ReadHeader \/ Misread
    BY <1>10, <1>u DEF ReadHeader, Misread, ProtocolViolation
  <1>11. CASE finalize_connack \/ finalize_suback \/ finalize_unsuback \/ finalize_pubrel
    BY <1>11, <1>u DEF finalize_connack, finalize_suback, finalize_unsuback, finalize_pubrel
  <1>12. CASE finalize_publish
    <2>1. Arriving.id \in Incoming
      BY <1>12, <1>r, DownFields DEF finalize_publish, Body
    <2> QED
      BY <1>12, <1>t, <2>1 DEF finalize_publish, HistoryTypes
  <1>13. CASE finalize_puback
    <2>1. Arriving.id \in Ids
      BY <1>13, <1>r, DownFields DEF finalize_puback, Body
    <2>2. pendingMessages[Arriving.id] \in Messages \union {None}
      BY <1>t, <2>1 DEF TableTypes
    <2> QED
      BY <1>13, <1>t, <2>2 DEF finalize_puback, HistoryTypes
  <1>14. CASE finalize_pubcomp
    <2>1. Arriving.id \in Ids
      BY <1>14, <1>r, DownFields DEF finalize_pubcomp, Body
    <2>2. pendingReleaseMessages[Arriving.id] \in Messages \union {None}
      BY <1>t, <2>1 DEF TableTypes
    <2> QED
      BY <1>14, <1>t, <2>2 DEF finalize_pubcomp, HistoryTypes
  <1>15. CASE finalize_pubrec \/ finalize_pingresp
    BY <1>15, <1>u DEF finalize_pubrec, finalize_pingresp
  <1>16. CASE BrokerTakes
    BY <1>16, <1>u DEF BrokerTakes
  <1>17. CASE FallSilent
    BY <1>17, <1>u DEF FallSilent
  <1>18. CASE \E n \in Incoming, topic \in Topics, type \in {"PUBLISH1", "PUBLISH2"} :
                BrokerPublishes(n, topic, type)
    BY <1>18, <1>u DEF BrokerPublishes
  <1>19. CASE UNCHANGED vars
    BY <1>19, <1>u DEF vars
  <1> QED
    BY <1>1, <1>2, <1>3, <1>4, <1>5, <1>6, <1>7, <1>8, <1>9, <1>10, <1>11, <1>12, <1>13, <1>14,
       <1>15, <1>16, <1>17, <1>18, <1>19, Actions

\* Every step keeps the types.
LEMMA TypesStep == Types /\ [Next]_vars => Types'
  BY FlagsStep, ClientTypesStep, TableTypesStep, BrokerTypesStep, StreamTypesStep, HistoryTypesStep DEF Types

-----------------------------------------------------------------------------
(* An identifier has one use. *)

\* What one table holds the others do not.
Apart ==
  ~exhausted => \A i \in Ids :
    /\ pendingMessages[i] # None =>
         /\ pendingReleaseMessages[i] = None /\ pendingSubscriptionAck[i] = None
         /\ pendingUnsubscriptions[i] = None
    /\ pendingReleaseMessages[i] # None =>
         pendingSubscriptionAck[i] = None /\ pendingUnsubscriptions[i] = None
    /\ pendingSubscriptionAck[i] # None => pendingUnsubscriptions[i] = None

\* That is the property, table by table.
LEMMA ApartIsOneUse == Apart => OneUsePerIdentifier
  <1>1. DOMAIN Tables = {1, 2, 3, 4}
    BY DEF Tables
  <1>2. /\ Tables[1] = pendingMessages /\ Tables[2] = pendingReleaseMessages
        /\ Tables[3] = pendingSubscriptionAck /\ Tables[4] = pendingUnsubscriptions
    BY DEF Tables
  <1> QED
    BY <1>1, <1>2 DEF Apart, OneUsePerIdentifier

\* At the start nothing is held.
LEMMA InitApart == Init => Apart
  BY DEF Init, Apart

\* A table whose entries only go.
Shrinks(new, old) == \A i \in Ids : new[i] # None => old[i] # None

\* An identifier enters a table when no table holds it, or moves from one to the next.
LEMMA ApartStep == Types /\ Apart /\ [Next]_vars => Apart'
  <1> SUFFICES ASSUME Types, Apart, [Next]_vars PROVE Apart'
    OBVIOUS
  <1>t. StreamTypes /\ TableTypes
    BY DEF Types
  <1>s. /\ exhausted' = exhausted
        /\ Shrinks(pendingMessages', pendingMessages)
        /\ Shrinks(pendingReleaseMessages', pendingReleaseMessages)
        /\ Shrinks(pendingSubscriptionAck', pendingSubscriptionAck)
        /\ Shrinks(pendingUnsubscriptions', pendingUnsubscriptions)
        => Apart'
    BY DEF Apart, Shrinks
  <1>u. UNCHANGED <<exhausted, tables, pendingSubscriptionAck, pendingUnsubscriptions>> => Apart'
    BY DEF Apart, tables
  <1>r. \A i \in Ids, table \in {pendingMessages, pendingReleaseMessages, pendingSubscriptionAck,
                                   pendingUnsubscriptions} :
          Shrinks([table EXCEPT ![i] = None], table)
    BY <1>t DEF TableTypes, Shrinks
  <1> USE DEF ids, subVars
  <1>1. CASE connectToHost
    <2>1. CASE cleanSession
      <3>1. /\ pendingSubscriptionAck' = [i \in Ids |-> None]
            /\ pendingUnsubscriptions' = [i \in Ids |-> None] /\ UNCHANGED <<exhausted, tables>>
        BY <1>1, <2>1 DEF connectToHost, cleanSubscriptions
      <3> QED
        BY <1>s, <3>1 DEF Shrinks, tables
    <2>2. CASE ~cleanSession
      BY <1>1, <1>u, <2>2 DEF connectToHost, LeaveSubscriptions
    <2> QED
      BY <2>1, <2>2
  <1>2. CASE disconnectConnected
    BY <1>2, <1>u DEF disconnectConnected
  <1>3. CASE disconnectConnecting
    BY <1>3, <1>u DEF disconnectConnecting
  <1>4. CASE \E q \in QoS : publish(q)
    <2> PICK q \in QoS : publish(q)
      BY <1>4
    <2>1. CASE q = 0
      BY <1>u, <2>1 DEF publish, tables
    <2>2. CASE q # 0
      <3>1. counter' \in Ids /\ (~exhausted' => ~exhausted /\ ~InUse(counter'))
        BY <1>t, <2>2, IdentifierGiven DEF publish, TableTypes
      <3>2. /\ UNCHANGED <<pendingReleaseMessages, pendingSubscriptionAck, pendingUnsubscriptions>>
            /\ \A i \in Ids : i # counter' => pendingMessages'[i] = pendingMessages[i]
        BY <1>t, <2>2 DEF publish, TableTypes
      <3> QED
        BY <3>1, <3>2 DEF Apart, InUse
    <2> QED
      BY <2>1, <2>2
  <1>5. CASE \E topic \in Topics : subscribe(topic)
    <2> PICK topic \in Topics : subscribe(topic)
      BY <1>5
    <2>1. counter' \in Ids /\ (~exhausted' => ~exhausted /\ ~InUse(counter'))
      BY <1>t, IdentifierGiven DEF subscribe, TableTypes
    <2>2. /\ UNCHANGED <<pendingMessages, pendingReleaseMessages, pendingUnsubscriptions>>
          /\ \A i \in Ids : i # counter' => pendingSubscriptionAck'[i] = pendingSubscriptionAck[i]
      BY <1>t DEF subscribe, TableTypes, tables
    <2> QED
      BY <2>1, <2>2 DEF Apart, InUse
  <1>6. CASE \E s \in active : unsubscribe(s)
    <2> PICK s \in active : unsubscribe(s)
      BY <1>6
    <2>1. CASE internal # "BrokerConnected"
      BY <1>u, <2>1 DEF unsubscribe
    <2>2. CASE internal = "BrokerConnected"
      <3>1. counter' \in Ids /\ (~exhausted' => ~exhausted /\ ~InUse(counter'))
        BY <1>t, <2>2, IdentifierGiven DEF unsubscribe, TableTypes
      <3>2. /\ UNCHANGED <<pendingMessages, pendingReleaseMessages, pendingSubscriptionAck>>
            /\ \A i \in Ids : i # counter' => pendingUnsubscriptions'[i] = pendingUnsubscriptions[i]
        BY <1>t, <2>2 DEF unsubscribe, TableTypes, tables
      <3> QED
        BY <3>1, <3>2 DEF Apart, InUse
    <2> QED
      BY <2>1, <2>2
  <1>7. CASE PingTimer
    BY <1>7, <1>u DEF PingTimer
  <1>8. CASE transportConnectionEstablished
    BY <1>8, <1>u DEF transportConnectionEstablished
  <1>9. CASE transportError
    BY <1>9, <1>u DEF transportError
  <1>10. CASE ReadHeader \/ Misread
    BY <1>10, <1>u DEF ReadHeader, Misread, ProtocolViolation
  <1>11. CASE finalize_connack
    <2>1. CASE cleanSubscriptions
      <3>1. /\ pendingSubscriptionAck' = [i \in Ids |-> None]
            /\ pendingUnsubscriptions' = [i \in Ids |-> None] /\ UNCHANGED <<exhausted, tables>>
        BY <1>11, <2>1 DEF finalize_connack, cleanSubscriptions
      <3> QED
        BY <1>s, <3>1 DEF Shrinks, tables
    <2>2. CASE ~cleanSubscriptions
      BY <1>11, <1>u, <2>2 DEF finalize_connack, LeaveSubscriptions
    <2> QED
      BY <2>1, <2>2
  <1>12. CASE finalize_suback \/ finalize_unsuback \/ finalize_puback \/ finalize_pubcomp
    <2>1. Arriving.id \in Ids
      BY <1>12, <1>t, Reading, DownFields
         DEF finalize_suback, finalize_unsuback, finalize_puback, finalize_pubcomp, Body
    <2>2. /\ exhausted' = exhausted
          /\ pendingMessages' \in {pendingMessages, [pendingMessages EXCEPT ![Arriving.id] = None]}
          /\ pendingReleaseMessages' \in
               {pendingReleaseMessages, [pendingReleaseMessages EXCEPT ![Arriving.id] = None]}
          /\ pendingSubscriptionAck' \in
               {pendingSubscriptionAck, [pendingSubscriptionAck EXCEPT ![Arriving.id] = None]}
          /\ pendingUnsubscriptions' \in
               {pendingUnsubscriptions, [pendingUnsubscriptions EXCEPT ![Arriving.id] = None]}
      BY <1>12 DEF finalize_suback, finalize_unsuback, finalize_puback, finalize_pubcomp, tables, Taken
    <2>3. /\ Shrinks(pendingMessages', pendingMessages)
          /\ Shrinks(pendingReleaseMessages', pendingReleaseMessages)
      BY <1>r, <2>1, <2>2 DEF Shrinks
    <2>4. /\ Shrinks(pendingSubscriptionAck', pendingSubscriptionAck)
          /\ Shrinks(pendingUnsubscriptions', pendingUnsubscriptions)
      BY <1>r, <2>1, <2>2 DEF Shrinks
    <2> QED
      BY <1>s, <2>2, <2>3, <2>4
  <1>13. CASE finalize_pubrec
    <2>1. Arriving.id \in Ids
      BY <1>13, <1>t, Reading, DownFields DEF finalize_pubrec, Body
    <2>2. CASE pendingMessages[Arriving.id] = None
      BY <1>13, <1>u, <2>2 DEF finalize_pubrec, tables
    <2>3. CASE pendingMessages[Arriving.id] # None
      <3>1. /\ UNCHANGED <<exhausted, pendingSubscriptionAck, pendingUnsubscriptions>>
            /\ pendingMessages'[Arriving.id] = None
            /\ \A i \in Ids : i # Arriving.id =>
                 /\ pendingMessages'[i] = pendingMessages[i]
                 /\ pendingReleaseMessages'[i] = pendingReleaseMessages[i]
        BY <1>13, <1>t, <2>1, <2>3 DEF finalize_pubrec, Taken, TableTypes
      <3> QED
        BY <2>1, <2>3, <3>1 DEF Apart
    <2> QED
      BY <2>2, <2>3
  <1>14. CASE finalize_publish \/ finalize_pubrel \/ finalize_pingresp
    BY <1>14, <1>u DEF finalize_publish, finalize_pubrel, finalize_pingresp
  <1>15. CASE BrokerTakes
    BY <1>15, <1>u DEF BrokerTakes
  <1>16. CASE FallSilent
    BY <1>16, <1>u DEF FallSilent
  <1>17. CASE \E n \in Incoming, topic \in Topics, type \in {"PUBLISH1", "PUBLISH2"} :
                BrokerPublishes(n, topic, type)
    BY <1>17, <1>u DEF BrokerPublishes
  <1>18. CASE UNCHANGED vars
    BY <1>18, <1>u DEF vars
  <1> QED
    BY <1>1, <1>2, <1>3, <1>4, <1>5, <1>6, <1>7, <1>8, <1>9, <1>10, <1>11, <1>12, <1>13, <1>14,
       <1>15, <1>16, <1>17, <1>18, Actions

\* Whatever is connected, lost and connected again, an identifier has one use at a time
\* until all are taken.
THEOREM OneUse == Spec => []OneUsePerIdentifier
  <1>1. Init => Types /\ Apart
    BY InitTypes, InitApart
  <1>2. Types /\ Apart /\ [Next]_vars => (Types /\ Apart)'
    BY TypesStep, ApartStep
  <1>3. Apart => OneUsePerIdentifier
    BY ApartIsOneUse
  <1> QED
    BY <1>1, <1>2, <1>3, PTL DEF Spec

-----------------------------------------------------------------------------
(* The handshake, the framing of the stream and the pings. *)

Waits == internal = "BrokerWaitForConnectAck"

Phases ==
  /\ state = "Disconnected" <=> socket = "closed"
  /\ socket # "open" \/ silent => up = <<>> /\ down = <<>>
  /\ socket = "opening" => internal = "BrokerConnecting" /\ state = "Connecting"
  /\ socket = "open" => (state = "Connecting" <=> Waits) /\ internal # "BrokerConnecting"
  /\ internal = "BrokerConnected" => state = "Connected"
  /\ state = "Connected" => internal = "BrokerConnected" \/ (internal = "BrokerDisconnected" /\ silent)
  /\ state # "Connected" => active = {}
  /\ pingTimer => internal = "BrokerConnected"

\* The phases of the connection, the socket and the objects agree.
LEMMA PhasesStep == Types /\ Phases /\ [Next]_vars => Phases'
  <1> SUFFICES ASSUME Types, Phases, [Next]_vars PROVE Phases'
    OBVIOUS
  <1>t. ClientTypes /\ StreamTypes
    BY DEF Types
  <1>w. \A p \in UpPacket : silent /\ Write(<<p>>) => up' = up
    BY <1>t, Written
  <1>u. UNCHANGED <<state, internal, socket, silent, up, down, active, pingTimer>> => Phases'
    BY DEF Phases, Waits
  \* a step of an open connection
  <1>o. /\ socket = "open" /\ UNCHANGED <<state, internal, socket, silent, pingTimer>>
        /\ silent => up' = up /\ down' = down
        /\ state # "Connected" => active' \subseteq active
        => Phases'
    BY DEF Phases, Waits
  <1>c. DropTransport /\ active' = {} /\ internal' = "BrokerDisconnected" => Phases'
    BY DEF DropTransport, StopPing, Phases, Waits
  <1>r. down # <<>> => socket = "open" /\ ~silent
    BY <1>t DEF Phases, ClientTypes
  <1> USE DEF client, ping, subVars, broker
  <1>1. CASE connectToHost
    <2>1. active' = {}
      BY <1>1 DEF connectToHost, cleanSubscriptions, LeaveSubscriptions, Phases
    <2> QED
      BY <1>1, <2>1 DEF connectToHost, Phases, Waits
  <1>2. CASE disconnectConnected
    <2>1. CASE DropTransport
      BY <1>2, <1>c, <2>1 DEF disconnectConnected
    <2>2. CASE ~DropTransport
      <3>1. Packet("DISCONNECT", None, None) \in UpPacket
        BY UpPackets
      <3>2. /\ silent /\ up' = up /\ pingTimer' = FALSE /\ active' = {} /\ internal' = "BrokerDisconnected"
            /\ UNCHANGED <<socket, down, state, silent>> /\ internal = "BrokerConnected"
        BY <1>2, <1>w, <2>2, <3>1 DEF disconnectConnected, StopPing
      <3> QED
        BY <3>2 DEF Phases, Waits
    <2> QED
      BY <2>1, <2>2
  <1>3. CASE disconnectConnecting
    BY <1>3, <1>t DEF disconnectConnecting, DropTransport, StopPing, Phases, Waits, ClientTypes
  <1>4. CASE \E q \in QoS : publish(q)
    <2> PICK q \in QoS : publish(q)
      BY <1>4
    <2>1. socket = "open" /\ UNCHANGED <<state, internal, socket, silent, pingTimer, down, active>>
      BY <1>t DEF publish, Online, Phases, ClientTypes
    <2>2. silent => up' = up
      BY DEF publish, Write
    <2> QED
      BY <1>o, <2>1, <2>2
  <1>5. CASE \E topic \in Topics : subscribe(topic)
    <2> PICK topic \in Topics : subscribe(topic)
      BY <1>5
    <2>1. /\ socket = "open" /\ UNCHANGED <<state, internal, socket, silent, pingTimer, down>>
          /\ state = "Connected"
      BY <1>t DEF subscribe, Online, Phases, ClientTypes
    <2>2. silent => up' = up
      BY DEF subscribe, Write
    <2> QED
      BY <1>o, <2>1, <2>2
  <1>6. CASE \E s \in active : unsubscribe(s)
    <2> PICK s \in active : unsubscribe(s)
      BY <1>6
    <2>1. /\ socket = "open" /\ UNCHANGED <<state, internal, socket, silent, pingTimer, down>>
          /\ state = "Connected"
      BY <1>t DEF unsubscribe, Phases, ClientTypes
    <2>2. silent => up' = up
      BY DEF unsubscribe, Write
    <2> QED
      BY <1>o, <2>1, <2>2
  <1>7. CASE PingTimer
    <2>1. CASE PingsUnanswered
      BY <1>7, <1>c, <2>1 DEF PingTimer, closeConnection
    <2>2. CASE ~PingsUnanswered
      <3>1. /\ socket = "open" /\ UNCHANGED <<state, internal, socket, silent, pingTimer, down, active>>
        BY <1>7, <1>t, <2>2 DEF PingTimer, Phases, ClientTypes
      <3>2. silent => up' = up
        BY <1>7, <2>2 DEF PingTimer, Write
      <3> QED
        BY <1>o, <3>1, <3>2
    <2> QED
      BY <2>1, <2>2
  <1>8. CASE transportConnectionEstablished
    BY <1>8 DEF transportConnectionEstablished, Phases, Waits
  <1>9. CASE transportError
    BY <1>9, <1>c DEF transportError, closeConnection
  <1>10. CASE ReadHeader \/ Misread
    <2>1. CASE ProtocolViolation
      BY <1>c, <2>1 DEF ProtocolViolation, closeConnection
    <2>2. CASE ~ProtocolViolation
      BY <1>10, <1>o, <1>r, <2>2 DEF ReadHeader, Misread
    <2> QED
      BY <2>1, <2>2
  <1>11. CASE socket = "open" /\ finalize_connack
    <2>1. CASE closeConnection
      BY <1>c, <2>1 DEF closeConnection
    <2>2. CASE ~closeConnection
      <3>1. /\ socket' = "open" /\ internal' = "BrokerConnected" /\ state' = "Connected"
            /\ silent' = silent /\ ~silent
        BY <1>11, <1>r, <2>2 DEF finalize_connack, Body
      <3> QED
        BY <3>1 DEF Phases, Waits
    <2> QED
      BY <2>1, <2>2
  <1>12. CASE finalize_suback \/ finalize_unsuback
    BY <1>12, <1>o, <1>r DEF finalize_suback, finalize_unsuback, Body
  <1>13. CASE finalize_publish \/ finalize_pubrel \/ finalize_pubrec
    BY <1>13, <1>o, <1>r DEF finalize_publish, finalize_pubrel, finalize_pubrec, Body
  <1>14. CASE finalize_puback \/ finalize_pubcomp \/ finalize_pingresp
    BY <1>14, <1>o, <1>r DEF finalize_puback, finalize_pubcomp, finalize_pingresp, Body
  <1>15. CASE BrokerTakes
    BY <1>15, <1>o DEF BrokerTakes, Answering
  <1>16. CASE FallSilent
    BY <1>16 DEF FallSilent, Phases, Waits
  <1>17. CASE \E n \in Incoming, topic \in Topics, type \in {"PUBLISH1", "PUBLISH2"} :
                BrokerPublishes(n, topic, type)
    <2> PICK n \in Incoming, topic \in Topics, type \in {"PUBLISH1", "PUBLISH2"} :
               BrokerPublishes(n, topic, type)
      BY <1>17
    <2>1. socket = "open" /\ ~silent /\ UNCHANGED <<state, internal, socket, silent, pingTimer, active>>
      BY DEF BrokerPublishes, Answering
    <2> QED
      BY <1>o, <2>1
  <1>18. CASE UNCHANGED vars
    BY <1>18, <1>u DEF vars, stream
  <1> QED
    BY <1>1, <1>2, <1>3, <1>4, <1>5, <1>6, <1>7, <1>8, <1>9, <1>10, <1>11, <1>12, <1>13, <1>14,
       <1>15, <1>16, <1>17, <1>18, Actions

Framed ==
  /\ WellFramed(down)
  /\ socket = "open" /\ ~silent => (missing <=> down # <<>> /\ down[1].part = "body")

\* Whole packets one after the other.
LEMMA FramedConcat ==
  ASSUME NEW q \in Seq(Unit), NEW r \in Seq(Unit), WellFramed(q), WellFramed(r),
         r # <<>> => r[1].part = "header"
  PROVE  WellFramed(q \o r)
  <1>1. /\ q \o r \in Seq(Unit) /\ Len(q \o r) = Len(q) + Len(r)
        /\ \A k \in 1 .. Len(q) + Len(r) :
             (q \o r)[k] = IF k <= Len(q) THEN q[k] ELSE r[k - Len(q)]
    BY ConcatProperties
  <1>2. Len(q) \in Nat /\ Len(r) \in Nat /\ (Len(r) > 0 => r # <<>>)
    OBVIOUS
  <1> DEFINE c == q \o r
             n == Len(q)
  <1> HIDE DEF c, n
  <1>3. ASSUME NEW k \in 1 .. Len(c), c[k].part = "header"
        PROVE  k + 1 \in 1 .. Len(c) /\ c[k + 1] = [packet |-> c[k].packet, part |-> "body"]
    <2>1. CASE k <= n
      <3>1. c[k] = q[k] /\ k \in 1 .. n
        BY <1>1, <1>2, <2>1, <1>3 DEF c, n
      <3>2. k + 1 \in 1 .. n /\ q[k + 1] = [packet |-> q[k].packet, part |-> "body"]
        BY <1>3, <3>1 DEF WellFramed, n
      <3> QED
        BY <1>1, <1>2, <3>1, <3>2 DEF c, n
    <2>2. CASE k > n
      <3>1. c[k] = r[k - n] /\ k - n \in 1 .. Len(r)
        BY <1>1, <1>2, <1>3, <2>2 DEF c, n
      <3>2. k - n + 1 \in 1 .. Len(r) /\ r[k - n + 1] = [packet |-> r[k - n].packet, part |-> "body"]
        BY <1>3, <3>1 DEF WellFramed
      <3>3. k + 1 \in 1 .. n + Len(r) /\ ~(k + 1 <= n) /\ k + 1 - n = k - n + 1
        BY <1>2, <1>3, <2>2, <3>2 DEF n
      <3> QED
        BY <1>1, <3>1, <3>2, <3>3 DEF c, n
    <2> QED
      BY <1>2, <2>1, <2>2 DEF n
  <1>4. ASSUME NEW k \in 1 .. Len(c) - 1, c[k].part = "body"
        PROVE  c[k + 1].part = "header"
    <2>0. k \in 1 .. n + Len(r) /\ k + 1 \in 1 .. n + Len(r) /\ n \in Nat
      BY <1>1, <1>2, <1>4 DEF c, n
    <2>1. CASE k < n
      <3>1. c[k] = q[k] /\ c[k + 1] = q[k + 1] /\ k \in 1 .. n - 1
        BY <1>1, <2>0, <2>1 DEF c, n
      <3> QED
        BY <1>4, <3>1 DEF WellFramed, n
    <2>2. CASE k = n
      <3>1. c[k + 1] = r[1] /\ Len(r) > 0
        BY <1>1, <1>2, <2>0, <2>2 DEF c, n
      <3> QED
        BY <1>2, <3>1
    <2>3. CASE k > n
      <3>1. c[k] = r[k - n] /\ c[k + 1] = r[k - n + 1] /\ k - n \in 1 .. Len(r) - 1
        BY <1>1, <1>2, <2>0, <2>3 DEF c, n
      <3> QED
        BY <1>4, <3>1 DEF WellFramed
    <2> QED
      BY <2>0, <2>1, <2>2, <2>3
  <1> QED
    BY <1>3, <1>4 DEF WellFramed, c

\* One packet is framed.
LEMMA FramedUnits ==
  ASSUME NEW a \in DownPacket
  PROVE  WellFramed(Units(a)) /\ Units(a)[1].part = "header" /\ Units(a) # <<>>
  <1> DEFINE u == Units(a)
  <1>1. /\ Len(u) = 2 /\ u[1] = [packet |-> a, part |-> "header"]
        /\ u[2] = [packet |-> a, part |-> "body"]
    BY UnitsAre
  <1> HIDE DEF u
  <1>2. u[1].part = "header" /\ u[2].part = "body" /\ u[1].packet = a
    BY <1>1
  <1>3. \A k \in 1 .. Len(u) : u[k].part = "header" =>
          k + 1 \in 1 .. Len(u) /\ u[k + 1] = [packet |-> u[k].packet, part |-> "body"]
    BY <1>1, <1>2
  <1>4. \A k \in 1 .. Len(u) - 1 : u[k].part = "body" => u[k + 1].part = "header"
    BY <1>1, <1>2
  <1>5. u # <<>>
    BY <1>1
  <1> QED
    BY <1>2, <1>3, <1>4, <1>5 DEF WellFramed, u

\* What is left after the first unit is framed.
LEMMA FramedTail ==
  ASSUME NEW q \in Seq(Unit), q # <<>>, WellFramed(q)
  PROVE  WellFramed(Tail(q))
  <1>1. /\ Len(q) \in Nat /\ Len(q) > 0 /\ Len(Tail(q)) = Len(q) - 1
        /\ \A k \in 1 .. Len(q) - 1 : Tail(q)[k] = q[k + 1]
    OBVIOUS
  <1> DEFINE t == Tail(q)
  <1> HIDE DEF t
  <1>2. ASSUME NEW k \in 1 .. Len(t), t[k].part = "header"
        PROVE  k + 1 \in 1 .. Len(t) /\ t[k + 1] = [packet |-> t[k].packet, part |-> "body"]
    <2>1. t[k] = q[k + 1] /\ k + 1 \in 1 .. Len(q)
      BY <1>1, <1>2 DEF t
    <2>2. k + 1 + 1 \in 1 .. Len(q) /\ q[k + 1 + 1] = [packet |-> q[k + 1].packet, part |-> "body"]
      BY <1>2, <2>1 DEF WellFramed
    <2>3. k + 1 \in 1 .. Len(q) - 1
      BY <1>1, <2>2
    <2> QED
      BY <1>1, <2>1, <2>2, <2>3 DEF t
  <1>3. ASSUME NEW k \in 1 .. Len(t) - 1, t[k].part = "body"
        PROVE  t[k + 1].part = "header"
    <2>1. t[k] = q[k + 1] /\ t[k + 1] = q[k + 1 + 1] /\ k + 1 \in 1 .. Len(q) - 1
      BY <1>1, <1>3 DEF t
    <2> QED
      BY <1>3, <2>1 DEF WellFramed
  <1> QED
    BY <1>2, <1>3 DEF WellFramed, t

\* A header makes the client wait for its body, a body for the next header.
LEMMA FramedRead ==
  ASSUME Types, Phases, Framed, socket = "open", down # <<>>, Consume \/ (missing' = TRUE /\ down' = Tail(down)),
         Part = "header" => missing' = TRUE,
         Part = "body" => missing' = FALSE,
         UNCHANGED <<socket, silent>>
  PROVE  Framed'
  <1>1. /\ down' = Tail(down) /\ Head(down) = down[1] /\ Part \in {"header", "body"} /\ Part = down[1].part
        /\ down \in Seq(Unit) /\ Len(down) > 0 /\ Len(down) \in Nat /\ Len(Tail(down)) = Len(down) - 1
        /\ \A k \in 1 .. Len(down) - 1 : Tail(down)[k] = down[k + 1]
    BY Reading DEF Consume, Types, StreamTypes, Part
  <1>2. WellFramed(down')
    BY <1>1, FramedTail DEF Framed
  <1>3. CASE Part = "header"
    <2>0. 1 \in 1 .. Len(down) /\ down[1].part = "header"
      BY <1>1, <1>3
    <2>1. 1 + 1 \in 1 .. Len(down) /\ down[1 + 1] = [packet |-> down[1].packet, part |-> "body"]
      BY <2>0 DEF Framed, WellFramed
    <2>2. down'[1].part = "body" /\ down' # <<>>
      <3>1. 1 \in 1 .. Len(down) - 1 /\ Len(down') # 0
        BY <1>1, <2>1
      <3> QED
        BY <1>1, <2>1, <3>1
    <2> QED
      BY <1>2, <1>3, <2>2 DEF Framed
  <1>4. CASE Part = "body"
    <2>1. ASSUME down' # <<>> PROVE down'[1].part = "header"
      <3>1. 1 \in 1 .. Len(down) - 1
        BY <1>1, <2>1
      <3>2. down'[1] = down[1 + 1]
        BY <1>1, <3>1
      <3> QED
        BY <1>1, <1>4, <3>1, <3>2 DEF Framed, WellFramed
    <2> QED
      BY <1>2, <1>4, <2>1 DEF Framed
  <1> QED
    BY <1>1, <1>3, <1>4

\* A whole packet more leaves the first unit first.
LEMMA FramedAnswer ==
  ASSUME Types, Framed, NEW r \in Seq(Unit), WellFramed(r), r # <<>> => r[1].part = "header",
         down' = down \o r, UNCHANGED <<socket, silent, missing>>
  PROVE  Framed'
  <1>1. down \in Seq(Unit)
    BY DEF Types, StreamTypes
  <1>2. WellFramed(down')
    BY <1>1, FramedConcat DEF Framed
  <1>3. /\ Len(down \o r) = Len(down) + Len(r) /\ Len(down) \in Nat /\ Len(r) \in Nat
        /\ \A k \in 1 .. Len(down) + Len(r) :
             (down \o r)[k] = IF k <= Len(down) THEN down[k] ELSE r[k - Len(down)]
    BY <1>1, ConcatProperties
  <1>4. CASE r = <<>>
    <2>1. down' = down
      BY <1>1, <1>4, ConcatEmptySeq
    <2> QED
      BY <2>1 DEF Framed
  <1>5. CASE r # <<>> /\ down = <<>>
    <2>1. down' # <<>> /\ down'[1].part = "header"
      BY <1>3, <1>5
    <2> QED
      BY <1>2, <1>5, <2>1 DEF Framed
  <1>6. CASE r # <<>> /\ down # <<>>
    <2>1. Len(down) > 0
      BY <1>1, <1>6
    <2>2. down' # <<>> /\ down'[1] = down[1]
      BY <1>3, <2>1
    <2> QED
      BY <1>2, <1>6, <2>2 DEF Framed
  <1> QED
    BY <1>4, <1>5, <1>6

\* What no unit is read from and no unit is added to.
LEMMA FramedStays ==
  ASSUME Framed, UNCHANGED <<down, missing, socket, silent>>
  PROVE  Framed'
  BY DEF Framed

\* A stream that is lost is empty.
LEMMA FramedEmpty ==
  ASSUME down' = <<>>, socket' # "open" \/ silent' \/ ~missing'
  PROVE  Framed'
  BY DEF Framed, WellFramed

\* A body is read when its header has been, a header when no body is due.
LEMMA FramedStep == Types /\ Phases /\ Framed /\ [Next]_vars => Framed'
  <1> SUFFICES ASSUME Types, Phases, Framed, [Next]_vars PROVE Framed'
    OBVIOUS
  <1>t. StreamTypes /\ BrokerTypes /\ Flags
    BY DEF Types
  <1>d. DropTransport => Framed'
    BY FramedEmpty DEF DropTransport
  <1>r. Body({"CONNACK", "SUBACK", "UNSUBACK", "PUBLISH1", "PUBLISH2", "PUBREL", "PUBACK", "PUBREC",
               "PUBCOMP", "PINGRESP"}) /\ Consume /\ socket = "open" /\ UNCHANGED <<socket, silent>> => Framed'
    BY FramedRead DEF Body, Consume
  <1> USE DEF client, broker, stream
  <1>1. CASE connectToHost
    <2>1. down' = <<>> /\ socket' = "opening"
      BY <1>1 DEF connectToHost, Phases
    <2> QED
      BY <2>1, FramedEmpty
  <1>2. CASE disconnectConnected
    <2>1. CASE DropTransport
      BY <1>d, <2>1
    <2>2. CASE ~DropTransport
      BY <1>2, <2>2, FramedStays DEF disconnectConnected
    <2> QED
      BY <2>1, <2>2
  <1>3. CASE disconnectConnecting
    BY <1>3, <1>d DEF disconnectConnecting
  <1>4. CASE \E q \in QoS : publish(q)
    BY <1>4, FramedStays DEF publish
  <1>5. CASE \E topic \in Topics : subscribe(topic)
    BY <1>5, FramedStays DEF subscribe
  <1>6. CASE \E s \in active : unsubscribe(s)
    BY <1>6, FramedStays DEF unsubscribe
  <1>7. CASE PingTimer
    <2>1. CASE PingsUnanswered
      BY <1>7, <1>d, <2>1 DEF PingTimer, closeConnection
    <2>2. CASE ~PingsUnanswered
      BY <1>7, <2>2, FramedStays DEF PingTimer
    <2> QED
      BY <2>1, <2>2
  <1>8. CASE transportConnectionEstablished
    <2>1. down' = <<>> /\ ~missing'
      BY <1>8 DEF transportConnectionEstablished, ClearMissing, Phases
    <2> QED
      BY <2>1, FramedEmpty
  <1>9. CASE transportError
    BY <1>9, <1>d DEF transportError, closeConnection
  <1>10. CASE socket = "open" /\ (ReadHeader \/ Misread)
    <2>1. CASE ProtocolViolation
      BY <1>d, <2>1 DEF ProtocolViolation, closeConnection
    <2>2. CASE ~ProtocolViolation
      <3>1. /\ down # <<>> /\ Part = "header" /\ missing' = TRUE /\ down' = Tail(down)
            /\ UNCHANGED <<socket, silent>>
        BY <1>10, <2>2 DEF ReadHeader, Misread
      <3> QED
        BY <1>10, <3>1, FramedRead
    <2> QED
      BY <2>1, <2>2
  <1>11. CASE socket = "open" /\ finalize_connack
    <2>1. CASE closeConnection
      BY <1>d, <2>1 DEF closeConnection
    <2>2. CASE ~closeConnection
      BY <1>11, <1>r, <2>2 DEF finalize_connack, Body
    <2> QED
      BY <2>1, <2>2
  <1>12. CASE socket = "open" /\ (finalize_suback \/ finalize_unsuback \/ finalize_pingresp)
    BY <1>12, <1>r DEF finalize_suback, finalize_unsuback, finalize_pingresp, Body
  <1>13. CASE socket = "open" /\ (finalize_publish \/ finalize_pubrel)
    BY <1>13, <1>r DEF finalize_publish, finalize_pubrel, Body
  <1>14. CASE socket = "open" /\ (finalize_puback \/ finalize_pubrec \/ finalize_pubcomp)
    BY <1>14, <1>r DEF finalize_puback, finalize_pubrec, finalize_pubcomp, Body
  <1>15. CASE BrokerTakes
    <2>0. UNCHANGED <<socket, silent, missing>>
      BY <1>15 DEF BrokerTakes
    <2>1. CASE BrokerConnects
      <3>1. PICK a \in DownPacket, r \in Seq(Unit) :
              /\ down' = down \o Units(a) \o r /\ WellFramed(r)
              /\ r # <<>> => r[1].part = "header"
        BY <1>t, <2>1, Connects
      <3>2. Units(a) \in Seq(Unit) /\ WellFramed(Units(a)) /\ Units(a)[1].part = "header"
        BY UnitsAre, FramedUnits
      <3> DEFINE b == Units(a) \o r
      <3>3. WellFramed(b) /\ b \in Seq(Unit)
        BY <3>1, <3>2, FramedConcat, ConcatProperties
      <3>4. b[1].part = "header"
        <4>0. Len(r) \in Nat
          BY LenProperties
        <4>1. Len(Units(a)) = 2
          BY UnitsAre
        <4>2. 1 \in 1 .. Len(Units(a)) + Len(r) /\ 1 <= Len(Units(a))
          BY <4>0, <4>1
        <4>3. b[1] = Units(a)[1]
          BY <3>2, <4>2, ConcatProperties
        <4> QED
          BY <3>2, <4>3
      <3>5. down' = down \o b
        <4> DEFINE u == Units(a)
        <4>1. u \in Seq(Unit) /\ down' = (down \o u) \o r /\ down \in Seq(Unit)
          BY <1>t, <3>1, <3>2 DEF StreamTypes
        <4> HIDE DEF u
        <4>2. (down \o u) \o r = down \o (u \o r)
          BY <4>1, ConcatAssociative
        <4> QED
          BY <4>1, <4>2 DEF u
      <3> HIDE DEF b
      <3> QED
        BY <2>0, <3>3, <3>4, <3>5, FramedAnswer
    <2>2. CASE down' = down
      BY <2>0, <2>2, FramedStays
    <2>3. CASE \E a \in DownPacket : Matches(Head(up), a) /\ Answer(Units(a))
      BY <2>0, <2>3, UnitsAre, FramedUnits, FramedAnswer DEF Answer
    <2> QED
      BY <1>15, <1>t, <2>1, <2>2, <2>3, TakesOne
  <1>16. CASE FallSilent
    BY <1>16, FramedEmpty DEF FallSilent
  <1>17. CASE \E n \in Incoming, topic \in Topics, type \in {"PUBLISH1", "PUBLISH2"} :
                BrokerPublishes(n, topic, type)
    <2> PICK n \in Incoming, topic \in Topics, type \in {"PUBLISH1", "PUBLISH2"} :
               BrokerPublishes(n, topic, type)
      BY <1>17
    <2>1. Packet(type, n, topic) \in DownPacket
      BY DownPackets
    <2> QED
      BY <2>1, UnitsAre, FramedUnits, FramedAnswer DEF BrokerPublishes, Answer
  <1>18. CASE UNCHANGED vars
    BY <1>18, FramedStays DEF vars
  <1> QED
    BY <1>1, <1>2, <1>3, <1>4, <1>5, <1>6, <1>7, <1>8, <1>9, <1>10, <1>11, <1>12, <1>13, <1>14,
       <1>15, <1>16, <1>17, <1>18, Actions

NoConnect(q) == \A k \in 1 .. Len(q) : q[k].type # "CONNECT"
NoConnack(q) == \A k \in 1 .. Len(q) : q[k].packet.type # "CONNACK"

Handshake ==
  /\ ~Waits => NoConnect(up) /\ NoConnack(down)
  /\ \A k \in 1 .. Len(down) : down[k].packet.type = "CONNACK" => k <= (IF missing THEN 1 ELSE 2)
  /\ Waits => \A k \in 1 .. Len(down) :
       down[k].packet.type \in {"CONNACK", "PUBLISH1", "PUBLISH2", "PUBREL"}
  /\ Waits /\ socket = "open" /\ ~silent =>
       \/ up = <<Packet("CONNECT", None, None)>> /\ down = <<>>
       \/ up = <<>> /\ down # <<>> /\ down[1].packet.type = "CONNACK"

\* Streams that are lost hold no handshake.
LEMMA HandshakeEmpty ==
  ASSUME up' = <<>>, down' = <<>>, Waits' => socket' # "open" \/ silent'
  PROVE  Handshake'
  BY DEF Handshake, NoConnect, NoConnack

\* After the handshake no part of one comes.
LEMMA HandshakeDone ==
  ASSUME ~Waits', NoConnect(up'), NoConnack(down')
  PROVE  Handshake'
  BY DEF Handshake, NoConnack

\* What nothing of the handshake is touched by.
LEMMA HandshakeStays ==
  ASSUME Handshake, UNCHANGED <<up, down, missing, internal, socket, silent>>
  PROVE  Handshake'
  BY DEF Handshake, NoConnect, NoConnack, Waits

\* Only CONNECT is one.
LEMMA NoConnectWritten ==
  ASSUME StreamTypes, NoConnect(up), NEW p \in UpPacket, p.type # "CONNECT", Write(<<p>>)
  PROVE  NoConnect(up')
  <1>1. CASE silent
    BY <1>1, Written DEF NoConnect
  <1>2. CASE ~silent
    <2>1. /\ Len(up) \in Nat /\ Len(up') = Len(up) + 1 /\ up'[Len(up) + 1] = p
          /\ \A k \in 1 .. Len(up) : up'[k] = up[k]
      BY <1>2, Written DEF StreamTypes
    <2>2. ASSUME NEW k \in 1 .. Len(up') PROVE up'[k].type # "CONNECT"
      BY <2>1, <2>2 DEF NoConnect
    <2> QED
      BY <2>2 DEF NoConnect
  <1> QED
    BY <1>1, <1>2

\* What is left is part of what was there.
LEMMA NoConnackTail ==
  ASSUME StreamTypes, down # <<>>, NoConnack(down)
  PROVE  NoConnack(Tail(down))
  <1>1. /\ Len(down) \in Nat /\ Len(Tail(down)) = Len(down) - 1
        /\ \A k \in 1 .. Len(Tail(down)) : Tail(down)[k] = down[k + 1]
    BY Reading DEF StreamTypes
  <1>2. \A k \in 1 .. Len(Tail(down)) : k + 1 \in 1 .. Len(down)
    BY <1>1
  <1> QED
    BY <1>1, <1>2 DEF NoConnack

\* Only CONNACK is one.
LEMMA NoConnackAnswered ==
  ASSUME StreamTypes, NoConnack(down), NEW a \in DownPacket, a.type # "CONNACK", Answer(Units(a))
  PROVE  NoConnack(down')
  <1>1. /\ Len(down) \in Nat /\ Len(down') = Len(down) + 2
        /\ \A k \in 1 .. Len(down) : down'[k] = down[k]
        /\ down'[Len(down) + 1].packet = a /\ down'[Len(down) + 2].packet = a
    <2>1. Len(down) \in Nat
      BY DEF StreamTypes
    <2> QED
      BY <2>1, Answered
  <1>2. ASSUME NEW k \in 1 .. Len(down') PROVE down'[k].packet.type # "CONNACK"
    <2>1. k \in 1 .. Len(down) \/ k = Len(down) + 1 \/ k = Len(down) + 2
      BY <1>1
    <2> QED
      BY <1>1, <2>1 DEF NoConnack
  <1> QED
    BY <1>2 DEF NoConnack

\* While the client waits for CONNACK, it is the first that comes.
LEMMA WaitingReads ==
  ASSUME Types, Phases, Handshake, Waits, socket = "open", down # <<>>
  PROVE  up = <<>> /\ ~silent /\ Arriving.type = "CONNACK"
  <1>1. ~silent /\ Head(down) = down[1]
    BY Reading DEF Phases, Types
  <1> QED
    BY <1>1 DEF Handshake, Arriving

\* A connection is either waiting for CONNACK or done with the handshake.
LEMMA HandshakeStep == Types /\ Phases /\ Framed /\ Handshake /\ [Next]_vars => Handshake'
  <1> SUFFICES ASSUME Types, Phases, Framed, Handshake, [Next]_vars PROVE Handshake'
    OBVIOUS
  <1>t. StreamTypes /\ BrokerTypes /\ Flags /\ TableTypes
    BY DEF Types
  <1>d. DropTransport => Handshake'
    BY HandshakeEmpty DEF DropTransport
  <1>n. ~Waits => NoConnect(up) /\ NoConnack(down)
    BY DEF Handshake
  <1>c. state = "Connected" => ~Waits
    BY DEF Phases, Waits
  \* a packet that is written after the handshake
  <1>w. \A p \in UpPacket : /\ ~Waits /\ internal' = internal /\ p.type # "CONNECT" /\ Write(<<p>>)
                            /\ NoConnack(down')
                            => Handshake'
    BY <1>t, <1>n, NoConnectWritten, HandshakeDone DEF Waits
  <1>r. ASSUME NEW types, Body(types), "CONNACK" \notin types, socket = "open"
        PROVE  ~Waits /\ NoConnect(up) /\ NoConnack(Tail(down)) /\ Arriving \in DownPacket
    <2>1. ~Waits
      BY <1>r, WaitingReads DEF Body
    <2> QED
      BY <1>n, <1>r, <1>t, <2>1, NoConnackTail, Reading DEF Body
  <1> USE DEF client, broker, stream
  <1>1. CASE connectToHost
    <2>1. up' = <<>> /\ down' = <<>> /\ ~Waits'
      BY <1>1 DEF connectToHost, Phases, Waits
    <2> QED
      BY <2>1, HandshakeEmpty
  <1>2. CASE disconnectConnected
    <2>1. CASE DropTransport
      BY <1>d, <2>1
    <2>2. CASE ~DropTransport
      <3>1. Packet("DISCONNECT", None, None) \in UpPacket /\ Packet("DISCONNECT", None, None).type # "CONNECT"
        BY UpPackets, PacketParts
      <3>2. ~Waits /\ ~Waits' /\ down' = down /\ Write(<<Packet("DISCONNECT", None, None)>>)
        BY <1>2, <2>2 DEF disconnectConnected, Waits
      <3> QED
        BY <1>n, <1>t, <3>1, <3>2, NoConnectWritten, HandshakeDone
    <2> QED
      BY <2>1, <2>2
  <1>3. CASE disconnectConnecting
    BY <1>3, <1>d DEF disconnectConnecting
  <1>4. CASE \E q \in QoS : publish(q)
    <2> PICK q \in QoS : publish(q)
      BY <1>4
    <2>1. ~Waits /\ UNCHANGED <<internal, down>> /\ NoConnack(down)
      BY <1>c, <1>n DEF publish, Online
    <2>2. published' \in Messages
      BY <1>t, MqttAssumption DEF publish, ExchangesLeft, BrokerTypes, Messages, TableTypes
    <2>3. CASE q = 0
      <3>1. Packet("PUBLISH0", None, published') \in UpPacket
        BY <2>2, UpPackets
      <3> QED
        BY <1>w, <2>1, <2>3, <3>1, PacketParts DEF publish
    <2>4. CASE q # 0
      <3>1. counter' \in Ids
        BY <1>t, <2>4, IdentifierGiven DEF publish, TableTypes
      <3>2. PICK t \in {"PUBLISH1", "PUBLISH2"} : Write(<<Packet(t, counter', published')>>)
        BY <2>4 DEF publish
      <3>3. Packet(t, counter', published') \in UpPacket
        BY <2>2, <3>1, UpPackets
      <3> QED
        BY <1>w, <2>1, <3>2, <3>3, PacketParts
    <2> QED
      BY <2>3, <2>4
  <1>5. CASE \E topic \in Topics : subscribe(topic)
    <2> PICK topic \in Topics : subscribe(topic)
      BY <1>5
    <2>1. ~Waits /\ UNCHANGED <<internal, down>> /\ NoConnack(down)
      BY <1>c, <1>n DEF subscribe, Online
    <2>2. Packet("SUBSCRIBE", counter', topic) \in UpPacket
      BY <1>t, IdentifierGiven, UpPackets DEF subscribe, TableTypes
    <2> QED
      BY <1>w, <2>1, <2>2, PacketParts DEF subscribe
  <1>6. CASE \E s \in active : unsubscribe(s)
    <2> PICK s \in active : unsubscribe(s)
      BY <1>6
    <2>1. CASE internal # "BrokerConnected"
      BY <2>1, HandshakeStays DEF unsubscribe
    <2>2. CASE internal = "BrokerConnected"
      <3>1. ~Waits /\ UNCHANGED <<internal, down>> /\ NoConnack(down)
        BY <1>n, <2>2 DEF unsubscribe, Waits
      <3>2. Packet("UNSUBSCRIBE", counter', subscriptions[s].topic) \in UpPacket
        BY <1>t, <2>2, IdentifierGiven, Objects, UpPackets DEF unsubscribe, TableTypes
      <3> QED
        BY <1>w, <2>2, <3>1, <3>2, PacketParts DEF unsubscribe
    <2> QED
      BY <2>1, <2>2
  <1>7. CASE PingTimer
    <2>1. CASE PingsUnanswered
      BY <1>7, <1>d, <2>1 DEF PingTimer, closeConnection
    <2>2. CASE ~PingsUnanswered
      <3>1. ~Waits /\ UNCHANGED <<internal, down>> /\ NoConnack(down)
        BY <1>7, <1>n, <2>2 DEF PingTimer, Waits
      <3> QED
        BY <1>7, <1>w, <2>2, <3>1, UpPackets, PacketParts DEF PingTimer
    <2> QED
      BY <2>1, <2>2
  <1>8. CASE transportConnectionEstablished
    <2> DEFINE p == Packet("CONNECT", None, None)
    <2>1. up = <<>> /\ down' = <<>> /\ Waits' /\ up' = up \o <<p>>
      BY <1>8 DEF transportConnectionEstablished, Phases, Waits, Write
    <2>2. <<>> \o <<p>> = <<p>>
      OBVIOUS
    <2> HIDE DEF p
    <2>3. up' = <<p>>
      BY <2>1, <2>2
    <2> QED
      BY <2>1, <2>3 DEF Handshake, NoConnack, p
  <1>9. CASE transportError
    BY <1>9, <1>d DEF transportError, closeConnection
  <1>10. CASE socket = "open" /\ (ReadHeader \/ Misread)
    <2>1. CASE ProtocolViolation
      BY <1>d, <2>1 DEF ProtocolViolation, closeConnection
    <2>2. CASE ~ProtocolViolation
      <3>1. /\ down # <<>> /\ Part = "header" /\ ~missing /\ missing' = TRUE /\ down' = Tail(down)
            /\ UNCHANGED <<up, socket, silent, internal>>
        BY <1>10, <2>2 DEF ReadHeader, Misread
      <3>2. /\ Len(down) \in Nat /\ Len(down') = Len(down) - 1 /\ Head(down) = down[1]
            /\ \A k \in 1 .. Len(down') : down'[k] = down[k + 1] /\ k + 1 \in 1 .. Len(down)
            /\ 1 \in 1 .. Len(down)
        BY <1>t, <3>1, Reading DEF StreamTypes
      <3>3. CASE ~Waits
        BY <1>n, <1>t, <3>1, <3>3, NoConnackTail, HandshakeDone DEF Waits
      <3>4. CASE Waits
        <4>1. up = <<>> /\ down[1].packet.type = "CONNACK" /\ down[1].part = "header"
          BY <1>10, <3>1, <3>2, <3>4, WaitingReads DEF Arriving, Part
        <4>2. 1 + 1 \in 1 .. Len(down) /\ down[1 + 1] = [packet |-> down[1].packet, part |-> "body"]
          BY <3>2, <4>1 DEF Framed, WellFramed
        <4>3. Len(down') > 0 /\ down'[1].packet.type = "CONNACK"
          <5>1. 1 \in 1 .. Len(down')
            BY <3>2, <4>2
          <5>2. down'[1] = [packet |-> down[1].packet, part |-> "body"]
            BY <3>2, <4>2, <5>1
          <5> QED
            BY <3>2, <4>1, <5>1, <5>2
        <4>4. down' # <<>>
          BY <4>3
        <4>5. \A k \in 1 .. Len(down') : down'[k].packet.type = "CONNACK" => k <= 1
          <5>1. \A k \in 1 .. Len(down) : down[k].packet.type = "CONNACK" => k <= 2
            BY <3>1 DEF Handshake
          <5> QED
            BY <3>2, <5>1
        <4>6. \A k \in 1 .. Len(down') :
                down'[k].packet.type \in {"CONNACK", "PUBLISH1", "PUBLISH2", "PUBREL"}
          BY <3>2, <3>4 DEF Handshake
        <4>7. Waits' /\ up' = <<>>
          BY <3>1, <3>4, <4>1 DEF Waits
        <4> QED
          BY <3>1, <4>3, <4>4, <4>5, <4>6, <4>7 DEF Handshake
      <3> QED
        BY <3>3, <3>4
    <2> QED
      BY <2>1, <2>2
  <1>11. CASE socket = "open" /\ finalize_connack
    <2>1. CASE closeConnection
      BY <1>d, <2>1 DEF closeConnection
    <2>2. CASE ~closeConnection
      <3>1. /\ down # <<>> /\ missing /\ down' = Tail(down) /\ up' = up /\ internal' = "BrokerConnected"
            /\ Arriving.type = "CONNACK"
        BY <1>11, <2>2 DEF finalize_connack, Body, Consume
      <3>2. /\ Len(down) \in Nat /\ Len(down') = Len(down) - 1 /\ Head(down) = down[1]
            /\ \A k \in 1 .. Len(down') : down'[k] = down[k + 1] /\ k + 1 \in 1 .. Len(down)
            /\ 1 \in 1 .. Len(down)
        BY <1>t, <3>1, Reading DEF StreamTypes
      <3>3. Waits
        BY <1>n, <3>1, <3>2 DEF NoConnack, Arriving
      <3>4. up = <<>>
        BY <1>11, <3>1, <3>3, WaitingReads
      <3>5. \A k \in 1 .. Len(down) : down[k].packet.type = "CONNACK" => k <= 1
        BY <3>1 DEF Handshake
      <3>6. NoConnack(down')
        BY <3>2, <3>5 DEF NoConnack
      <3>7. ~Waits' /\ NoConnect(up')
        BY <3>1, <3>4 DEF Waits, NoConnect
      <3> QED
        BY <3>6, <3>7, HandshakeDone
    <2> QED
      BY <2>1, <2>2
  <1>12. CASE socket = "open" /\ (finalize_suback \/ finalize_unsuback \/ finalize_pingresp)
    <2>1. ~Waits /\ NoConnect(up) /\ NoConnack(Tail(down))
      BY <1>12, <1>r DEF finalize_suback, finalize_unsuback, finalize_pingresp
    <2>2. down' = Tail(down) /\ up' = up /\ internal' = internal
      BY <1>12 DEF finalize_suback, finalize_unsuback, finalize_pingresp, Consume
    <2> QED
      BY <2>1, <2>2, HandshakeDone DEF Waits
  <1>13. CASE socket = "open" /\ (finalize_puback \/ finalize_pubcomp)
    <2>1. ~Waits /\ NoConnect(up) /\ NoConnack(Tail(down))
      BY <1>13, <1>r DEF finalize_puback, finalize_pubcomp
    <2>2. down' = Tail(down) /\ up' = up /\ internal' = internal
      BY <1>13 DEF finalize_puback, finalize_pubcomp, Consume
    <2> QED
      BY <2>1, <2>2, HandshakeDone DEF Waits
  <1>14. CASE socket = "open" /\ finalize_publish
    <2>1. ~Waits /\ NoConnack(Tail(down)) /\ Arriving \in DownPacket
      BY <1>14, <1>r DEF finalize_publish
    <2>2. PICK t \in {"PUBACK", "PUBREC"} : Write(<<Packet(t, Arriving.id, None)>>)
      BY <1>14 DEF finalize_publish
    <2>3. Packet(t, Arriving.id, None) \in UpPacket
      BY <1>14, <2>1, DownFields, UpPackets DEF finalize_publish, Body
    <2>4. down' = Tail(down) /\ internal' = internal
      BY <1>14 DEF finalize_publish, Consume
    <2> QED
      BY <1>w, <2>1, <2>2, <2>3, <2>4, PacketParts
  <1>15. CASE socket = "open" /\ finalize_pubrel
    <2>1. ~Waits /\ NoConnack(Tail(down)) /\ Arriving \in DownPacket
      BY <1>15, <1>r DEF finalize_pubrel
    <2>2. Write(<<Packet("PUBCOMP", Arriving.id, None)>>) /\ down' = Tail(down) /\ internal' = internal
      BY <1>15 DEF finalize_pubrel, Consume
    <2>3. Packet("PUBCOMP", Arriving.id, None) \in UpPacket
      BY <1>15, <2>1, DownFields, UpPackets DEF finalize_pubrel, Body
    <2> QED
      BY <1>w, <2>1, <2>2, <2>3, PacketParts
  <1>16. CASE socket = "open" /\ finalize_pubrec
    <2>1. ~Waits /\ NoConnect(up) /\ NoConnack(Tail(down)) /\ Arriving \in DownPacket
      BY <1>16, <1>r DEF finalize_pubrec
    <2>2. down' = Tail(down) /\ internal' = internal
      BY <1>16 DEF finalize_pubrec, Consume
    <2>3. CASE up' = up
      BY <2>1, <2>2, <2>3, HandshakeDone DEF Waits
    <2>4. CASE Write(<<Packet("PUBREL", Arriving.id, None)>>)
      <3>1. Packet("PUBREL", Arriving.id, None) \in UpPacket
        BY <1>16, <2>1, DownFields, UpPackets DEF finalize_pubrec, Body
      <3> QED
        BY <1>w, <2>1, <2>2, <2>4, <3>1, PacketParts
    <2> QED
      BY <1>16, <2>3, <2>4 DEF finalize_pubrec
  <1>17. CASE BrokerTakes
    <2>0. /\ up # <<>> /\ up' = Tail(up) /\ socket = "open" /\ ~silent
          /\ UNCHANGED <<internal, missing, socket, silent>>
      BY <1>17 DEF BrokerTakes, Answering
    <2>u. /\ Len(up) \in Nat /\ Len(up') = Len(up) - 1 /\ Head(up) = up[1] /\ 1 \in 1 .. Len(up)
          /\ \A k \in 1 .. Len(up') : up'[k] = up[k + 1] /\ k + 1 \in 1 .. Len(up)
      BY <1>t, <2>0, Taking DEF StreamTypes
    <2>1. CASE ~Waits
      <3>1. NoConnect(up) /\ NoConnack(down) /\ Head(up).type # "CONNECT"
        BY <1>n, <2>1, <2>u DEF NoConnect
      <3>2. NoConnect(up') /\ ~Waits'
        BY <2>0, <2>1, <2>u, <3>1 DEF NoConnect, Waits
      <3>3. CASE down' = down
        BY <3>1, <3>2, <3>3, HandshakeDone
      <3>4. CASE \E a \in DownPacket : Matches(Head(up), a) /\ Answer(Units(a))
        <4>1. PICK a \in DownPacket : Matches(Head(up), a) /\ Answer(Units(a))
          BY <3>4
        <4>2. a.type # "CONNACK"
          BY <4>1 DEF Matches
        <4> QED
          BY <1>t, <3>1, <3>2, <4>1, <4>2, NoConnackAnswered, HandshakeDone
      <3> QED
        BY <1>17, <1>t, <3>1, <3>3, <3>4, TakesOne
    <2>2. CASE Waits
      <3> DEFINE p == Packet("CONNECT", None, None)
      <3>1. up = <<p>> /\ down = <<>>
        BY <2>0, <2>2 DEF Handshake
      <3>p. p.type = "CONNECT"
        BY PacketParts
      <3> HIDE DEF p
      <3>2. Head(up).type = "CONNECT" /\ up' = <<>>
        BY <2>0, <2>u, <3>1, <3>p
      <3>3. BrokerConnects
        BY <1>17, <3>2 DEF BrokerTakes
      <3>4. PICK a \in DownPacket, r \in Seq(Unit) :
              down' = down \o Units(a) \o r /\ a.type = "CONNACK" /\ Repeats(r)
        BY <1>t, <3>3, Connects
      <3> DEFINE u == Units(a)
      <3>5. /\ u \in Seq(Unit) /\ Len(u) = 2 /\ u[1].packet = a /\ u[2].packet = a
        BY UnitsAre
      <3> HIDE DEF u
      <3>6. down' = u \o r
        BY <3>1, <3>4, <3>5, ConcatEmptySeq DEF u
      <3>7. /\ Len(u \o r) = 2 + Len(r) /\ Len(r) \in Nat
            /\ \A k \in 1 .. 2 + Len(r) : (u \o r)[k] = IF k <= 2 THEN u[k] ELSE r[k - 2]
        <4>1. /\ Len(u \o r) = Len(u) + Len(r)
              /\ \A k \in 1 .. Len(u) + Len(r) :
                   (u \o r)[k] = IF k <= Len(u) THEN u[k] ELSE r[k - Len(u)]
          BY <3>5, ConcatProperties
        <4>2. Len(r) \in Nat
          BY LenProperties
        <4> QED
          BY <3>5, <4>1, <4>2
      <3>8. \A k \in 1 .. Len(down') :
              IF k <= 2 THEN down'[k].packet.type = "CONNACK"
              ELSE down'[k].packet.type \in {"PUBLISH1", "PUBLISH2", "PUBREL"}
        <4> TAKE k \in 1 .. Len(down')
        <4>0. k \in 1 .. 2 + Len(r) /\ down'[k] = IF k <= 2 THEN u[k] ELSE r[k - 2]
          BY <3>6, <3>7
        <4>1. CASE k <= 2
          BY <3>4, <3>5, <4>0, <4>1
        <4>2. CASE k > 2
          <5>1. k - 2 \in 1 .. Len(r)
            BY <3>7, <4>0, <4>2
          <5> QED
            BY <3>4, <4>0, <4>2, <5>1 DEF Repeats
        <4> QED
          BY <4>0, <4>1, <4>2
      <3>9. Len(down') >= 2 /\ down' # <<>> /\ 1 \in 1 .. Len(down')
        BY <3>6, <3>7
      <3>10. ~missing'
        BY <2>0, <3>1 DEF Framed
      <3>11. down'[1].packet.type = "CONNACK"
        BY <3>8, <3>9
      <3>12. Waits'
        BY <2>0, <2>2 DEF Waits
      <3> QED
        BY <3>2, <3>8, <3>9, <3>10, <3>11, <3>12 DEF Handshake
    <2> QED
      BY <2>1, <2>2
  <1>18. CASE FallSilent
    BY <1>18, HandshakeEmpty DEF FallSilent
  <1>19. CASE \E n \in Incoming, topic \in Topics, type \in {"PUBLISH1", "PUBLISH2"} :
                BrokerPublishes(n, topic, type)
    <2> PICK n \in Incoming, topic \in Topics, type \in {"PUBLISH1", "PUBLISH2"} :
               BrokerPublishes(n, topic, type)
      BY <1>19
    <2> DEFINE a == Packet(type, n, topic)
    <2>1. /\ Answer(Units(a)) /\ UNCHANGED <<up, internal, missing, socket, silent>>
          /\ socket = "open" /\ ~silent /\ (up # <<>> => Head(up).type # "CONNECT")
      BY DEF BrokerPublishes, Answering
    <2>2. a \in DownPacket /\ a.type = type
      BY DownPackets, PacketParts
    <2> HIDE DEF a
    <2>3. CASE ~Waits
      <3>1. NoConnack(down')
        BY <1>n, <1>t, <2>1, <2>2, <2>3, NoConnackAnswered
      <3> QED
        BY <1>n, <2>1, <2>3, <3>1, HandshakeDone DEF Waits
    <2>4. CASE Waits
      <3>1. up # <<Packet("CONNECT", None, None)>>
        <4> DEFINE p == Packet("CONNECT", None, None)
        <4>1. p.type = "CONNECT"
          BY PacketParts
        <4> HIDE DEF p
        <4>2. <<p>> # <<>> /\ Head(<<p>>) = p
          OBVIOUS
        <4> QED
          BY <2>1, <4>1, <4>2 DEF p
      <3>2. up = <<>> /\ down # <<>> /\ down[1].packet.type = "CONNACK"
        BY <2>1, <2>4, <3>1 DEF Handshake
      <3>3. /\ Len(down) \in Nat /\ Len(down) > 0 /\ Len(down') = Len(down) + 2
            /\ \A k \in 1 .. Len(down) : down'[k] = down[k]
            /\ down'[Len(down) + 1].packet = a /\ down'[Len(down) + 2].packet = a
        <4>1. Len(down) \in Nat /\ Len(down) > 0
          BY <1>t, <3>2 DEF StreamTypes
        <4> QED
          BY <1>t, <2>1, <2>2, <4>1, Answered
      <3>4. \A k \in 1 .. Len(down') :
              (k \in 1 .. Len(down) /\ down'[k] = down[k]) \/ down'[k].packet = a
        BY <3>3
      <3>5. down' # <<>> /\ down'[1].packet.type = "CONNACK"
        BY <3>2, <3>3
      <3>6. Waits' /\ up' = <<>>
        BY <2>1, <2>4, <3>2 DEF Waits
      <3>7. \A k \in 1 .. Len(down') :
              down'[k].packet.type \in {"CONNACK", "PUBLISH1", "PUBLISH2", "PUBREL"}
        BY <2>2, <2>4, <3>4 DEF Handshake
      <3>8. \A k \in 1 .. Len(down') : down'[k].packet.type = "CONNACK" => k <= (IF missing' THEN 1 ELSE 2)
        BY <2>1, <2>2, <3>4 DEF Handshake
      <3> QED
        BY <3>5, <3>6, <3>7, <3>8 DEF Handshake
    <2> QED
      BY <2>3, <2>4
  <1>20. CASE UNCHANGED vars
    BY <1>20, HandshakeStays DEF vars
  <1> QED
    BY <1>1, <1>2, <1>3, <1>4, <1>5, <1>6, <1>7, <1>8, <1>9, <1>10, <1>11, <1>12, <1>13, <1>14,
       <1>15, <1>16, <1>17, <1>18, <1>19, <1>20, Actions

Base == Types /\ Phases /\ Framed /\ Handshake

\* Nothing is connected at the start.
LEMMA InitBase == Init => Base
  <1> SUFFICES ASSUME Init PROVE Base
    OBVIOUS
  <1>1. Types
    BY InitTypes
  <1>2. Phases
    BY DEF Init, Phases, Waits
  <1>3. Framed /\ Handshake
    BY DEF Init, Framed, WellFramed, Handshake, NoConnect, NoConnack, Waits
  <1> QED
    BY <1>1, <1>2, <1>3 DEF Base

\* Every step keeps the handshake and the framing.
LEMMA BaseStep == Base /\ [Next]_vars => Base'
  BY TypesStep, PhasesStep, FramedStep, HandshakeStep DEF Base

\* The phases, the framing and the handshake are as they should in every state.
THEOREM BaseHolds == Spec => []Base
  BY InitBase, BaseStep, PTL DEF Spec

-----------------------------------------------------------------------------
(* To the application the client is a session. *)

ActiveTopics == {subscriptions[s].topic : s \in active}

\* Topics go with the subscriptions that are active no more.
LEMMA TopicsForgotten ==
  ASSUME active' \subseteq active,
         \A s \in active' : subscriptions'[s].topic = subscriptions[s].topic
  PROVE  ActiveTopics' \subseteq ActiveTopics
  BY DEF ActiveTopics

\* A step of the client begins, accepts or ends a connection, gains a topic or loses some.
LEMMA SessionStep == Base /\ [Next]_vars => [Session!Next]_<<state, ActiveTopics>>
  <1> SUFFICES ASSUME Base, [Next]_vars PROVE [Session!Next]_<<state, ActiveTopics>>
    OBVIOUS
  <1>t. TableTypes /\ ClientTypes /\ Phases /\ Types /\ Handshake
    BY DEF Base, Types
  <1>o. /\ \A s \in DOMAIN subscriptions : subscriptions[s].topic \in Topics
        /\ active \subseteq DOMAIN subscriptions
    BY <1>t, Objects
  <1>f. ASSUME active' \subseteq active, subscriptions' = subscriptions
        PROVE  ActiveTopics' \subseteq ActiveTopics
    BY <1>f, TopicsForgotten
  <1>k. ASSUME active' \subseteq active,
               \A s \in DOMAIN subscriptions : subscriptions'[s].topic = subscriptions[s].topic
        PROVE  ActiveTopics' \subseteq ActiveTopics
    BY <1>k, <1>o, TopicsForgotten
  <1>c. ASSUME cleanSubscriptions PROVE ActiveTopics' \subseteq ActiveTopics
    BY <1>c, TopicsForgotten DEF cleanSubscriptions
  <1>u. UNCHANGED state /\ ActiveTopics' \subseteq ActiveTopics => Session!Next
    BY DEF Session!Next, Session!Unsubscribe, Session!Forget, ActiveTopics
  <1>b. state = "Disconnected" /\ state' = "Connecting" /\ ActiveTopics' \subseteq ActiveTopics => Session!Next
    BY DEF Session!Next, Session!Begin, Session!Forget, ActiveTopics
  <1>a. state = "Connecting" /\ state' = "Connected" /\ ActiveTopics' \subseteq ActiveTopics => Session!Next
    BY DEF Session!Next, Session!Accept, Session!Forget, ActiveTopics
  <1>e. state' = "Disconnected" /\ ActiveTopics' \subseteq ActiveTopics => Session!Next
    BY <1>t DEF Session!Next, Session!End, Session!Unsubscribe, Session!Forget, ActiveTopics, ClientTypes
  <1>d. DropTransport /\ ActiveTopics' \subseteq ActiveTopics => Session!Next
    BY <1>e DEF DropTransport
  <1>s. UNCHANGED <<state, active, subscriptions>> => [Session!Next]_<<state, ActiveTopics>>
    BY DEF ActiveTopics
  <1> USE DEF client, subVars
  <1>1. CASE connectToHost
    BY <1>1, <1>b, <1>c, <1>f DEF connectToHost, LeaveSubscriptions
  <1>2. CASE disconnectConnected
    <2>1. ActiveTopics' \subseteq ActiveTopics
      BY <1>2, <1>f DEF disconnectConnected
    <2> QED
      BY <1>2, <1>d, <1>u, <2>1 DEF disconnectConnected
  <1>3. CASE disconnectConnecting
    BY <1>3, <1>d, <1>f DEF disconnectConnecting
  <1>4. CASE \E q \in QoS : publish(q)
    BY <1>4, <1>s DEF publish
  <1>5. CASE \E topic \in Topics : subscribe(topic)
    <2> PICK topic \in Topics : subscribe(topic)
      BY <1>5
    <2> DEFINE new == Len(subscriptions')
    <2>1. /\ subscriptions'[new] = [topic |-> topic, state |-> "SubscriptionPending"]
          /\ \A s \in DOMAIN subscriptions : subscriptions'[s] = subscriptions[s]
      BY <1>t, Subscribed DEF subscribe
    <2>2. active' = active \union {new} /\ state = "Connected" /\ UNCHANGED state
      BY DEF subscribe, Online
    <2> HIDE DEF new
    <2>3. subscriptions'[new].topic = topic
      BY <2>1
    <2>4. ActiveTopics' = ActiveTopics \union {topic}
      BY <1>o, <2>1, <2>2, <2>3 DEF ActiveTopics
    <2> QED
      BY <2>2, <2>4 DEF Session!Next, Session!Subscribe, ActiveTopics
  <1>6. CASE \E s \in active : unsubscribe(s)
    <2> PICK s \in active : unsubscribe(s)
      BY <1>6
    <2>1. CASE internal # "BrokerConnected"
      BY <1>f, <1>u, <2>1 DEF unsubscribe
    <2>2. CASE internal = "BrokerConnected"
      <3>1. "UnsubscriptionPending" \in SubscriptionStates
        BY DEF SubscriptionStates
      <3>2. /\ \A x \in DOMAIN subscriptions : subscriptions'[x].topic = subscriptions[x].topic
            /\ active' = active /\ UNCHANGED state
        BY <1>t, <2>2, <3>1, StateChanged DEF unsubscribe, KeptUntilAcknowledged
      <3> QED
        BY <1>k, <1>u, <3>2
    <2> QED
      BY <2>1, <2>2
  <1>7. CASE PingTimer
    <2>1. CASE PingsUnanswered
      BY <1>7, <1>d, <1>f, <2>1 DEF PingTimer, closeConnection
    <2>2. CASE ~PingsUnanswered
      BY <1>7, <1>s, <2>2 DEF PingTimer
    <2> QED
      BY <2>1, <2>2
  <1>8. CASE transportConnectionEstablished
    BY <1>8, <1>s DEF transportConnectionEstablished
  <1>9. CASE transportError
    BY <1>9, <1>d, <1>f DEF transportError, closeConnection
  <1>10. CASE ReadHeader \/ Misread
    <2>1. CASE ProtocolViolation
      BY <1>d, <1>f, <2>1 DEF ProtocolViolation, closeConnection
    <2>2. CASE ~ProtocolViolation
      BY <1>10, <1>s, <2>2 DEF ReadHeader, Misread
    <2> QED
      BY <2>1, <2>2
  <1>11. CASE socket = "open" /\ finalize_connack
    <2>1. ActiveTopics' \subseteq ActiveTopics
      <3>1. CASE cleanSubscriptions
        BY <1>c, <3>1
      <3>2. CASE ~cleanSubscriptions
        BY <1>11, <1>f, <3>2 DEF finalize_connack, closeConnection, LeaveSubscriptions
      <3> QED
        BY <3>1, <3>2
    <2>2. CASE closeConnection
      BY <1>d, <2>1, <2>2 DEF closeConnection
    <2>3. CASE ~closeConnection
      <3>1. down # <<>> /\ Arriving.type = "CONNACK" /\ state' = "Connected"
        BY <1>11, <2>3 DEF finalize_connack, Body
      <3>2. Head(down) = down[1] /\ 1 \in 1 .. Len(down)
        BY <1>t, <3>1, Reading DEF Types, StreamTypes
      <3>3. Waits
        BY <1>t, <3>1, <3>2 DEF Handshake, NoConnack, Arriving
      <3>4. state = "Connecting"
        BY <1>11, <1>t, <3>3 DEF Phases
      <3> QED
        BY <1>a, <2>1, <3>1, <3>4
    <2> QED
      BY <2>2, <2>3
  <1>12. CASE finalize_suback
    <2>1. AckedState(Arriving.value) \in SubscriptionStates
      BY DEF AckedState, SubscriptionStates
    <2>2. \A x \in DOMAIN subscriptions : subscriptions'[x].topic = subscriptions[x].topic
      BY <1>12, <1>t, <2>1, StateChanged DEF finalize_suback
    <2> QED
      BY <1>12, <1>k, <1>u, <2>2 DEF finalize_suback
  <1>13. CASE finalize_unsuback
    <2>1. "Unsubscribed" \in SubscriptionStates
      BY DEF SubscriptionStates
    <2>2. \A x \in DOMAIN subscriptions : subscriptions'[x].topic = subscriptions[x].topic
      BY <1>13, <1>t, <2>1, StateChanged DEF finalize_unsuback
    <2>3. active' \subseteq active /\ UNCHANGED state
      BY <1>13 DEF finalize_unsuback
    <2> QED
      BY <1>k, <1>u, <2>2, <2>3
  <1>14. CASE finalize_publish \/ finalize_pubrel \/ finalize_puback
    BY <1>14, <1>s DEF finalize_publish, finalize_pubrel, finalize_puback
  <1>15. CASE finalize_pubrec \/ finalize_pubcomp \/ finalize_pingresp
    BY <1>15, <1>s DEF finalize_pubrec, finalize_pubcomp, finalize_pingresp
  <1>16. CASE BrokerTakes
    BY <1>16, <1>s DEF BrokerTakes
  <1>17. CASE FallSilent
    BY <1>17, <1>s DEF FallSilent
  <1>18. CASE \E n \in Incoming, topic \in Topics, type \in {"PUBLISH1", "PUBLISH2"} :
                BrokerPublishes(n, topic, type)
    BY <1>18, <1>s DEF BrokerPublishes
  <1>19. CASE UNCHANGED vars
    BY <1>19, <1>s DEF vars
  <1> QED
    BY <1>1, <1>2, <1>3, <1>4, <1>5, <1>6, <1>7, <1>8, <1>9, <1>10, <1>11, <1>12, <1>13, <1>14,
       <1>15, <1>16, <1>17, <1>18, <1>19, Actions

\* A topic is gained only while the client is connected, and a connection is begun,
\* accepted and ended in this order.
THEOREM ClientIsSession == Spec => ImplementsSession
  <1>1. Init => Session!Init
    BY DEF Init, Session!Init
  <1>2. Base /\ [Next]_vars => [Session!Next]_<<state, {subscriptions[s].topic : s \in active}>>
    BY SessionStep DEF ActiveTopics
  <1> QED
    BY <1>1, <1>2, BaseHolds, PTL DEF Spec, ImplementsSession, Session!Spec

-----------------------------------------------------------------------------
(* Requests on their way to the broker and their answers on the way back. *)

Requests(types, i) == {p \in UpPacket : p.type \in types /\ p.id = i}
Answers(types, i) == {u \in Unit : u.part = "body" /\ u.packet.type \in types /\ u.packet.id = i}

Traffic(requests, answers, i) ==
  Count(up, Requests(requests, i)) + Count(down, Answers(answers, i))

\* The client makes the requests, the broker gives the answers to them and to nothing else.
Exchange(requests, answers) ==
  /\ \A p \in UpPacket, a \in DownPacket : Matches(p, a) /\ a.type \in answers => p.type \in requests
  /\ answers \cap {"CONNACK", "PUBLISH1", "PUBLISH2", "PUBREL"} = {}
  /\ requests \cap {"CONNECT", "DISCONNECT", "PUBLISH0", "PUBREL", "PUBACK", "PUBREC", "PUBCOMP"} = {}

\* The exchanges of the client.
LEMMA ExchangesAre ==
  /\ Exchange({"SUBSCRIBE"}, {"SUBACK"})
  /\ Exchange({"UNSUBSCRIBE"}, {"UNSUBACK"})
  /\ Exchange({"PUBLISH1", "PUBLISH2"}, {"PUBACK", "PUBREC"})
  /\ Exchange({"PINGREQ"}, {"PINGRESP"})
  BY DEF Exchange, Matches

\* Traffic is a number.
LEMMA TrafficType ==
  ASSUME StreamTypes, NEW R, NEW A, NEW i
  PROVE  /\ Count(up, Requests(R, i)) \in Nat /\ Count(down, Answers(A, i)) \in Nat
         /\ Traffic(R, A, i) \in Nat
  <1>1. Count(up, Requests(R, i)) \in Nat
    BY CountType DEF StreamTypes
  <1>2. Count(down, Answers(A, i)) \in Nat
    BY CountType DEF StreamTypes
  <1> QED
    BY <1>1, <1>2 DEF Traffic

\* Nothing is under way in empty streams.
LEMMA TrafficEmpty ==
  ASSUME up' = <<>>, down' = <<>>, NEW R, NEW A, NEW i
  PROVE  Traffic(R, A, i)' = 0
  <1>1. \A S : Count(<<>>, S) = 0
    BY CountNone
  <1> QED
    BY <1>1 DEF Traffic, Requests, Answers

\* A packet more, counted or not.
LEMMA CountWritten ==
  ASSUME StreamTypes, NEW p \in UpPacket, Write(<<p>>), NEW S
  PROVE  /\ Count(up', S) <= Count(up, S) + (IF p \in S THEN 1 ELSE 0)
         /\ Count(up', S) \in Nat
  <1>1. Count(up, S) \in Nat
    BY CountType DEF StreamTypes
  <1>2. CASE silent
    BY <1>1, <1>2, Written
  <1>3. CASE ~silent
    <2>1. up' = up \o <<p>>
      BY <1>3, Written
    <2>2. Count(up \o <<p>>, S) = Count(up, S) + (IF p \in S THEN 1 ELSE 0)
      BY CountAppend DEF StreamTypes
    <2> HIDE DEF Count
    <2> QED
      BY <1>1, <2>1, <2>2
  <1> QED
    BY <1>2, <1>3

\* A packet more, a request or not.
LEMMA UpWritten ==
  ASSUME StreamTypes, NEW p \in UpPacket, Write(<<p>>), NEW R, NEW i
  PROVE  /\ Count(up', Requests(R, i)) <=
              Count(up, Requests(R, i)) + (IF p.type \in R /\ p.id = i THEN 1 ELSE 0)
         /\ Count(up', Requests(R, i)) \in Nat
  <1>1. p \in Requests(R, i) <=> p.type \in R /\ p.id = i
    BY DEF Requests
  <1> QED
    BY <1>1, CountWritten

\* A unit less, an answer or not.
LEMMA DownRead ==
  ASSUME StreamTypes, down # <<>>, down' = Tail(down), NEW A, NEW i
  PROVE  /\ Count(down', Answers(A, i)) = Count(down, Answers(A, i))
              - (IF Part = "body" /\ Arriving.type \in A /\ Arriving.id = i THEN 1 ELSE 0)
         /\ Count(down', Answers(A, i)) \in Nat
  <1> DEFINE S == Answers(A, i)
  <1>1. Head(down) \in S <=> Part = "body" /\ Arriving.type \in A /\ Arriving.id = i
    BY Reading DEF Answers, Part, Arriving
  <1> HIDE DEF S
  <1>2. Count(Tail(down), S) = Count(down, S) - (IF Head(down) \in S THEN 1 ELSE 0)
    BY CountTail DEF StreamTypes
  <1>3. Count(Tail(down), S) \in Nat
    BY Reading, CountType
  <1> QED
    BY <1>1, <1>2, <1>3 DEF S

\* The broker's whole packets that are no answers of this exchange.
LEMMA DownOther ==
  ASSUME StreamTypes, NEW r \in Seq(Unit), down' = down \o r, NEW A, NEW i,
         \A k \in 1 .. Len(r) : r[k].packet.type \notin A
  PROVE  Count(down', Answers(A, i)) = Count(down, Answers(A, i))
  <1> DEFINE S == Answers(A, i)
  <1>1. \A k \in 1 .. Len(r) : r[k] \notin S
    BY DEF Answers
  <1> HIDE DEF S
  <1>2. Count(r, S) = 0
    BY <1>1, CountNone
  <1>3. Count(down \o r, S) = Count(down, S) + Count(r, S)
    BY CountConcat DEF StreamTypes
  <1>4. Count(down, S) \in Nat
    BY CountType DEF StreamTypes
  <1> HIDE DEF Count
  <1> QED
    BY <1>2, <1>3, <1>4 DEF S

\* An answer is one body.
LEMMA DownAnswered ==
  ASSUME StreamTypes, NEW a \in DownPacket, Answer(Units(a)), NEW A, NEW i
  PROVE  Count(down', Answers(A, i)) =
           Count(down, Answers(A, i)) + (IF a.type \in A /\ a.id = i THEN 1 ELSE 0)
  <1> DEFINE S == Answers(A, i)
             h == [packet |-> a, part |-> "header"]
             b == [packet |-> a, part |-> "body"]
  <1>1. h \in Unit /\ b \in Unit /\ h \notin S /\ (b \in S <=> a.type \in A /\ a.id = i)
    BY DEF Answers, Unit
  <1>2. Units(a) = <<h, b>>
    BY DEF Units
  <1> HIDE DEF S, h, b
  <1>3. <<h, b>> = <<h>> \o <<b>>
    <2> DEFINE x == <<h, b>>
               y == <<h>> \o <<b>>
    <2>1. x \in Seq(Unit) /\ Len(x) = 2 /\ x[1] = h /\ x[2] = b
      BY <1>1
    <2>2. <<h>> \in Seq(Unit) /\ <<b>> \in Seq(Unit)
      BY <1>1
    <2>3. y \in Seq(Unit) /\ Len(y) = 2 /\ y[1] = h /\ y[2] = b
      BY <2>2, ConcatProperties
    <2> HIDE DEF x, y
    <2>4. \A k \in 1 .. Len(x) : x[k] = y[k]
      BY <2>1, <2>3
    <2>5. x = y
      BY <2>1, <2>3, <2>4, SeqEqual
    <2> QED
      BY <2>5 DEF x, y
  <1> DEFINE d == down \o <<h>>
  <1>4. down \in Seq(Unit) /\ d \in Seq(Unit) /\ <<h>> \in Seq(Unit) /\ <<b>> \in Seq(Unit)
    BY <1>1 DEF StreamTypes
  <1>5. down' = d \o <<b>>
    BY <1>2, <1>3, <1>4, ConcatAssociative DEF Answer
  <1>6. Count(d, S) = Count(down, S) + (IF h \in S THEN 1 ELSE 0)
    BY <1>1, <1>4, CountAppend
  <1> HIDE DEF d
  <1>7. Count(d \o <<b>>, S) = Count(d, S) + (IF b \in S THEN 1 ELSE 0)
    BY <1>1, <1>4, CountAppend
  <1>8. Count(down, S) \in Nat
    BY <1>4, CountType
  <1>9. Count(down', S) = Count(down, S) + (IF b \in S THEN 1 ELSE 0)
    BY <1>1, <1>5, <1>6, <1>7, <1>8
  <1> QED
    BY <1>1, <1>9 DEF S

\* A request that is taken is answered once or not at all.
LEMMA TrafficTaken ==
  ASSUME StreamTypes, StreamTypes', BrokerTypes, BrokerTakes, NEW R, NEW A, Exchange(R, A), NEW i
  PROVE  Traffic(R, A, i)' <= Traffic(R, A, i)
  <1> DEFINE S == Requests(R, i)
             p == Head(up)
  <1>1. /\ up # <<>> /\ p \in UpPacket /\ up' = Tail(up) /\ Tail(up) \in Seq(UpPacket)
        /\ (p \in S <=> p.type \in R /\ p.id = i)
    BY Taking DEF BrokerTakes, Requests
  <1> HIDE DEF S, p
  <1>2. Count(Tail(up), S) = Count(up, S) - (IF p \in S THEN 1 ELSE 0) /\ Count(Tail(up), S) \in Nat
    BY <1>1, CountTail, CountType DEF StreamTypes, p
  <1>3. Count(up', S) = Count(up, S) - (IF p \in S THEN 1 ELSE 0)
    BY <1>1, <1>2
  <1>4. Count(up, S) \in Nat /\ Count(down, Answers(A, i)) \in Nat
    BY TrafficType DEF S
  <1>5. Count(down', Answers(A, i)) <= Count(down, Answers(A, i)) + (IF p \in S THEN 1 ELSE 0)
    <2>1. CASE BrokerConnects
      <3>1. PICK a \in DownPacket, r \in Seq(Unit) :
              /\ down' = down \o Units(a) \o r
              /\ a.type = "CONNACK" /\ Repeats(r)
        BY <2>1, Connects
      <3> DEFINE u == Units(a)
      <3>2. u \in Seq(Unit) /\ Len(u) = 2 /\ u[1].packet = a /\ u[2].packet = a
        BY UnitsAre
      <3> HIDE DEF u
      <3>3. down \in Seq(Unit) /\ (down \o u) \o r = down \o (u \o r) /\ u \o r \in Seq(Unit)
        BY <3>2, ConcatAssociative, ConcatProperties DEF StreamTypes
      <3>4. "CONNACK" \notin A /\ "PUBLISH1" \notin A /\ "PUBLISH2" \notin A /\ "PUBREL" \notin A
        BY DEF Exchange
      <3>5. \A k \in 1 .. Len(u \o r) : (u \o r)[k].packet.type \notin A
        <4> TAKE k \in 1 .. Len(u \o r)
        <4>0. /\ Len(u \o r) = Len(u) + Len(r) /\ Len(r) \in Nat
              /\ \A j \in 1 .. Len(u) + Len(r) : (u \o r)[j] = IF j <= Len(u) THEN u[j] ELSE r[j - Len(u)]
          BY <3>2, ConcatProperties, LenProperties
        <4>1. CASE k <= 2
          BY <3>1, <3>2, <3>4, <4>0, <4>1
        <4>2. CASE k > 2
          <5>1. k - 2 \in 1 .. Len(r) /\ (u \o r)[k] = r[k - 2]
            BY <3>2, <4>0, <4>2
          <5> QED
            BY <3>1, <3>4, <5>1 DEF Repeats
        <4> QED
          BY <4>0, <4>1, <4>2
      <3>6. down' = down \o (u \o r)
        BY <3>1, <3>3 DEF u
      <3>7. Count(down', Answers(A, i)) = Count(down, Answers(A, i))
        BY <3>3, <3>5, <3>6, DownOther
      <3> QED
        BY <1>4, <3>7
    <2>2. CASE down' = down
      BY <1>4, <2>2
    <2>3. CASE \E a \in DownPacket : Matches(p, a) /\ Answer(Units(a))
      <3>1. PICK a \in DownPacket : Matches(p, a) /\ Answer(Units(a))
        BY <2>3
      <3>2. Count(down', Answers(A, i)) =
              Count(down, Answers(A, i)) + (IF a.type \in A /\ a.id = i THEN 1 ELSE 0)
        BY <3>1, DownAnswered
      <3>3. a.type \in A /\ a.id = i => p \in S
        BY <1>1, <3>1 DEF Exchange, Matches
      <3> HIDE DEF Count
      <3> QED
        BY <1>4, <3>2, <3>3
    <2> QED
      BY <2>1, <2>2, <2>3, TakesOne DEF p
  <1>6. Count(down', Answers(A, i)) \in Nat
    BY CountType DEF StreamTypes
  <1>7. Traffic(R, A, i)' = Count(up', S) + Count(down', Answers(A, i))
    BY DEF Traffic, S, Requests, Answers
  <1>8. Traffic(R, A, i) = Count(up, S) + Count(down, Answers(A, i))
    BY DEF Traffic, S
  <1> QED
    BY <1>3, <1>4, <1>5, <1>6, <1>7, <1>8

\* Nothing is under way before the answer to CONNECT is read, or in streams that are empty.
LEMMA TrafficNone ==
  ASSUME Base, \/ up = <<>> /\ down = <<>>
               \/ Waits /\ socket = "open" /\ down # <<>>,
         NEW R, NEW A, Exchange(R, A), NEW i
  PROVE  Traffic(R, A, i) = 0
  <1>1. up = <<>>
    BY WaitingReads DEF Base
  <1>2. \A k \in 1 .. Len(down) : down[k].packet.type \notin A
    <2>1. CASE down = <<>>
      BY <2>1
    <2>2. CASE Waits
      <3>1. \A k \in 1 .. Len(down) : down[k].packet.type \in {"CONNACK", "PUBLISH1", "PUBLISH2", "PUBREL"}
        BY <2>2 DEF Base, Handshake
      <3> QED
        BY <3>1 DEF Exchange
    <2> QED
      BY <2>1, <2>2
  <1>3. \A k \in 1 .. Len(up) : up[k] \notin Requests(R, i)
    BY <1>1
  <1>4. \A k \in 1 .. Len(down) : down[k] \notin Answers(A, i)
    BY <1>2 DEF Answers
  <1>5. Count(up, Requests(R, i)) = 0 /\ Count(down, Answers(A, i)) = 0
    BY <1>3, <1>4, CountNone
  <1> QED
    BY <1>5 DEF Traffic

\* A packet that the client writes without reading one.
LEMMA TrafficWritten ==
  ASSUME StreamTypes, NEW p \in UpPacket, Write(<<p>>), down' = down, NEW R, NEW A, NEW i
  PROVE  Traffic(R, A, i)' <= Traffic(R, A, i) + (IF p.type \in R /\ p.id = i THEN 1 ELSE 0)
  <1> DEFINE S == Requests(R, i)
             D == Answers(A, i)
  <1>1. Count(up', S) <= Count(up, S) + (IF p.type \in R /\ p.id = i THEN 1 ELSE 0) /\ Count(up', S) \in Nat
    BY UpWritten
  <1>2. Count(up, S) \in Nat /\ Count(down, D) \in Nat
    BY TrafficType
  <1>3. Traffic(R, A, i)' = Count(up', S) + Count(down, D)
    BY DEF Traffic, Requests, Answers
  <1>4. Traffic(R, A, i) = Count(up, S) + Count(down, D)
    BY DEF Traffic
  <1> HIDE DEF S, D
  <1> QED
    BY <1>1, <1>2, <1>3, <1>4

\* A unit that the client reads, with a packet that it may write then.
LEMMA TrafficRead ==
  ASSUME StreamTypes, down # <<>>, down' = Tail(down), NEW R, NEW A, NEW i,
         up' = up \/ \E p \in UpPacket : Write(<<p>>) /\ p.type \notin R
  PROVE  Traffic(R, A, i)' <=
           Traffic(R, A, i) - (IF Part = "body" /\ Arriving.type \in A /\ Arriving.id = i THEN 1 ELSE 0)
  <1> DEFINE S == Requests(R, i)
             D == Answers(A, i)
             n == IF Part = "body" /\ Arriving.type \in A /\ Arriving.id = i THEN 1 ELSE 0
  <1>1. Count(down', D) = Count(down, D) - n /\ Count(down', D) \in Nat
    BY DownRead
  <1>2. Count(up, S) \in Nat /\ Count(down, D) \in Nat
    BY TrafficType
  <1>3. Count(up', S) <= Count(up, S) /\ Count(up', S) \in Nat
    <2>1. CASE up' = up
      BY <1>2, <2>1
    <2>2. CASE \E p \in UpPacket : Write(<<p>>) /\ p.type \notin R
      <3>1. PICK p \in UpPacket : Write(<<p>>) /\ p.type \notin R
        BY <2>2
      <3>2. Count(up', S) <= Count(up, S) + (IF p.type \in R /\ p.id = i THEN 1 ELSE 0) /\ Count(up', S) \in Nat
        BY <3>1, UpWritten
      <3> HIDE DEF S
      <3> QED
        BY <1>2, <3>1, <3>2
    <2> QED
      BY <2>1, <2>2
  <1>4. Traffic(R, A, i)' = Count(up', S) + Count(down', D)
    BY DEF Traffic, Requests, Answers
  <1>5. Traffic(R, A, i) = Count(up, S) + Count(down, D)
    BY DEF Traffic
  <1>6. n \in {0, 1}
    OBVIOUS
  <1> HIDE DEF S, D, n
  <1>7. Traffic(R, A, i)' <= Traffic(R, A, i) - n
    BY <1>1, <1>2, <1>3, <1>4, <1>5, <1>6
  <1> QED
    BY <1>7 DEF n

\* Reading a body takes its answer out of the traffic, or closes the connection.
LEMMA TrafficReads ==
  ASSUME Types, ReadBody, NEW R, NEW A, Exchange(R, A), NEW i, DropTransport => FALSE
  PROVE  /\ down # <<>>
         /\ Traffic(R, A, i)' <=
              Traffic(R, A, i) - (IF Arriving.type \in A /\ Arriving.id = i THEN 1 ELSE 0)
  <1>t. StreamTypes
    BY DEF Types
  <1>1. down # <<>> /\ Part = "body"
    BY DEF ReadBody, Body, finalize_connack, finalize_suback, finalize_unsuback, finalize_publish,
           finalize_pubrel, finalize_puback, finalize_pubrec, finalize_pubcomp, finalize_pingresp
  <1>2. Arriving \in DownPacket
    BY <1>1, <1>t, Reading
  <1>3. down' = Tail(down)
    BY DEF ReadBody, Consume, finalize_connack, finalize_suback, finalize_unsuback, finalize_publish,
           finalize_pubrel, finalize_puback, finalize_pubrec, finalize_pubcomp, finalize_pingresp,
           closeConnection
  <1>4. up' = up \/ \E p \in UpPacket : Write(<<p>>) /\ p.type \notin R
    <2>r. "PUBREL" \notin R /\ "PUBACK" \notin R /\ "PUBREC" \notin R /\ "PUBCOMP" \notin R
      BY DEF Exchange
    <2>1. CASE finalize_publish
      <3>1. PICK t \in {"PUBACK", "PUBREC"} : Write(<<Packet(t, Arriving.id, None)>>)
        BY <2>1 DEF finalize_publish
      <3>2. Packet(t, Arriving.id, None) \in UpPacket /\ Packet(t, Arriving.id, None).type = t
        BY <1>2, <2>1, DownFields, UpPackets, PacketParts DEF finalize_publish, Body
      <3> QED
        BY <2>r, <3>1, <3>2
    <2>2. CASE finalize_pubrel
      <3>1. Packet("PUBCOMP", Arriving.id, None) \in UpPacket /\ Packet("PUBCOMP", Arriving.id, None).type = "PUBCOMP"
        BY <1>2, <2>2, DownFields, UpPackets, PacketParts DEF finalize_pubrel, Body
      <3> QED
        BY <2>2, <2>r, <3>1 DEF finalize_pubrel
    <2>3. CASE finalize_pubrec
      <3>1. Packet("PUBREL", Arriving.id, None) \in UpPacket /\ Packet("PUBREL", Arriving.id, None).type = "PUBREL"
        BY <1>2, <2>3, DownFields, UpPackets, PacketParts DEF finalize_pubrec, Body
      <3> QED
        BY <2>3, <2>r, <3>1 DEF finalize_pubrec
    <2>4. CASE finalize_connack \/ finalize_suback \/ finalize_unsuback \/ finalize_puback
               \/ finalize_pubcomp \/ finalize_pingresp
      BY <2>4 DEF finalize_connack, finalize_suback, finalize_unsuback, finalize_puback,
         finalize_pubcomp, finalize_pingresp, closeConnection
    <2> QED
      BY <2>1, <2>2, <2>3, <2>4 DEF ReadBody
  <1> QED
    BY <1>t, <1>1, <1>3, <1>4, TrafficRead

\* The calls and the timer that make a request.
Requesting ==
  \/ \E q \in QoS : publish(q)
  \/ \E topic \in Topics : subscribe(topic)
  \/ \E s \in active : unsubscribe(s)
  \/ PingTimer

\* No other step adds to the traffic.
LEMMA TrafficStep ==
  ASSUME Base, [Next]_vars, ~Requesting, NEW R, NEW A, Exchange(R, A), NEW i
  PROVE  Traffic(R, A, i)' <= Traffic(R, A, i)
  <1>t. StreamTypes /\ BrokerTypes /\ Types /\ Phases
    BY DEF Base, Types
  <1>p. StreamTypes'
    BY <1>t, StreamTypesStep
  <1>n. Traffic(R, A, i) \in Nat
    BY <1>t, TrafficType
  <1>u. UNCHANGED <<up, down>> => Traffic(R, A, i)' = Traffic(R, A, i)
    BY DEF Traffic, Requests, Answers
  <1>d. up' = <<>> /\ down' = <<>> => Traffic(R, A, i)' <= Traffic(R, A, i)
    BY <1>n, TrafficEmpty
  <1>e. DropTransport => Traffic(R, A, i)' <= Traffic(R, A, i)
    BY <1>d DEF DropTransport
  <1>1. CASE connectToHost \/ UNCHANGED vars
    BY <1>1, <1>n, <1>u DEF connectToHost, vars, stream
  <1>2. CASE disconnectConnected
    <2>1. CASE DropTransport
      BY <1>e, <2>1
    <2>2. CASE ~DropTransport
      BY <1>2, <1>n, <1>u, <2>2 DEF disconnectConnected, Write
    <2> QED
      BY <2>1, <2>2
  <1>3. CASE disconnectConnecting
    BY <1>3, <1>e DEF disconnectConnecting
  <1>4. CASE transportConnectionEstablished
    <2> DEFINE c == Packet("CONNECT", None, None)
    <2>1. c \in UpPacket /\ c.type = "CONNECT" /\ "CONNECT" \notin R
      BY UpPackets, PacketParts DEF Exchange
    <2>2. Write(<<c>>) /\ down' = down
      BY <1>4 DEF transportConnectionEstablished
    <2> HIDE DEF c
    <2>3. Traffic(R, A, i)' <= Traffic(R, A, i) + (IF c.type \in R /\ c.id = i THEN 1 ELSE 0)
      BY <1>t, <2>1, <2>2, TrafficWritten
    <2> QED
      BY <1>n, <2>1, <2>3
  <1>5. CASE transportError
    BY <1>5, <1>e DEF transportError, closeConnection
  <1>6. CASE ReadHeader \/ Misread
    <2>1. CASE ProtocolViolation
      BY <1>e, <2>1 DEF ProtocolViolation, closeConnection
    <2>2. CASE ~ProtocolViolation
      <3>1. down # <<>> /\ down' = Tail(down) /\ up' = up /\ Part = "header"
        BY <1>6, <2>2 DEF ReadHeader, Misread
      <3>2. Traffic(R, A, i)' <=
              Traffic(R, A, i) - (IF Part = "body" /\ Arriving.type \in A /\ Arriving.id = i THEN 1 ELSE 0)
        BY <1>t, <3>1, TrafficRead
      <3> QED
        BY <1>n, <3>1, <3>2
    <2> QED
      BY <2>1, <2>2
  <1>7. CASE ReadBody
    <2>1. CASE DropTransport
      BY <1>e, <2>1
    <2>2. CASE ~DropTransport
      <3>1. Traffic(R, A, i)' <=
              Traffic(R, A, i) - (IF Arriving.type \in A /\ Arriving.id = i THEN 1 ELSE 0)
        BY <1>7, <1>t, <2>2, TrafficReads
      <3>2. Traffic(R, A, i)' \in Int
        <4>1. Count(up', Requests(R, i)) \in Nat /\ Count(down', Answers(A, i)) \in Nat
          BY <1>p, CountType DEF StreamTypes
        <4>2. Traffic(R, A, i)' = Count(up', Requests(R, i)) + Count(down', Answers(A, i))
          BY DEF Traffic, Requests, Answers
        <4> QED
          BY <4>1, <4>2
      <3> QED
        BY <1>n, <3>1, <3>2
    <2> QED
      BY <2>1, <2>2
  <1>8. CASE BrokerTakes
    BY <1>8, <1>t, <1>p, TrafficTaken
  <1>9. CASE FallSilent
    BY <1>9, <1>d DEF FallSilent
  <1>10. CASE \E n \in Incoming, topic \in Topics, type \in {"PUBLISH1", "PUBLISH2"} :
                BrokerPublishes(n, topic, type)
    <2> PICK n \in Incoming, topic \in Topics, type \in {"PUBLISH1", "PUBLISH2"} :
               BrokerPublishes(n, topic, type)
      BY <1>10
    <2> DEFINE a == Packet(type, n, topic)
    <2>1. a \in DownPacket /\ a.type \notin A
      BY DownPackets, PacketParts DEF Exchange
    <2>2. Answer(Units(a)) /\ up' = up
      BY DEF BrokerPublishes
    <2> HIDE DEF a
    <2>3. Count(down', Answers(A, i)) =
            Count(down, Answers(A, i)) + (IF a.type \in A /\ a.id = i THEN 1 ELSE 0)
      BY <1>t, <2>1, <2>2, DownAnswered
    <2>4. Count(down, Answers(A, i)) \in Nat /\ Count(up, Requests(R, i)) \in Nat
      BY <1>t, TrafficType
    <2>5. Count(down', Answers(A, i)) = Count(down, Answers(A, i))
      BY <2>1, <2>3, <2>4
    <2>6. Traffic(R, A, i)' = Traffic(R, A, i)
      BY <2>2, <2>5 DEF Traffic, Requests, Answers
    <2> QED
      BY <1>n, <2>6
  <1> QED
    BY <1>1, <1>2, <1>3, <1>4, <1>5, <1>6, <1>7, <1>8, <1>9, <1>10, Actions DEF Requesting, ReadBody

-----------------------------------------------------------------------------
(* What is under way is waited for. *)

\* No more answers to pings come than pings are counted.
PingsCounted == Traffic({"PINGREQ"}, {"PINGRESP"}, None) <= pingTimeout

Occupied(table, i) == IF table[i] # None THEN 1 ELSE 0

\* An identifier has one request or one answer under way if it is waited for, else none.
OneExchange(requests, answers, table) ==
  \A i \in Ids : Traffic(requests, answers, i) <= Occupied(table, i)

SubscribesOnce == OneExchange({"SUBSCRIBE"}, {"SUBACK"}, pendingSubscriptionAck)
UnsubscribesOnce == OneExchange({"UNSUBSCRIBE"}, {"UNSUBACK"}, pendingUnsubscriptions)
PublishesOnce == OneExchange({"PUBLISH1", "PUBLISH2"}, {"PUBACK", "PUBREC"}, pendingMessages)

Exchanges == ~exhausted => SubscribesOnce /\ UnsubscribesOnce /\ PublishesOnce

\* What each call and the timer write.
LEMMA Requested ==
  ASSUME Types
  PROVE  /\ \A q \in QoS : publish(q) => \E p \in UpPacket :
              /\ Write(<<p>>) /\ p.type \in {"PUBLISH0", "PUBLISH1", "PUBLISH2"} /\ p.value = published'
              /\ down' = down
              /\ p.type # "PUBLISH0" => /\ q # 0 /\ NextIdentifier /\ p.id = counter'
              /\ p.type = "PUBLISH0" => q = 0
         /\ \A topic \in Topics : subscribe(topic) => \E p \in UpPacket :
              Write(<<p>>) /\ p.type = "SUBSCRIBE" /\ p.id = counter' /\ p.value = topic /\ down' = down
         /\ \A s \in active : unsubscribe(s) /\ internal = "BrokerConnected" => \E p \in UpPacket :
              /\ Write(<<p>>) /\ p.type = "UNSUBSCRIBE" /\ p.id = counter'
              /\ p.value = subscriptions[s].topic /\ down' = down
         /\ PingTimer /\ ~PingsUnanswered => \E p \in UpPacket :
              Write(<<p>>) /\ p.type = "PINGREQ" /\ p.id = None /\ down' = down
  <1>t. StreamTypes /\ BrokerTypes /\ TableTypes
    BY DEF Types
  <1>1. ASSUME NEW q \in QoS, publish(q)
        PROVE  \E p \in UpPacket :
                 /\ Write(<<p>>) /\ p.type \in {"PUBLISH0", "PUBLISH1", "PUBLISH2"} /\ p.value = published'
                 /\ down' = down
                 /\ p.type # "PUBLISH0" => /\ q # 0 /\ NextIdentifier /\ p.id = counter'
                 /\ p.type = "PUBLISH0" => q = 0
    <2>1. published' \in Messages /\ down' = down
      BY <1>1, <1>t, MqttAssumption DEF publish, ExchangesLeft, BrokerTypes, Messages, TableTypes
    <2>2. CASE q = 0
      <3>1. Packet("PUBLISH0", None, published') \in UpPacket /\ Write(<<Packet("PUBLISH0", None, published')>>)
        BY <1>1, <2>1, <2>2, UpPackets DEF publish
      <3> QED
        BY <2>1, <2>2, <3>1, PacketParts
    <2>3. CASE q # 0
      <3>1. counter' \in Ids /\ NextIdentifier
        BY <1>1, <1>t, <2>3, IdentifierGiven DEF publish, TableTypes
      <3>2. PICK t \in {"PUBLISH1", "PUBLISH2"} : Write(<<Packet(t, counter', published')>>)
        BY <1>1, <2>3 DEF publish
      <3>3. Packet(t, counter', published') \in UpPacket
        BY <2>1, <3>1, UpPackets
      <3> QED
        BY <2>1, <2>3, <3>1, <3>2, <3>3, PacketParts
    <2> QED
      BY <2>2, <2>3
  <1>2. ASSUME NEW topic \in Topics, subscribe(topic)
        PROVE  \E p \in UpPacket :
                 Write(<<p>>) /\ p.type = "SUBSCRIBE" /\ p.id = counter' /\ p.value = topic /\ down' = down
    <2>1. Packet("SUBSCRIBE", counter', topic) \in UpPacket
      BY <1>2, <1>t, IdentifierGiven, UpPackets DEF subscribe, TableTypes
    <2> QED
      BY <1>2, <2>1, PacketParts DEF subscribe
  <1>3. ASSUME NEW s \in active, unsubscribe(s), internal = "BrokerConnected"
        PROVE  \E p \in UpPacket :
                 /\ Write(<<p>>) /\ p.type = "UNSUBSCRIBE" /\ p.id = counter'
                 /\ p.value = subscriptions[s].topic /\ down' = down
    <2>1. Packet("UNSUBSCRIBE", counter', subscriptions[s].topic) \in UpPacket
      BY <1>3, <1>t, IdentifierGiven, Objects, UpPackets DEF unsubscribe, TableTypes
    <2> QED
      BY <1>3, <2>1, PacketParts DEF unsubscribe
  <1>4. ASSUME PingTimer, ~PingsUnanswered
        PROVE  \E p \in UpPacket : Write(<<p>>) /\ p.type = "PINGREQ" /\ p.id = None /\ down' = down
    BY <1>4, UpPackets, PacketParts DEF PingTimer
  <1> QED
    BY <1>1, <1>2, <1>3, <1>4

\* A timer that gives the connection up leaves nothing under way.
LEMMA TrafficDropped ==
  ASSUME DropTransport, NEW R, NEW A, NEW i
  PROVE  Traffic(R, A, i)' = 0
  BY TrafficEmpty DEF DropTransport

\* A request is a new one for its identifier.
LEMMA ExchangeRequest ==
  ASSUME StreamTypes, NEW R, NEW A, NEW old, NEW new,
         NEW p \in UpPacket, Write(<<p>>), down' = down,
         \A i \in Ids : Traffic(R, A, i) <= Occupied(old, i),
         \A i \in Ids : old[i] # None => new[i] # None,
         p.type \in R => old[p.id] = None /\ new[p.id] # None
  PROVE  \A i \in Ids : Traffic(R, A, i)' <= Occupied(new, i)
  <1> SUFFICES ASSUME NEW i \in Ids PROVE Traffic(R, A, i)' <= Occupied(new, i)
    OBVIOUS
  <1>1. Traffic(R, A, i)' <= Traffic(R, A, i) + (IF p.type \in R /\ p.id = i THEN 1 ELSE 0)
    BY TrafficWritten
  <1>2. Traffic(R, A, i) \in Nat /\ Traffic(R, A, i) <= Occupied(old, i)
    BY TrafficType
  <1>3. Traffic(R, A, i)' \in Nat
    <2>1. Count(up', Requests(R, i)) \in Nat /\ Count(down, Answers(A, i)) \in Nat
      BY UpWritten, TrafficType
    <2>2. Traffic(R, A, i)' = Count(up', Requests(R, i)) + Count(down, Answers(A, i))
      BY DEF Traffic, Requests, Answers
    <2> QED
      BY <2>1, <2>2
  <1>4. CASE p.type \in R /\ p.id = i
    <2>1. Traffic(R, A, i) = 0 /\ Occupied(new, i) = 1
      BY <1>2, <1>4 DEF Occupied
    <2> QED
      BY <1>1, <1>3, <1>4, <2>1
  <1>5. CASE ~(p.type \in R /\ p.id = i)
    <2>1. Occupied(old, i) \in {0, 1} /\ Occupied(new, i) \in {0, 1} /\ Occupied(old, i) <= Occupied(new, i)
      BY DEF Occupied
    <2> QED
      BY <1>1, <1>2, <1>3, <1>5, <2>1
  <1> QED
    BY <1>4, <1>5

\* An entry goes with the last of its traffic.
LEMMA ExchangeStep ==
  ASSUME Base, [Next]_vars, ~Requesting, NEW R, NEW A, Exchange(R, A), NEW old, NEW new,
         \A i \in Ids : Traffic(R, A, i) <= Occupied(old, i),
         \A i \in Ids : \/ old[i] # None => new[i] # None
                        \/ Traffic(R, A, i) = 0
                        \/ ReadBody /\ Arriving.type \in A /\ Arriving.id = i
  PROVE  \A i \in Ids : Traffic(R, A, i)' <= Occupied(new, i)
  <1> SUFFICES ASSUME NEW i \in Ids PROVE Traffic(R, A, i)' <= Occupied(new, i)
    OBVIOUS
  <1>t. Types /\ StreamTypes
    BY DEF Base, Types
  <1>1. Traffic(R, A, i)' <= Traffic(R, A, i)
    BY TrafficStep
  <1>2. Traffic(R, A, i) \in Nat /\ Traffic(R, A, i) <= Occupied(old, i)
    BY <1>t, TrafficType
  <1>3. Traffic(R, A, i)' \in Nat
    <2>1. StreamTypes'
      BY <1>t, StreamTypesStep
    <2>2. Count(up', Requests(R, i)) \in Nat /\ Count(down', Answers(A, i)) \in Nat
      BY <2>1, CountType DEF StreamTypes
    <2>3. Traffic(R, A, i)' = Count(up', Requests(R, i)) + Count(down', Answers(A, i))
      BY DEF Traffic, Requests, Answers
    <2> QED
      BY <2>2, <2>3
  <1>4. Occupied(old, i) \in {0, 1} /\ Occupied(new, i) \in {0, 1}
    BY DEF Occupied
  <1>5. CASE old[i] # None => new[i] # None
    <2>1. Occupied(old, i) <= Occupied(new, i)
      BY <1>5 DEF Occupied
    <2> QED
      BY <1>1, <1>2, <1>3, <1>4, <2>1
  <1>6. CASE Traffic(R, A, i) = 0
    BY <1>1, <1>3, <1>4, <1>6
  <1>7. CASE ReadBody /\ Arriving.type \in A /\ Arriving.id = i
    <2>1. CASE DropTransport
      BY <1>4, <2>1, TrafficDropped
    <2>2. CASE ~DropTransport
      <3>1. Traffic(R, A, i)' <=
              Traffic(R, A, i) - (IF Arriving.type \in A /\ Arriving.id = i THEN 1 ELSE 0)
        BY <1>7, <1>t, <2>2, TrafficReads
      <3> QED
        BY <1>2, <1>3, <1>4, <1>7, <3>1
    <2> QED
      BY <2>1, <2>2
  <1> QED
    BY <1>5, <1>6, <1>7

\* The pings that are counted are those not answered yet.
LEMMA PingsCountedStep == Base /\ PingsCounted /\ [Next]_vars => PingsCounted'
  <1> SUFFICES ASSUME Base, PingsCounted, [Next]_vars PROVE PingsCounted'
    OBVIOUS
  <1> DEFINE R == {"PINGREQ"}
             A == {"PINGRESP"}
  <1>t. Types /\ StreamTypes /\ ClientTypes /\ Phases
    BY DEF Base, Types
  <1>x. Exchange(R, A)
    BY ExchangesAre
  <1>n. Traffic(R, A, None) \in Nat /\ Traffic(R, A, None) <= pingTimeout /\ pingTimeout \in Int
    BY <1>t, TrafficType DEF PingsCounted, ClientTypes
  <1>p. Traffic(R, A, None)' \in Nat
    <2>1. StreamTypes'
      BY <1>t, StreamTypesStep
    <2>2. Count(up', Requests(R, None)) \in Nat /\ Count(down', Answers(A, None)) \in Nat
      BY <2>1, CountType DEF StreamTypes
    <2>3. Traffic(R, A, None)' = Count(up', Requests(R, None)) + Count(down', Answers(A, None))
      BY DEF Traffic, Requests, Answers
    <2> QED
      BY <2>2, <2>3
  <1>s. Traffic(R, A, None)' <= Traffic(R, A, None) /\ pingTimeout' = pingTimeout => PingsCounted'
    BY <1>n, <1>p DEF PingsCounted
  <1>d. ASSUME DropTransport PROVE PingsCounted'
    <2>1. pingTimeout' = 0
      BY <1>d DEF DropTransport, StopPing
    <2>2. Traffic(R, A, None)' = 0
      BY <1>d, TrafficDropped
    <2> QED
      BY <2>1, <2>2 DEF PingsCounted
  <1>w. ASSUME NEW p \in UpPacket, Write(<<p>>), down' = down, p.type # "PINGREQ", pingTimeout' = pingTimeout
        PROVE  PingsCounted'
    <2>1. Traffic(R, A, None)' <= Traffic(R, A, None) + (IF p.type \in R /\ p.id = None THEN 1 ELSE 0)
      BY <1>t, <1>w, TrafficWritten
    <2>2. p.type \notin R
      BY <1>w
    <2> HIDE DEF R, A
    <2> QED
      BY <1>n, <1>s, <1>w, <2>1, <2>2
  <1> USE DEF ping
  <1> HIDE DEF R, A
  <1>1. CASE \E q \in QoS : publish(q)
    <2> PICK q \in QoS : publish(q)
      BY <1>1
    <2>1. PICK p \in UpPacket :
            Write(<<p>>) /\ p.type \in {"PUBLISH0", "PUBLISH1", "PUBLISH2"} /\ down' = down
      BY <1>t, Requested
    <2>2. pingTimeout' = pingTimeout
      BY DEF publish
    <2> QED
      BY <1>w, <2>1, <2>2
  <1>2. CASE \E topic \in Topics : subscribe(topic)
    <2> PICK topic \in Topics : subscribe(topic)
      BY <1>2
    <2>1. PICK p \in UpPacket : Write(<<p>>) /\ p.type = "SUBSCRIBE" /\ down' = down
      BY <1>t, Requested
    <2>2. pingTimeout' = pingTimeout
      BY DEF subscribe
    <2> QED
      BY <1>w, <2>1, <2>2
  <1>3. CASE \E s \in active : unsubscribe(s)
    <2> PICK s \in active : unsubscribe(s)
      BY <1>3
    <2>1. pingTimeout' = pingTimeout /\ down' = down
      BY DEF unsubscribe
    <2>2. CASE internal # "BrokerConnected"
      <3>1. up' = up
        BY <2>2 DEF unsubscribe
      <3>2. Traffic(R, A, None)' = Traffic(R, A, None)
        BY <2>1, <3>1 DEF Traffic, Requests, Answers, R, A
      <3> QED
        BY <1>n, <1>s, <2>1, <3>2
    <2>3. CASE internal = "BrokerConnected"
      <3>1. PICK p \in UpPacket : Write(<<p>>) /\ p.type = "UNSUBSCRIBE" /\ down' = down
        BY <1>t, <2>3, Requested
      <3> QED
        BY <1>w, <2>1, <3>1
    <2> QED
      BY <2>2, <2>3
  <1>4. CASE PingTimer
    <2>1. CASE PingsUnanswered
      BY <1>4, <1>d, <2>1 DEF PingTimer, closeConnection
    <2>2. CASE ~PingsUnanswered
      <3>1. PICK p \in UpPacket : Write(<<p>>) /\ p.type = "PINGREQ" /\ p.id = None /\ down' = down
        BY <1>4, <1>t, <2>2, Requested
      <3>2. Traffic(R, A, None)' <= Traffic(R, A, None) + (IF p.type \in R /\ p.id = None THEN 1 ELSE 0)
        BY <1>t, <3>1, TrafficWritten
      <3>3. pingTimeout' = pingTimeout + 1
        BY <1>4, <2>2 DEF PingTimer, CountPing
      <3>4. Traffic(R, A, None)' <= pingTimeout'
        BY <1>n, <1>p, <3>2, <3>3
      <3> QED
        BY <3>4 DEF PingsCounted, R, A
    <2> QED
      BY <2>1, <2>2
  <1>5. CASE ~Requesting
    <2>1. Traffic(R, A, None)' <= Traffic(R, A, None)
      BY <1>5, <1>x, TrafficStep
    <2>2. CASE finalize_pingresp
      <3>1. down # <<>> /\ Arriving.type = "PINGRESP" /\ Arriving \in DownPacket /\ pingTimeout' = pingTimeout - 1
        BY <1>t, <2>2, Reading DEF finalize_pingresp, Body
      <3>2. Arriving.id = None
        BY <3>1, DownFields
      <3>3. CASE DropTransport
        BY <1>d, <3>3
      <3>4. CASE ~DropTransport
        <4>1. Traffic(R, A, None)' <=
                Traffic(R, A, None) - (IF Arriving.type \in A /\ Arriving.id = None THEN 1 ELSE 0)
          BY <1>t, <1>x, <2>2, <3>4, TrafficReads DEF ReadBody
        <4>2. Arriving.type \in A
          BY <3>1 DEF A
        <4>3. Traffic(R, A, None)' <= pingTimeout'
          BY <1>n, <1>p, <3>1, <3>2, <4>1, <4>2
        <4> QED
          BY <4>3 DEF PingsCounted, R, A
      <3> QED
        BY <3>3, <3>4
    <2>3. CASE DropTransport
      BY <1>d, <2>3
    <2>4. CASE disconnectConnected /\ ~DropTransport
      <3>1. silent /\ pingTimeout' = 0 /\ down' = down /\ Write(<<Packet("DISCONNECT", None, None)>>)
        BY <2>4 DEF disconnectConnected, StopPing
      <3>2. up' = <<>> /\ down' = <<>>
        BY <1>t, <3>1 DEF Phases, Write
      <3>3. Traffic(R, A, None)' = 0
        BY <3>2, TrafficEmpty
      <3> QED
        BY <3>1, <3>3 DEF PingsCounted, R, A
    <2>5. CASE pingTimeout' = pingTimeout
      BY <1>s, <2>1, <2>5
    <2>6. \/ finalize_pingresp \/ DropTransport \/ (disconnectConnected /\ ~DropTransport)
          \/ pingTimeout' = pingTimeout
      <3>1. connectToHost \/ transportConnectionEstablished \/ FallSilent => pingTimeout' = pingTimeout
        BY DEF connectToHost, transportConnectionEstablished, FallSilent
      <3>2. disconnectConnecting \/ transportError => DropTransport
        BY DEF disconnectConnecting, transportError, closeConnection
      <3>3. ReadHeader \/ Misread => DropTransport \/ pingTimeout' = pingTimeout
        BY DEF ReadHeader, Misread, ProtocolViolation, closeConnection
      <3>4. finalize_connack => DropTransport \/ pingTimeout' = pingTimeout
        BY DEF finalize_connack, closeConnection
      <3>5. finalize_suback \/ finalize_unsuback \/ finalize_publish => pingTimeout' = pingTimeout
        BY DEF finalize_suback, finalize_unsuback, finalize_publish
      <3>6. finalize_pubrel \/ finalize_puback \/ finalize_pubrec \/ finalize_pubcomp
              => pingTimeout' = pingTimeout
        BY DEF finalize_pubrel, finalize_puback, finalize_pubrec, finalize_pubcomp
      <3>7. BrokerTakes => pingTimeout' = pingTimeout
        BY DEF BrokerTakes
      <3>8. (\E n \in Incoming, topic \in Topics, type \in {"PUBLISH1", "PUBLISH2"} :
               BrokerPublishes(n, topic, type)) => pingTimeout' = pingTimeout
        BY DEF BrokerPublishes
      <3>9. UNCHANGED vars => pingTimeout' = pingTimeout
        BY DEF vars
      <3> QED
        <4>1. \/ connectToHost \/ disconnectConnected \/ disconnectConnecting
              \/ transportConnectionEstablished \/ transportError \/ ReadHeader \/ Misread
              \/ finalize_connack \/ finalize_suback \/ finalize_unsuback \/ finalize_publish
              \/ finalize_pubrel \/ finalize_puback \/ finalize_pubrec \/ finalize_pubcomp
              \/ finalize_pingresp \/ BrokerTakes \/ FallSilent
              \/ \E n \in Incoming, topic \in Topics, type \in {"PUBLISH1", "PUBLISH2"} :
                   BrokerPublishes(n, topic, type)
              \/ UNCHANGED vars
          BY <1>5, Actions DEF Requesting
        <4> QED
          BY <3>1, <3>2, <3>3, <3>4, <3>5, <3>6, <3>7, <3>8, <3>9, <4>1
    <2> QED
      BY <2>2, <2>3, <2>4, <2>5, <2>6
  <1> QED
    BY <1>1, <1>2, <1>3, <1>4, <1>5 DEF Requesting

\* While nothing is under way the tables may be emptied; else an entry goes with its answer.
LEMMA EntriesKept ==
  ASSUME Base, [Next]_vars, ~Requesting
  PROVE  \/ up = <<>> /\ down = <<>>
         \/ Waits /\ socket = "open" /\ down # <<>>
         \/ \A i \in Ids :
              /\ pendingSubscriptionAck[i] # None /\ pendingSubscriptionAck'[i] = None =>
                   ReadBody /\ Arriving.type = "SUBACK" /\ Arriving.id = i
              /\ pendingUnsubscriptions[i] # None /\ pendingUnsubscriptions'[i] = None =>
                   ReadBody /\ Arriving.type = "UNSUBACK" /\ Arriving.id = i
              /\ pendingMessages[i] # None /\ pendingMessages'[i] = None =>
                   ReadBody /\ Arriving.type \in {"PUBACK", "PUBREC"} /\ Arriving.id = i
  <1>t. TableTypes /\ StreamTypes /\ Phases
    BY DEF Base, Types
  <1>1. CASE connectToHost
    BY <1>1, <1>t DEF connectToHost, Phases
  <1>2. CASE socket = "open" /\ finalize_connack
    <2>1. down # <<>> /\ Arriving.type = "CONNACK"
      BY <1>2 DEF finalize_connack, Body
    <2>2. 1 \in 1 .. Len(down) /\ Head(down) = down[1]
      BY <1>t, <2>1 DEF StreamTypes
    <2>3. Waits
      BY <2>1, <2>2 DEF Base, Handshake, NoConnack, Arriving
    <2> QED
      BY <1>2, <2>1, <2>3
  <1>3. CASE socket = "open" /\ finalize_suback
    <2>1. Arriving.type = "SUBACK" /\ \A i \in Ids : i # Arriving.id =>
            pendingSubscriptionAck'[i] = pendingSubscriptionAck[i]
      BY <1>3, <1>t DEF finalize_suback, Body, TableTypes
    <2> QED
      BY <1>3, <2>1 DEF finalize_suback, tables, ReadBody
  <1>4. CASE socket = "open" /\ finalize_unsuback
    <2>1. Arriving.type = "UNSUBACK" /\ \A i \in Ids : i # Arriving.id =>
            pendingUnsubscriptions'[i] = pendingUnsubscriptions[i]
      BY <1>4, <1>t DEF finalize_unsuback, Body, TableTypes
    <2> QED
      BY <1>4, <2>1 DEF finalize_unsuback, tables, ReadBody
  <1>5. CASE socket = "open" /\ (finalize_puback \/ finalize_pubrec)
    <2>1. Arriving.type \in {"PUBACK", "PUBREC"} /\ \A i \in Ids : i # Arriving.id =>
            pendingMessages'[i] = pendingMessages[i]
      BY <1>5, <1>t DEF finalize_puback, finalize_pubrec, Body, TableTypes, Taken, tables
    <2>2. pendingSubscriptionAck' = pendingSubscriptionAck /\ pendingUnsubscriptions' = pendingUnsubscriptions
      BY <1>5 DEF finalize_puback, finalize_pubrec, subVars
    <2> QED
      BY <1>5, <2>1, <2>2 DEF ReadBody
  <1>6. CASE UNCHANGED <<pendingSubscriptionAck, pendingUnsubscriptions, pendingMessages>>
    BY <1>6
  <1>7. \/ connectToHost
        \/ socket = "open" /\ finalize_connack
        \/ socket = "open" /\ finalize_suback
        \/ socket = "open" /\ finalize_unsuback
        \/ socket = "open" /\ (finalize_puback \/ finalize_pubrec)
        \/ UNCHANGED <<pendingSubscriptionAck, pendingUnsubscriptions, pendingMessages>>
    <2> DEFINE Same == UNCHANGED <<pendingSubscriptionAck, pendingUnsubscriptions, pendingMessages>>
    <2>1. disconnectConnected \/ disconnectConnecting \/ transportConnectionEstablished
            \/ transportError \/ FallSilent \/ UNCHANGED vars => Same
      BY DEF disconnectConnected, disconnectConnecting, transportConnectionEstablished,
             transportError, FallSilent, vars, tables, subVars
    <2>2. ReadHeader \/ Misread => Same
      BY DEF ReadHeader, Misread, ProtocolViolation, tables, subVars
    <2>3. finalize_publish \/ finalize_pubrel \/ finalize_pubcomp \/ finalize_pingresp => Same
      BY DEF finalize_publish, finalize_pubrel, finalize_pubcomp, finalize_pingresp, tables, subVars
    <2>4. BrokerTakes => Same
      BY DEF BrokerTakes, tables, subVars
    <2>5. (\E n \in Incoming, topic \in Topics, type \in {"PUBLISH1", "PUBLISH2"} :
             BrokerPublishes(n, topic, type)) => Same
      BY DEF BrokerPublishes, tables, subVars
    <2> HIDE DEF Same
    <2>6. \/ connectToHost
          \/ socket = "open" /\ finalize_connack
          \/ socket = "open" /\ finalize_suback
          \/ socket = "open" /\ finalize_unsuback
          \/ socket = "open" /\ (finalize_puback \/ finalize_pubrec)
          \/ Same
      BY <2>1, <2>2, <2>3, <2>4, <2>5, Actions DEF Requesting
    <2> QED
      BY <2>6 DEF Same
  <1> QED
    BY <1>1, <1>2, <1>3, <1>4, <1>5, <1>6, <1>7

\* Identifiers are given out twice for ever once they were.
LEMMA ExhaustedStays == Types /\ [Next]_vars /\ ~exhausted' => ~exhausted
  <1> SUFFICES ASSUME Types, [Next]_vars, exhausted PROVE exhausted'
    OBVIOUS
  <1> DEFINE Same == exhausted' = exhausted
  <1>1. (\E q \in QoS : publish(q)) \/ (\E topic \in Topics : subscribe(topic))
          \/ (\E s \in active : unsubscribe(s)) => exhausted'
    BY Zenon DEF publish, subscribe, unsubscribe, NextIdentifier, ids
  <1>2. connectToHost \/ disconnectConnected \/ disconnectConnecting \/ PingTimer
          \/ transportConnectionEstablished \/ transportError \/ FallSilent \/ UNCHANGED vars => Same
    BY DEF connectToHost, disconnectConnected, disconnectConnecting, PingTimer,
           transportConnectionEstablished, transportError, FallSilent, vars, ids
  <1>3. ReadHeader \/ Misread \/ finalize_connack \/ finalize_suback \/ finalize_unsuback => Same
    BY DEF ReadHeader, Misread, ProtocolViolation, finalize_connack, finalize_suback,
           finalize_unsuback, ids
  <1>4. finalize_publish \/ finalize_pubrel \/ finalize_puback \/ finalize_pubrec
          \/ finalize_pubcomp \/ finalize_pingresp => Same
    BY DEF finalize_publish, finalize_pubrel, finalize_puback, finalize_pubrec, finalize_pubcomp,
           finalize_pingresp, ids
  <1>5. BrokerTakes => Same
    BY DEF BrokerTakes, ids
  <1>6. (\E n \in Incoming, topic \in Topics, type \in {"PUBLISH1", "PUBLISH2"} :
           BrokerPublishes(n, topic, type)) => Same
    BY DEF BrokerPublishes, ids
  <1> HIDE DEF Same
  <1>7. exhausted' \/ Same
    BY <1>1, <1>2, <1>3, <1>4, <1>5, <1>6, Actions
  <1> QED
    BY <1>7, Zenon DEF Same

\* An identifier given out is new in every table as long as there was one to give.
LEMMA NewIdentifier ==
  ASSUME NextIdentifier, ~exhausted'
  PROVE  /\ pendingSubscriptionAck[counter'] = None /\ pendingUnsubscriptions[counter'] = None
         /\ pendingMessages[counter'] = None /\ pendingReleaseMessages[counter'] = None
  <1>1. ~InUse(counter')
    BY Zenon DEF NextIdentifier
  <1> QED
    BY <1>1 DEF InUse

\* Of every exchange with a table at most one packet is under way per identifier.
LEMMA ExchangesStep == Base /\ Exchanges /\ [Next]_vars => Exchanges'
  <1> SUFFICES ASSUME Base, Exchanges, [Next]_vars, ~exhausted'
               PROVE  (SubscribesOnce /\ UnsubscribesOnce /\ PublishesOnce)'
    BY DEF Exchanges
  <1>t. Types /\ StreamTypes /\ TableTypes
    BY DEF Base, Types
  <1>e. ~exhausted /\ SubscribesOnce /\ UnsubscribesOnce /\ PublishesOnce
    BY <1>t, ExhaustedStays DEF Exchanges
  <1>x. /\ Exchange({"SUBSCRIBE"}, {"SUBACK"})
        /\ Exchange({"UNSUBSCRIBE"}, {"UNSUBACK"})
        /\ Exchange({"PUBLISH1", "PUBLISH2"}, {"PUBACK", "PUBREC"})
    BY ExchangesAre
  <1>d. ASSUME DropTransport PROVE (SubscribesOnce /\ UnsubscribesOnce /\ PublishesOnce)'
    BY <1>d, TrafficDropped DEF SubscribesOnce, UnsubscribesOnce, PublishesOnce, OneExchange, Occupied
  <1>w. ASSUME NEW p \in UpPacket, Write(<<p>>), down' = down,
               \A i \in Ids : /\ pendingSubscriptionAck[i] # None => pendingSubscriptionAck'[i] # None
                              /\ pendingUnsubscriptions[i] # None => pendingUnsubscriptions'[i] # None
                              /\ pendingMessages[i] # None => pendingMessages'[i] # None,
               p.type = "SUBSCRIBE" =>
                 pendingSubscriptionAck[p.id] = None /\ pendingSubscriptionAck'[p.id] # None,
               p.type = "UNSUBSCRIBE" =>
                 pendingUnsubscriptions[p.id] = None /\ pendingUnsubscriptions'[p.id] # None,
               p.type \in {"PUBLISH1", "PUBLISH2"} =>
                 pendingMessages[p.id] = None /\ pendingMessages'[p.id] # None
        PROVE  (SubscribesOnce /\ UnsubscribesOnce /\ PublishesOnce)'
    <2>1. \A i \in Ids : Traffic({"SUBSCRIBE"}, {"SUBACK"}, i)' <= Occupied(pendingSubscriptionAck', i)
      <3>1. p.type \in {"SUBSCRIBE"} =>
              pendingSubscriptionAck[p.id] = None /\ pendingSubscriptionAck'[p.id] # None
        BY <1>w
      <3>2. \A i \in Ids : Traffic({"SUBSCRIBE"}, {"SUBACK"}, i) <= Occupied(pendingSubscriptionAck, i)
        BY <1>e DEF SubscribesOnce, OneExchange
      <3> QED
        BY <1>t, <1>w, <3>1, <3>2, ExchangeRequest
    <2>2. \A i \in Ids : Traffic({"UNSUBSCRIBE"}, {"UNSUBACK"}, i)' <= Occupied(pendingUnsubscriptions', i)
      <3>1. p.type \in {"UNSUBSCRIBE"} =>
              pendingUnsubscriptions[p.id] = None /\ pendingUnsubscriptions'[p.id] # None
        BY <1>w
      <3>2. \A i \in Ids : Traffic({"UNSUBSCRIBE"}, {"UNSUBACK"}, i) <= Occupied(pendingUnsubscriptions, i)
        BY <1>e DEF UnsubscribesOnce, OneExchange
      <3> QED
        BY <1>t, <1>w, <3>1, <3>2, ExchangeRequest
    <2>3. \A i \in Ids :
            Traffic({"PUBLISH1", "PUBLISH2"}, {"PUBACK", "PUBREC"}, i)' <= Occupied(pendingMessages', i)
      <3>1. \A i \in Ids :
              Traffic({"PUBLISH1", "PUBLISH2"}, {"PUBACK", "PUBREC"}, i) <= Occupied(pendingMessages, i)
        BY <1>e DEF PublishesOnce, OneExchange
      <3> QED
        BY <1>t, <1>w, <3>1, ExchangeRequest
    <2> QED
      BY <2>1, <2>2, <2>3 DEF SubscribesOnce, UnsubscribesOnce, PublishesOnce, OneExchange, Occupied
  <1>1. CASE \E q \in QoS : publish(q)
    <2> PICK q \in QoS : publish(q)
      BY <1>1
    <2>1. PICK p \in UpPacket :
            /\ Write(<<p>>) /\ p.type \in {"PUBLISH0", "PUBLISH1", "PUBLISH2"} /\ p.value = published'
            /\ down' = down
            /\ p.type # "PUBLISH0" => /\ q # 0 /\ NextIdentifier /\ p.id = counter'
            /\ p.type = "PUBLISH0" => q = 0
      BY <1>t, Requested
    <2>2. UNCHANGED <<pendingSubscriptionAck, pendingUnsubscriptions>>
      BY DEF publish, subVars
    <2>3. CASE q = 0
      <3>1. UNCHANGED pendingMessages /\ p.type = "PUBLISH0"
        BY <2>1, <2>3 DEF publish
      <3> QED
        BY <1>w, <2>1, <2>2, <3>1
    <2>4. CASE q # 0
      <3>1. NextIdentifier /\ p.id = counter' /\ p.type # "SUBSCRIBE" /\ p.type # "UNSUBSCRIBE"
        BY <2>1, <2>4
      <3>2. counter' \in Ids /\ pendingMessages[counter'] = None
        BY <1>t, <3>1, IdentifierGiven, NewIdentifier DEF TableTypes
      <3>3. published' # None
        BY <1>t DEF publish, Types, ClientTypes, None, BrokerTypes, HistoryTypes
      <3>4. pendingMessages' = [pendingMessages EXCEPT ![counter'] = published']
        BY <2>4 DEF publish
      <3>5. pendingMessages'[counter'] # None
            /\ \A i \in Ids : pendingMessages[i] # None => pendingMessages'[i] # None
        BY <1>t, <3>2, <3>3, <3>4 DEF TableTypes
      <3> QED
        BY <1>w, <2>1, <2>2, <3>1, <3>2, <3>5
    <2> QED
      BY <2>3, <2>4
  <1>2. CASE \E topic \in Topics : subscribe(topic)
    <2> PICK topic \in Topics : subscribe(topic)
      BY <1>2
    <2>1. PICK p \in UpPacket :
            Write(<<p>>) /\ p.type = "SUBSCRIBE" /\ p.id = counter' /\ down' = down
      BY <1>t, Requested
    <2>2. UNCHANGED <<pendingMessages, pendingUnsubscriptions>>
      BY DEF subscribe, tables
    <2>3. NextIdentifier
      BY DEF subscribe
    <2>4. counter' \in Ids /\ pendingSubscriptionAck[counter'] = None
      BY <1>t, <2>3, IdentifierGiven, NewIdentifier DEF TableTypes
    <2>5. Len(subscriptions') # None
      BY <1>t DEF subscribe, TableTypes, None
    <2>6. pendingSubscriptionAck'[counter'] # None
          /\ \A i \in Ids : pendingSubscriptionAck[i] # None => pendingSubscriptionAck'[i] # None
      BY <1>t, <2>4, <2>5 DEF TableTypes, subscribe
    <2> QED
      BY <1>w, <2>1, <2>2, <2>4, <2>6
  <1>3. CASE \E s \in active : unsubscribe(s)
    <2> PICK s \in active : unsubscribe(s)
      BY <1>3
    <2>1. UNCHANGED <<pendingMessages, pendingSubscriptionAck>> /\ down' = down
      BY DEF unsubscribe, tables
    <2>2. CASE internal # "BrokerConnected"
      <3>1. up' = up /\ pendingUnsubscriptions' = pendingUnsubscriptions
        BY <2>2 DEF unsubscribe
      <3> QED
        BY <1>e, <2>1, <3>1 DEF SubscribesOnce, UnsubscribesOnce, PublishesOnce, OneExchange, Occupied,
                                Traffic, Requests, Answers
    <2>3. CASE internal = "BrokerConnected"
      <3>1. PICK p \in UpPacket : Write(<<p>>) /\ p.type = "UNSUBSCRIBE" /\ p.id = counter'
        BY <1>t, <2>3, Requested
      <3>2. NextIdentifier /\ pendingUnsubscriptions' = [pendingUnsubscriptions EXCEPT ![counter'] = s]
        BY <2>3 DEF unsubscribe
      <3>3. counter' \in Ids /\ pendingUnsubscriptions[counter'] = None
        BY <1>t, <3>2, IdentifierGiven, NewIdentifier DEF TableTypes
      <3>4. s # None
        BY <1>t, Objects DEF None
      <3>5. pendingUnsubscriptions'[counter'] # None
            /\ \A i \in Ids : pendingUnsubscriptions[i] # None => pendingUnsubscriptions'[i] # None
        BY <1>t, <3>2, <3>3, <3>4 DEF TableTypes
      <3> QED
        BY <1>w, <2>1, <3>1, <3>3, <3>5
    <2> QED
      BY <2>2, <2>3
  <1>4. CASE PingTimer
    <2>1. CASE PingsUnanswered
      BY <1>4, <1>d, <2>1 DEF PingTimer, closeConnection
    <2>2. CASE ~PingsUnanswered
      <3>1. PICK p \in UpPacket : Write(<<p>>) /\ p.type = "PINGREQ" /\ down' = down
        BY <1>4, <1>t, <2>2, Requested
      <3>2. UNCHANGED <<pendingMessages, pendingSubscriptionAck, pendingUnsubscriptions>>
        BY <1>4, <2>2 DEF PingTimer, tables, subVars
      <3> QED
        BY <1>w, <3>1, <3>2
    <2> QED
      BY <2>1, <2>2
  <1>5. CASE ~Requesting
    <2>1. CASE (up = <<>> /\ down = <<>>) \/ (Waits /\ socket = "open" /\ down # <<>>)
      <3>1. \A i \in Ids : /\ Traffic({"SUBSCRIBE"}, {"SUBACK"}, i) = 0
                           /\ Traffic({"UNSUBSCRIBE"}, {"UNSUBACK"}, i) = 0
                           /\ Traffic({"PUBLISH1", "PUBLISH2"}, {"PUBACK", "PUBREC"}, i) = 0
        BY <1>x, <2>1, TrafficNone
      <3>2. \A i \in Ids :
              Traffic({"SUBSCRIBE"}, {"SUBACK"}, i)' <= Occupied(pendingSubscriptionAck', i)
        BY <1>5, <1>x, <1>e, <3>1, ExchangeStep DEF SubscribesOnce, OneExchange
      <3>3. \A i \in Ids :
              Traffic({"UNSUBSCRIBE"}, {"UNSUBACK"}, i)' <= Occupied(pendingUnsubscriptions', i)
        BY <1>5, <1>x, <1>e, <3>1, ExchangeStep DEF UnsubscribesOnce, OneExchange
      <3>4. \A i \in Ids :
              Traffic({"PUBLISH1", "PUBLISH2"}, {"PUBACK", "PUBREC"}, i)' <= Occupied(pendingMessages', i)
        BY <1>5, <1>x, <1>e, <3>1, ExchangeStep DEF PublishesOnce, OneExchange
      <3> QED
        BY <3>2, <3>3, <3>4 DEF SubscribesOnce, UnsubscribesOnce, PublishesOnce, OneExchange, Occupied
    <2>2. CASE ~((up = <<>> /\ down = <<>>) \/ (Waits /\ socket = "open" /\ down # <<>>))
      <3>1. \A i \in Ids :
              /\ pendingSubscriptionAck[i] # None /\ pendingSubscriptionAck'[i] = None =>
                   ReadBody /\ Arriving.type = "SUBACK" /\ Arriving.id = i
              /\ pendingUnsubscriptions[i] # None /\ pendingUnsubscriptions'[i] = None =>
                   ReadBody /\ Arriving.type = "UNSUBACK" /\ Arriving.id = i
              /\ pendingMessages[i] # None /\ pendingMessages'[i] = None =>
                   ReadBody /\ Arriving.type \in {"PUBACK", "PUBREC"} /\ Arriving.id = i
        BY <1>5, <2>2, EntriesKept
      <3>2. \A i \in Ids :
              Traffic({"SUBSCRIBE"}, {"SUBACK"}, i)' <= Occupied(pendingSubscriptionAck', i)
        BY <1>5, <1>x, <1>e, <3>1, ExchangeStep DEF SubscribesOnce, OneExchange
      <3>3. \A i \in Ids :
              Traffic({"UNSUBSCRIBE"}, {"UNSUBACK"}, i)' <= Occupied(pendingUnsubscriptions', i)
        BY <1>5, <1>x, <1>e, <3>1, ExchangeStep DEF UnsubscribesOnce, OneExchange
      <3>4. \A i \in Ids :
              Traffic({"PUBLISH1", "PUBLISH2"}, {"PUBACK", "PUBREC"}, i)' <= Occupied(pendingMessages', i)
        BY <1>5, <1>x, <1>e, <3>1, ExchangeStep DEF PublishesOnce, OneExchange
      <3> QED
        BY <3>2, <3>3, <3>4 DEF SubscribesOnce, UnsubscribesOnce, PublishesOnce, OneExchange, Occupied
    <2> QED
      BY <2>1, <2>2
  <1> QED
    BY <1>1, <1>2, <1>3, <1>4, <1>5 DEF Requesting

\* An answer that arrives is under way.
LEMMA AnswerWaits ==
  ASSUME StreamTypes, down # <<>>, Part = "body", NEW R, NEW A, Arriving.type \in A,
         NEW table, Traffic(R, A, Arriving.id) <= Occupied(table, Arriving.id)
  PROVE  table[Arriving.id] # None
  <1> DEFINE S == Answers(A, Arriving.id)
  <1>1. 1 \in 1 .. Len(down) /\ down[1] \in S
    BY Reading DEF Answers, Arriving, Part, StreamTypes
  <1>2. Count(up, Requests(R, Arriving.id)) \in Nat /\ Count(down, S) \in Nat
    BY TrafficType
  <1>3. Traffic(R, A, Arriving.id) = Count(up, Requests(R, Arriving.id)) + Count(down, S)
    BY DEF Traffic
  <1>4. Count(down, S) >= 1
    <2> HIDE DEF S
    <2> QED
      BY <1>1, CountSome DEF StreamTypes
  <1>5. Traffic(R, A, Arriving.id) >= 1 /\ Traffic(R, A, Arriving.id) \in Nat
    <2> HIDE DEF S
    <2> QED
      BY <1>2, <1>3, <1>4
  <1> QED
    BY <1>5 DEF Occupied

\* What nothing but a unit out of step changes.
LEMMA OutOfStepOnly ==
  ASSUME [Next]_vars
  PROVE  outOfStep' = outOfStep \/ (socket = "open" /\ (ReadHeader \/ Misread \/ finalize_suback))
  <1> DEFINE Same == outOfStep' = outOfStep
  <1>1. connectToHost \/ disconnectConnected \/ disconnectConnecting => Same
    BY DEF connectToHost, disconnectConnected, disconnectConnecting
  <1>2. (\E q \in QoS : publish(q)) \/ (\E topic \in Topics : subscribe(topic))
          \/ (\E s \in active : unsubscribe(s)) => Same
    BY DEF publish, subscribe, unsubscribe
  <1>3. PingTimer \/ transportConnectionEstablished \/ transportError \/ FallSilent
          \/ UNCHANGED vars => Same
    BY DEF PingTimer, transportConnectionEstablished, transportError, FallSilent, vars, stream
  <1>4. finalize_connack \/ finalize_unsuback \/ finalize_publish \/ finalize_pubrel => Same
    BY DEF finalize_connack, finalize_unsuback, finalize_publish, finalize_pubrel
  <1>5. finalize_puback \/ finalize_pubrec \/ finalize_pubcomp \/ finalize_pingresp => Same
    BY DEF finalize_puback, finalize_pubrec, finalize_pubcomp, finalize_pingresp
  <1>6. BrokerTakes => Same
    BY DEF BrokerTakes
  <1>7. (\E n \in Incoming, topic \in Topics, type \in {"PUBLISH1", "PUBLISH2"} :
           BrokerPublishes(n, topic, type)) => Same
    BY DEF BrokerPublishes
  <1> HIDE DEF Same
  <1>8. Same \/ (socket = "open" /\ (ReadHeader \/ Misread \/ finalize_suback))
    BY <1>1, <1>2, <1>3, <1>4, <1>5, <1>6, <1>7, Actions
  <1> QED
    BY <1>8, Zenon DEF Same

\* Header, body and identifier are what the client takes them for.
LEMMA PacketsInStepStep == Base /\ Exchanges /\ PacketsInStep /\ [Next]_vars => PacketsInStep'
  <1> SUFFICES ASSUME Base, Exchanges, PacketsInStep, [Next]_vars, ~exhausted'
               PROVE  ~outOfStep'
    BY DEF PacketsInStep
  <1>t. Types /\ StreamTypes /\ Phases /\ Framed /\ Handshake
    BY DEF Base, Types
  <1>e. ~exhausted /\ ~outOfStep /\ SubscribesOnce
    BY <1>t, ExhaustedStays DEF Exchanges, PacketsInStep
  <1>f. socket = "open" /\ down # <<>> => (missing <=> Part = "body")
    BY <1>t, Reading DEF Framed, Phases, Part
  <1>1. CASE outOfStep' = outOfStep
    BY <1>1, <1>e, Zenon
  <1>2. CASE socket = "open" /\ ReadHeader
    <2>1. down # <<>> /\ ~missing /\ Part = "header"
      BY <1>2, <1>f, <1>t, Reading DEF ReadHeader
    <2>2. Arriving.type = "CONNACK" => internal = "BrokerWaitForConnectAck"
      BY <1>t, <2>1, Reading DEF Handshake, NoConnack, Arriving, Waits, StreamTypes
    <2>3. outOfStep' = outOfStep
      BY <1>2, <2>1, <2>2 DEF ReadHeader
    <2> QED
      BY <1>e, <2>3, Zenon
  <1>3. CASE socket = "open" /\ Misread
    BY <1>3, <1>f DEF Misread
  <1>4. CASE socket = "open" /\ finalize_suback
    <2>1. down # <<>> /\ Part = "body" /\ Arriving.type = "SUBACK"
      BY <1>4 DEF finalize_suback, Body
    <2>2. Arriving.id \in Ids
      BY <1>t, <2>1, Reading, DownFields
    <2>3. pendingSubscriptionAck[Arriving.id] # None
      <3>1. Traffic({"SUBSCRIBE"}, {"SUBACK"}, Arriving.id) <= Occupied(pendingSubscriptionAck, Arriving.id)
        BY <1>e, <2>2 DEF SubscribesOnce, OneExchange
      <3> QED
        BY <1>t, <2>1, <3>1, AnswerWaits
    <2>4. outOfStep' = (outOfStep \/ pendingSubscriptionAck[Arriving.id] = None)
      BY <1>4, Zenon DEF finalize_suback
    <2> QED
      BY <1>e, <2>3, <2>4, Zenon
  <1> QED
    BY <1>1, <1>2, <1>3, <1>4, OutOfStepOnly

\* At the start no identifier waits and nothing is under way.
LEMMA InitExchanges == Init => Exchanges /\ PingsCounted /\ PacketsInStep
  <1> SUFFICES ASSUME Init PROVE Exchanges /\ PingsCounted /\ PacketsInStep
    OBVIOUS
  <1>1. \A R, A, i : Traffic(R, A, i) = 0
    <2>1. \A S : Count(<<>>, S) = 0
      BY CountNone
    <2> QED
      BY <2>1 DEF Init, Traffic
  <1>2. Exchanges
    BY <1>1 DEF Exchanges, SubscribesOnce, UnsubscribesOnce, PublishesOnce, OneExchange, Occupied
  <1>3. PingsCounted
    BY <1>1 DEF PingsCounted, Init
  <1>4. PacketsInStep
    BY Zenon DEF PacketsInStep, Init
  <1> QED
    BY <1>2, <1>3, <1>4

\* The client takes a header for a header and a body for its body, and knows every SUBACK,
\* over all segmentations, losses and reconnections (processDataHelper, finalize_suback).
THEOREM InStep == Spec => []PacketsInStep
  <1>1. Init => Base /\ Exchanges /\ PacketsInStep
    BY InitBase, InitExchanges
  <1>2. Base /\ Exchanges /\ PacketsInStep /\ [Next]_vars => (Base /\ Exchanges /\ PacketsInStep)'
    BY BaseStep, ExchangesStep, PacketsInStepStep
  <1> QED
    BY <1>1, <1>2, PTL DEF Spec

\* All variables keep their types; in particular the pings counted are none below zero.
THEOREM TypeCorrect == Spec => []TypeOK
  <1>1. Init => Base /\ PingsCounted
    BY InitBase, InitExchanges
  <1>2. Base /\ PingsCounted /\ [Next]_vars => (Base /\ PingsCounted)'
    BY BaseStep, PingsCountedStep
  <1>3. Base /\ PingsCounted => TypeOK
    <2> SUFFICES ASSUME Base, PingsCounted PROVE TypeOK
      OBVIOUS
    <2>1. Flags /\ ClientTypes /\ TableTypes /\ BrokerTypes /\ StreamTypes
      BY DEF Base, Types
    <2>2. pingTimeout \in 0 .. 2
      BY <2>1, TrafficType DEF PingsCounted, ClientTypes
    <2>3. cleanSession \in BOOLEAN /\ missing \in BOOLEAN /\ exhausted \in BOOLEAN /\ pingTimer \in BOOLEAN
      BY <2>1, Zenon DEF Flags
    <2>4. /\ state \in {"Disconnected", "Connecting", "Connected"}
          /\ internal \in {"BrokerDisconnected", "BrokerConnecting", "BrokerWaitForConnectAck",
                            "BrokerConnected"}
          /\ socket \in {"closed", "opening", "open"} /\ connects \in 0 .. MaxConnects
      BY <2>1 DEF ClientTypes
    <2>5. published \in 0 .. MaxExchanges
      BY <2>1 DEF BrokerTypes
    <2> QED
      BY <2>1, <2>2, <2>3, <2>4, <2>5, Zenon DEF TypeOK, TableTypes, Subscription, SubscriptionStates
  <1> QED
    BY <1>1, <1>2, <1>3, PTL DEF Spec

-----------------------------------------------------------------------------
(* What the steps that make no request do to the streams. *)

\* The client itself writes only CONNECT and its part of the exchanges that go on.
LEMMA UpMoves ==
  ASSUME Types, [Next]_vars, ~Requesting, ~BrokerTakes
  PROVE  /\ UNCHANGED <<received, published>>
         /\ \/ up' = up
            \/ up' = <<>>
            \/ \E p \in UpPacket :
                 Write(<<p>>) /\ p.type \in {"CONNECT", "PUBACK", "PUBREC", "PUBREL", "PUBCOMP"}
  <1> DEFINE Good ==
        /\ UNCHANGED <<received, published>>
        /\ \/ up' = up
           \/ up' = <<>>
           \/ \E p \in UpPacket :
                Write(<<p>>) /\ p.type \in {"CONNECT", "PUBACK", "PUBREC", "PUBREL", "PUBCOMP"}
  <1>t. StreamTypes
    BY DEF Types
  <1>1. connectToHost \/ disconnectConnected \/ disconnectConnecting \/ transportError
          \/ FallSilent \/ UNCHANGED vars => Good
    BY DEF connectToHost, disconnectConnected, disconnectConnecting, transportError, FallSilent,
           closeConnection, DropTransport, Write, vars, stream, history
  <1>2. transportConnectionEstablished => Good
    <2> SUFFICES ASSUME transportConnectionEstablished PROVE Good
      OBVIOUS
    <2>1. Packet("CONNECT", None, None) \in UpPacket /\ Packet("CONNECT", None, None).type = "CONNECT"
      BY UpPackets, PacketParts
    <2> QED
      BY <2>1 DEF transportConnectionEstablished, history
  <1>3. ReadHeader \/ Misread => Good
    BY DEF ReadHeader, Misread, ProtocolViolation, closeConnection, DropTransport, history
  <1>4. finalize_connack \/ finalize_suback \/ finalize_unsuback => Good
    BY DEF finalize_connack, finalize_suback, finalize_unsuback, closeConnection, DropTransport, history
  <1>5. finalize_puback \/ finalize_pubcomp \/ finalize_pingresp => Good
    BY DEF finalize_puback, finalize_pubcomp, finalize_pingresp, history
  <1>6. finalize_publish => Good
    <2> SUFFICES ASSUME finalize_publish PROVE Good
      OBVIOUS
    <2>1. down # <<>> /\ Arriving.type \in {"PUBLISH1", "PUBLISH2"}
      BY DEF finalize_publish, Body
    <2>2. Arriving.id \in Incoming
      BY <1>t, <2>1, Reading, DownFields
    <2>3. PICK t \in {"PUBACK", "PUBREC"} : Write(<<Packet(t, Arriving.id, None)>>)
      BY DEF finalize_publish
    <2>4. Packet(t, Arriving.id, None) \in UpPacket /\ Packet(t, Arriving.id, None).type = t
      BY <2>2, UpPackets, PacketParts
    <2> QED
      BY <2>3, <2>4 DEF finalize_publish
  <1>7. finalize_pubrel => Good
    <2> SUFFICES ASSUME finalize_pubrel PROVE Good
      OBVIOUS
    <2>1. down # <<>> /\ Arriving.type = "PUBREL"
      BY DEF finalize_pubrel, Body
    <2>2. Packet("PUBCOMP", Arriving.id, None) \in UpPacket
          /\ Packet("PUBCOMP", Arriving.id, None).type = "PUBCOMP"
      BY <1>t, <2>1, Reading, DownFields, UpPackets, PacketParts
    <2> QED
      BY <2>2 DEF finalize_pubrel, history
  <1>8. finalize_pubrec => Good
    <2> SUFFICES ASSUME finalize_pubrec PROVE Good
      OBVIOUS
    <2>1. down # <<>> /\ Arriving.type = "PUBREC"
      BY DEF finalize_pubrec, Body
    <2>2. Packet("PUBREL", Arriving.id, None) \in UpPacket
          /\ Packet("PUBREL", Arriving.id, None).type = "PUBREL"
      BY <1>t, <2>1, Reading, DownFields, UpPackets, PacketParts
    <2> QED
      BY <2>2 DEF finalize_pubrec, history
  <1>9. (\E n \in Incoming, topic \in Topics, type \in {"PUBLISH1", "PUBLISH2"} :
           BrokerPublishes(n, topic, type)) => Good
    BY DEF BrokerPublishes, history
  <1> HIDE DEF Good
  <1>10. Good
    BY <1>1, <1>2, <1>3, <1>4, <1>5, <1>6, <1>7, <1>8, <1>9, Actions DEF Requesting
  <1> QED
    BY <1>10 DEF Good

\* To the client come only messages of others; it reads a unit at a time.
LEMMA DownMoves ==
  ASSUME Types, [Next]_vars, ~BrokerTakes
  PROVE  \/ down' = down
         \/ down' = <<>>
         \/ down # <<>> /\ down' = Tail(down)
         \/ \E n \in Incoming, topic \in Topics, type \in {"PUBLISH1", "PUBLISH2"} :
              /\ BrokerPublishes(n, topic, type)
              /\ Packet(type, n, topic) \in DownPacket /\ Answer(Units(Packet(type, n, topic)))
  <1> DEFINE Good ==
        \/ down' = down
        \/ down' = <<>>
        \/ down # <<>> /\ down' = Tail(down)
  <1>1. connectToHost \/ disconnectConnected \/ disconnectConnecting \/ transportError
          \/ FallSilent \/ UNCHANGED vars => Good
    BY DEF connectToHost, disconnectConnected, disconnectConnecting, transportError, FallSilent,
           closeConnection, DropTransport, vars, stream
  <1>2. (\E q \in QoS : publish(q)) \/ (\E topic \in Topics : subscribe(topic))
          \/ (\E s \in active : unsubscribe(s)) => Good
    BY DEF publish, subscribe, unsubscribe
  <1>3. PingTimer \/ transportConnectionEstablished => Good
    BY DEF PingTimer, transportConnectionEstablished, closeConnection, DropTransport
  <1>4. ReadHeader \/ Misread => Good
    BY DEF ReadHeader, Misread, ProtocolViolation, closeConnection, DropTransport
  <1>5. finalize_connack \/ finalize_suback \/ finalize_unsuback \/ finalize_publish => Good
    BY DEF finalize_connack, finalize_suback, finalize_unsuback, finalize_publish, closeConnection,
           DropTransport, Consume, Body
  <1>6. finalize_pubrel \/ finalize_puback \/ finalize_pubrec \/ finalize_pubcomp
          \/ finalize_pingresp => Good
    BY DEF finalize_pubrel, finalize_puback, finalize_pubrec, finalize_pubcomp, finalize_pingresp,
           Consume, Body
  <1>7. ASSUME NEW n \in Incoming, NEW topic \in Topics, NEW type \in {"PUBLISH1", "PUBLISH2"},
               BrokerPublishes(n, topic, type)
        PROVE  Packet(type, n, topic) \in DownPacket /\ Answer(Units(Packet(type, n, topic)))
    BY <1>7, DownPackets DEF BrokerPublishes
  <1> HIDE DEF Good
  <1>8. Good \/ \E n \in Incoming, topic \in Topics, type \in {"PUBLISH1", "PUBLISH2"} :
              BrokerPublishes(n, topic, type)
    BY <1>1, <1>2, <1>3, <1>4, <1>5, <1>6, Actions
  <1> QED
    BY <1>7, <1>8 DEF Good

-----------------------------------------------------------------------------
(* No message is received twice, and one is sent only when it was received. *)

Carries(m) == {p \in UpPacket : p.type \in {"PUBLISH0", "PUBLISH1", "PUBLISH2"} /\ p.value = m}

\* A message is under way, or received, once if it was published, and else not at all.
DeliversOnce ==
  \A m \in Messages : Count(up, Carries(m)) + received[m] <= (IF m <= published THEN 1 ELSE 0)

\* The broker counts the message that it takes.
LEMMA Receives ==
  ASSUME Types, BrokerTakes
  PROVE  \/ /\ Head(up).type \in {"PUBLISH0", "PUBLISH1", "PUBLISH2"} /\ Head(up).value \in Messages
            /\ received' = [received EXCEPT ![Head(up).value] = @ + 1]
         \/ /\ Head(up).type \notin {"PUBLISH0", "PUBLISH1", "PUBLISH2"}
            /\ received' = received
  <1> DEFINE p == Head(up)
  <1>1. p \in UpPacket
    BY Taking DEF BrokerTakes, Types
  <1> HIDE DEF p
  <1>2. CASE p.type \in {"PUBLISH0", "PUBLISH1", "PUBLISH2"}
    <2>1. BrokerReceives(p)
      BY <1>2 DEF BrokerTakes, p
    <2> QED
      BY <1>1, <1>2, <2>1, UpFields DEF BrokerReceives, p
  <1>3. CASE p.type = "CONNECT"
    BY <1>3 DEF BrokerTakes, BrokerConnects, p
  <1>4. CASE p.type = "SUBSCRIBE"
    BY <1>4 DEF BrokerTakes, BrokerSubscribes, p
  <1>5. CASE p.type \in {"UNSUBSCRIBE", "PUBREL", "PINGREQ", "DISCONNECT"}
    BY <1>5 DEF BrokerTakes, p
  <1>6. CASE p.type \in {"PUBACK", "PUBREC", "PUBCOMP"}
    BY <1>6 DEF BrokerTakes, BrokerAdvances, p
  <1> QED
    BY <1>1, <1>2, <1>3, <1>4, <1>5, <1>6, UpFields DEF p

\* Publishing is the only way to put a message under way.
LEMMA DeliversOnceStep == Types /\ DeliversOnce /\ [Next]_vars => DeliversOnce'
  <1> SUFFICES ASSUME Types, DeliversOnce, [Next]_vars, NEW m \in Messages
               PROVE  Count(up', Carries(m)) + received'[m] <= (IF m <= published' THEN 1 ELSE 0)
    BY DEF DeliversOnce, Carries
  <1> DEFINE C == Carries(m)
  <1>t. StreamTypes /\ BrokerTypes /\ published \in Nat /\ m \in Nat /\ received[m] \in Nat
    BY MqttAssumption DEF Types, BrokerTypes, Messages
  <1>n. Count(up, C) \in Nat /\ Count(up, C) + received[m] <= (IF m <= published THEN 1 ELSE 0)
    BY <1>t, CountType DEF StreamTypes, DeliversOnce
  <1>p. Count(up', C) \in Nat
    BY StreamTypesStep, CountType DEF StreamTypes
  <1>c. ASSUME NEW p \in UpPacket PROVE p \in C <=>
          p.type \in {"PUBLISH0", "PUBLISH1", "PUBLISH2"} /\ p.value = m
    BY DEF Carries
  <1> SUFFICES Count(up', C) + received'[m] <= (IF m <= published' THEN 1 ELSE 0)
    OBVIOUS
  <1> HIDE DEF C
  <1>w. ASSUME NEW p \in UpPacket, Write(<<p>>), p.type \notin {"PUBLISH0", "PUBLISH1", "PUBLISH2"}
        PROVE  Count(up', C) <= Count(up, C)
    <2>1. Count(up', C) <= Count(up, C) + (IF p \in C THEN 1 ELSE 0)
      BY <1>t, <1>w, CountWritten
    <2>2. p \notin C
      BY <1>c, <1>w
    <2> QED
      BY <1>n, <2>1, <2>2
  <1>s. Count(up', C) <= Count(up, C) /\ received' = received /\ published' = published =>
          Count(up', C) + received'[m] <= (IF m <= published' THEN 1 ELSE 0)
    BY <1>n, <1>p, <1>t
  <1>e. Count(<<>>, C) = 0
    BY CountNone
  <1>1. CASE \E q \in QoS : publish(q)
    <2> PICK q \in QoS : publish(q)
      BY <1>1
    <2>1. PICK p \in UpPacket :
            Write(<<p>>) /\ p.type \in {"PUBLISH0", "PUBLISH1", "PUBLISH2"} /\ p.value = published'
      BY Requested
    <2>2. Count(up', C) <= Count(up, C) + (IF p \in C THEN 1 ELSE 0)
      BY <1>t, <2>1, CountWritten
    <2>3. p \in C <=> m = published'
      BY <1>c, <2>1
    <2>4. published' = published + 1 /\ received' = received
      BY DEF publish
    <2> QED
      BY <1>n, <1>p, <1>t, <2>2, <2>3, <2>4
  <1>2. CASE \E topic \in Topics : subscribe(topic)
    <2> PICK topic \in Topics : subscribe(topic)
      BY <1>2
    <2>1. PICK p \in UpPacket : Write(<<p>>) /\ p.type = "SUBSCRIBE"
      BY Requested
    <2>2. received' = received /\ published' = published
      BY DEF subscribe, history
    <2> QED
      BY <1>s, <1>w, <2>1, <2>2
  <1>3. CASE \E s \in active : unsubscribe(s)
    <2> PICK s \in active : unsubscribe(s)
      BY <1>3
    <2>1. received' = received /\ published' = published
      BY DEF unsubscribe, history
    <2>2. CASE internal # "BrokerConnected"
      BY <1>n, <1>s, <2>1, <2>2 DEF unsubscribe
    <2>3. CASE internal = "BrokerConnected"
      <3>1. PICK p \in UpPacket : Write(<<p>>) /\ p.type = "UNSUBSCRIBE"
        BY <2>3, Requested
      <3> QED
        BY <1>s, <1>w, <2>1, <3>1
    <2> QED
      BY <2>2, <2>3
  <1>4. CASE PingTimer
    <2>1. received' = received /\ published' = published
      BY <1>4 DEF PingTimer, history
    <2>2. CASE PingsUnanswered
      <3>1. up' = <<>>
        BY <1>4, <2>2 DEF PingTimer, closeConnection, DropTransport
      <3> QED
        BY <1>e, <1>n, <1>s, <2>1, <3>1
    <2>3. CASE ~PingsUnanswered
      <3>1. PICK p \in UpPacket : Write(<<p>>) /\ p.type = "PINGREQ"
        BY <1>4, <2>3, Requested
      <3> QED
        BY <1>s, <1>w, <2>1, <3>1
    <2> QED
      BY <2>2, <2>3
  <1>5. CASE BrokerTakes
    <2>1. up # <<>> /\ up' = Tail(up) /\ published' = published
      BY <1>5 DEF BrokerTakes
    <2>2. Head(up) \in UpPacket
      BY <1>t, <2>1, Taking
    <2>3. Count(up', C) = Count(up, C) - (IF Head(up) \in C THEN 1 ELSE 0)
      BY <1>t, <2>1, CountTail DEF StreamTypes
    <2>4. CASE Head(up) \in C
      <3>1. Head(up).type \in {"PUBLISH0", "PUBLISH1", "PUBLISH2"} /\ Head(up).value = m
        BY <1>c, <2>2, <2>4
      <3>2. received' = [received EXCEPT ![m] = @ + 1]
        BY <1>5, <3>1, Receives
      <3>3. received'[m] = received[m] + 1
        BY <1>t, <3>2 DEF BrokerTypes
      <3> QED
        BY <1>n, <1>p, <1>t, <2>1, <2>3, <2>4, <3>3
    <2>5. CASE Head(up) \notin C
      <3>1. received'[m] = received[m]
        BY <1>5, <1>c, <1>t, <2>2, <2>5, Receives DEF BrokerTypes
      <3> QED
        BY <1>n, <1>p, <1>t, <2>1, <2>3, <2>5, <3>1
    <2> QED
      BY <2>4, <2>5
  <1>6. CASE ~Requesting /\ ~BrokerTakes
    <2>1. UNCHANGED <<received, published>>
      BY <1>6, UpMoves
    <2>2. \/ up' = up \/ up' = <<>>
          \/ \E p \in UpPacket :
               Write(<<p>>) /\ p.type \in {"CONNECT", "PUBACK", "PUBREC", "PUBREL", "PUBCOMP"}
      BY <1>6, UpMoves
    <2>3. Count(up', C) <= Count(up, C)
      <3>1. CASE \E p \in UpPacket :
                   Write(<<p>>) /\ p.type \in {"CONNECT", "PUBACK", "PUBREC", "PUBREL", "PUBCOMP"}
        BY <1>w, <3>1
      <3> QED
        BY <1>e, <1>n, <2>2, <3>1
    <2> QED
      BY <1>s, <2>1, <2>3
  <1> QED
    BY <1>1, <1>2, <1>3, <1>4, <1>5, <1>6 DEF Requesting

\* What was received stays received, and nothing is received twice.
LEMMA ReceivedStays ==
  ASSUME Types, Types', DeliversOnce, DeliversOnce', [Next]_vars, NEW m \in Messages
  PROVE  /\ received[m] \in Nat /\ received[m] <= 1
         /\ received'[m] \in Nat /\ received'[m] <= 1
         /\ received[m] = 1 => received'[m] = 1
  <1>1. /\ received[m] \in Nat /\ received'[m] \in Nat
        /\ Count(up, Carries(m)) \in Nat /\ Count(up', Carries(m)') \in Nat
    BY CountType DEF Types, BrokerTypes, StreamTypes
  <1>2. received[m] <= 1 /\ received'[m] <= 1
    BY <1>1 DEF DeliversOnce
  <1>3. received'[m] >= received[m]
    <2>1. CASE BrokerTakes
      BY <1>1, <2>1, Receives DEF Types, BrokerTypes
    <2>2. CASE Requesting
      <3>1. received' = received
        BY <2>2 DEF Requesting, publish, subscribe, unsubscribe, PingTimer, history
      <3> QED
        BY <1>1, <3>1
    <2>3. CASE ~Requesting /\ ~BrokerTakes
      BY <1>1, <2>3, UpMoves
    <2> QED
      BY <2>1, <2>2, <2>3
  <1> QED
    BY <1>1, <1>2, <1>3

IsAnswer(k, types) == down[k].part = "body" /\ down[k].packet.type \in types

\* What one packet per identifier excludes.
LEMMA UnderWay ==
  ASSUME StreamTypes, NEW R, NEW A, NEW i, NEW table, Traffic(R, A, i) <= Occupied(table, i)
  PROVE  /\ \A k \in 1 .. Len(up) : up[k].type \in R /\ up[k].id = i =>
              /\ table[i] # None
              /\ \A j \in 1 .. Len(down) : ~(IsAnswer(j, A) /\ down[j].packet.id = i)
              /\ \A j \in 1 .. Len(up) : up[j].type \in R /\ up[j].id = i => j = k
         /\ \A k \in 1 .. Len(down) : IsAnswer(k, A) /\ down[k].packet.id = i =>
              /\ table[i] # None
              /\ \A j \in 1 .. Len(down) : IsAnswer(j, A) /\ down[j].packet.id = i => j = k
  <1> DEFINE S == Requests(R, i)
             D == Answers(A, i)
  <1>1. \A k \in 1 .. Len(up) : up[k] \in S <=> up[k].type \in R /\ up[k].id = i
    BY DEF Requests, StreamTypes
  <1>2. \A k \in 1 .. Len(down) : down[k] \in D <=> IsAnswer(k, A) /\ down[k].packet.id = i
    BY DEF Answers, StreamTypes, IsAnswer
  <1>3. Count(up, S) \in Nat /\ Count(down, D) \in Nat /\ Traffic(R, A, i) = Count(up, S) + Count(down, D)
    BY TrafficType DEF Traffic
  <1> HIDE DEF S, D
  <1>4. Occupied(table, i) \in {0, 1} /\ (Occupied(table, i) = 1 => table[i] # None)
    BY DEF Occupied
  <1>5. ASSUME NEW k \in 1 .. Len(up), up[k] \in S
        PROVE  /\ table[i] # None /\ \A j \in 1 .. Len(down) : down[j] \notin D
               /\ \A j \in 1 .. Len(up) : up[j] \in S => j = k
    <2>1. Count(up, S) >= 1
      BY <1>5, CountSome DEF StreamTypes
    <2>2. Count(up, S) <= 1 /\ Count(down, D) = 0 /\ table[i] # None
      BY <1>3, <1>4, <2>1
    <2>3. \A j \in 1 .. Len(down) : down[j] \in D => Count(down, D) >= 1
      BY CountSome DEF StreamTypes
    <2>4. \A j \in 1 .. Len(up) : up[j] \in S => j = k
      BY <1>5, <2>2, CountOne DEF StreamTypes
    <2> QED
      BY <2>2, <2>3, <2>4
  <1>6. ASSUME NEW k \in 1 .. Len(down), down[k] \in D
        PROVE  table[i] # None /\ \A j \in 1 .. Len(down) : down[j] \in D => j = k
    <2>1. Count(down, D) >= 1
      BY <1>6, CountSome DEF StreamTypes
    <2>2. Count(down, D) <= 1 /\ table[i] # None
      BY <1>3, <1>4, <2>1
    <2>3. \A j \in 1 .. Len(down) : down[j] \in D => j = k
      BY <1>6, <2>2, CountOne DEF StreamTypes
    <2> QED
      BY <2>2, <2>3
  <1> QED
    BY <1>1, <1>2, <1>5, <1>6

\* What a step may put behind the packets on their way to the broker.
Added(p) ==
  \/ p.type \in {"CONNECT", "PUBACK", "PUBREC", "PUBREL", "PUBCOMP", "PINGREQ"}
  \/ \E q \in QoS : /\ publish(q) /\ p.type \in {"PUBLISH0", "PUBLISH1", "PUBLISH2"}
                    /\ p.type # "PUBLISH0" =>
                         q # 0 /\ NextIdentifier /\ p.id = counter' /\ p.value = published'
  \/ \E topic \in Topics : subscribe(topic) /\ p.type = "SUBSCRIBE" /\ p.id = counter' /\ p.value = topic
  \/ \E s \in active : /\ unsubscribe(s) /\ internal = "BrokerConnected" /\ p.type = "UNSUBSCRIBE"
                       /\ p.id = counter' /\ p.value = subscriptions[s].topic

\* On the way to the broker is what was there, in its place, and what the step has written.
LEMMA UpElements ==
  ASSUME Types, [Next]_vars, NEW k \in 1 .. Len(up')
  PROVE  \/ BrokerTakes /\ k + 1 \in 1 .. Len(up) /\ up'[k] = up[k + 1]
         \/ ~BrokerTakes /\ k \in 1 .. Len(up) /\ up'[k] = up[k]
         \/ ~BrokerTakes /\ ~silent /\ k = Len(up) + 1 /\ Added(up'[k]) /\ up'[k] \in UpPacket
  <1> DEFINE Good ==
         \/ BrokerTakes /\ k + 1 \in 1 .. Len(up) /\ up'[k] = up[k + 1]
         \/ ~BrokerTakes /\ k \in 1 .. Len(up) /\ up'[k] = up[k]
         \/ ~BrokerTakes /\ ~silent /\ k = Len(up) + 1 /\ Added(up'[k]) /\ up'[k] \in UpPacket
  <1>t. StreamTypes /\ Len(up) \in Nat
    BY DEF Types, StreamTypes
  <1> SUFFICES Good
    OBVIOUS
  <1>1. CASE BrokerTakes
    <2>1. up # <<>> /\ up' = Tail(up)
      BY <1>1 DEF BrokerTakes
    <2>2. Len(up') = Len(up) - 1 /\ \A j \in 1 .. Len(up') : up'[j] = up[j + 1]
      BY <1>t, <2>1, Taking
    <2>3. k + 1 \in 1 .. Len(up) /\ up'[k] = up[k + 1]
      BY <1>t, <2>2
    <2> QED
      BY <1>1, <2>3 DEF Good
  <1>2. CASE ~BrokerTakes
    <2>s. up' = up => Good
      BY <1>2
    <2>e. up' = <<>> => Good
      OBVIOUS
    <2>w. ASSUME NEW p \in UpPacket, Write(<<p>>), Added(p) PROVE Good
      <3>1. CASE silent
        BY <1>t, <2>s, <2>w, <3>1, Written
      <3>2. CASE ~silent
        <4>1. /\ up' = up \o <<p>> /\ Len(up') = Len(up) + 1 /\ up'[Len(up) + 1] = p
              /\ \A j \in 1 .. Len(up) : up'[j] = up[j]
          BY <1>t, <2>w, <3>2, Written
        <4>2. k \in 1 .. Len(up) \/ k = Len(up) + 1
          BY <1>t, <4>1
        <4> QED
          BY <1>2, <2>w, <3>2, <4>1, <4>2
      <3> QED
        BY <3>1, <3>2
    <2> HIDE DEF Good
    <2>1. CASE \E q \in QoS : publish(q)
      <3> PICK q \in QoS : publish(q)
        BY <2>1
      <3>1. PICK p \in UpPacket :
              /\ Write(<<p>>) /\ p.type \in {"PUBLISH0", "PUBLISH1", "PUBLISH2"} /\ p.value = published'
              /\ p.type # "PUBLISH0" => q # 0 /\ NextIdentifier /\ p.id = counter'
        BY Requested
      <3> QED
        BY <2>w, <3>1 DEF Added
    <2>2. CASE \E topic \in Topics : subscribe(topic)
      <3> PICK topic \in Topics : subscribe(topic)
        BY <2>2
      <3>1. PICK p \in UpPacket :
              Write(<<p>>) /\ p.type = "SUBSCRIBE" /\ p.id = counter' /\ p.value = topic
        BY Requested
      <3> QED
        BY <2>w, <3>1 DEF Added
    <2>3. CASE \E s \in active : unsubscribe(s)
      <3> PICK s \in active : unsubscribe(s)
        BY <2>3
      <3>1. CASE internal # "BrokerConnected"
        BY <2>s, <3>1 DEF unsubscribe
      <3>2. CASE internal = "BrokerConnected"
        <4>1. PICK p \in UpPacket :
                /\ Write(<<p>>) /\ p.type = "UNSUBSCRIBE" /\ p.id = counter'
                /\ p.value = subscriptions[s].topic
          BY <3>2, Requested
        <4> QED
          BY <2>w, <3>2, <4>1 DEF Added
      <3> QED
        BY <3>1, <3>2
    <2>4. CASE PingTimer
      <3>1. CASE PingsUnanswered
        BY <2>e, <2>4, <3>1 DEF PingTimer, closeConnection, DropTransport
      <3>2. CASE ~PingsUnanswered
        BY <2>w, <2>4, <3>2, Requested DEF Added
      <3> QED
        BY <3>1, <3>2
    <2>5. CASE ~Requesting
      <3>1. CASE \E p \in UpPacket :
                   Write(<<p>>) /\ p.type \in {"CONNECT", "PUBACK", "PUBREC", "PUBREL", "PUBCOMP"}
        BY <2>w, <3>1 DEF Added
      <3> QED
        BY <1>2, <2>5, <2>e, <2>s, <3>1, UpMoves
    <2> QED
      BY <2>1, <2>2, <2>3, <2>4, <2>5 DEF Requesting
  <1> QED
    BY <1>1, <1>2

\* On the way to the client is what was there, the answer of the broker, or a message.
LEMMA DownElements ==
  ASSUME Types, [Next]_vars, NEW k \in 1 .. Len(down')
  PROVE  \/ \E j \in 1 .. Len(down) : down'[k] = down[j]
         \/ down'[k].packet.type \in {"CONNACK", "PUBLISH1", "PUBLISH2", "PUBREL"}
         \/ BrokerTakes /\ Matches(Head(up), down'[k].packet) /\ Answer(Units(down'[k].packet))
            /\ down'[k].packet \in DownPacket
  <1> DEFINE Good ==
         \/ \E j \in 1 .. Len(down) : down'[k] = down[j]
         \/ down'[k].packet.type \in {"CONNACK", "PUBLISH1", "PUBLISH2", "PUBREL"}
         \/ BrokerTakes /\ Matches(Head(up), down'[k].packet) /\ Answer(Units(down'[k].packet))
            /\ down'[k].packet \in DownPacket
  <1>t. StreamTypes /\ BrokerTypes /\ Len(down) \in Nat
    BY DEF Types, StreamTypes
  <1>s. down' = down => Good
    OBVIOUS
  <1>e. down' = <<>> => Good
    OBVIOUS
  <1>a. ASSUME NEW a \in DownPacket, Answer(Units(a)),
               \/ a.type \in {"CONNACK", "PUBLISH1", "PUBLISH2", "PUBREL"}
               \/ BrokerTakes /\ Matches(Head(up), a)
        PROVE  Good
    <2>1. /\ Len(down') = Len(down) + 2 /\ \A j \in 1 .. Len(down) : down'[j] = down[j]
          /\ down'[Len(down) + 1].packet = a /\ down'[Len(down) + 2].packet = a
      BY <1>t, <1>a, Answered
    <2>2. k \in 1 .. Len(down) \/ k = Len(down) + 1 \/ k = Len(down) + 2
      BY <1>t, <2>1
    <2> QED
      BY <1>a, <2>1, <2>2
  <1> SUFFICES Good
    OBVIOUS
  <1> HIDE DEF Good
  <1>1. CASE BrokerTakes
    <2>1. CASE Head(up).type = "CONNECT" /\ BrokerConnects
      <3>1. PICK a \in DownPacket, r \in Seq(Unit) :
              down' = down \o Units(a) \o r /\ a.type = "CONNACK" /\ Repeats(r)
        BY <1>t, <2>1, Connects
      <3> DEFINE u == Units(a)
      <3>2. u \in Seq(Unit) /\ Len(u) = 2 /\ u[1].packet = a /\ u[2].packet = a
        BY UnitsAre
      <3> HIDE DEF u
      <3>0. /\ down \o u \in Seq(Unit) /\ Len(down \o u) = Len(down) + Len(u)
            /\ \A j \in 1 .. Len(down) + Len(u) :
                 (down \o u)[j] = IF j <= Len(down) THEN down[j] ELSE u[j - Len(down)]
        BY <1>t, <3>2, ConcatProperties DEF StreamTypes
      <3>3. /\ down \o u \in Seq(Unit) /\ Len(down \o u) = Len(down) + 2
            /\ \A j \in 1 .. Len(down) + 2 : (down \o u)[j] = IF j <= Len(down) THEN down[j] ELSE u[j - Len(down)]
        BY <3>0, <3>2
      <3> DEFINE d == down \o u
      <3> HIDE DEF d
      <3>8. down' = d \o r /\ d \in Seq(Unit) /\ Len(d) = Len(down) + 2 /\ r \in Seq(Unit)
        BY <3>1, <3>3 DEF d, u
      <3>4. /\ Len(d \o r) = Len(d) + Len(r) /\ Len(r) \in Nat
            /\ \A j \in 1 .. Len(d) + Len(r) : (d \o r)[j] = IF j <= Len(d) THEN d[j] ELSE r[j - Len(d)]
        BY <3>8, ConcatProperties, LenProperties
      <3>5. CASE k <= Len(down)
        <4>1. down'[k] = down[k] /\ k \in 1 .. Len(down)
          BY <1>t, <3>3, <3>4, <3>5, <3>8 DEF d
        <4> QED
          BY <4>1 DEF Good
      <3>6. CASE k > Len(down) /\ k <= Len(down) + 2
        <4>1. down'[k] = u[k - Len(down)] /\ k - Len(down) \in 1 .. 2
          BY <1>t, <3>3, <3>4, <3>6, <3>8 DEF d
        <4> QED
          BY <3>1, <3>2, <4>1 DEF Good
      <3>7. CASE k > Len(down) + 2
        <4>1. down'[k] = r[k - Len(d)] /\ k - Len(d) \in 1 .. Len(r)
          BY <1>t, <3>4, <3>7, <3>8
        <4> QED
          BY <3>1, <4>1 DEF Good, Repeats
      <3> QED
        BY <1>t, <3>5, <3>6, <3>7
    <2> QED
      BY <1>1, <1>a, <1>s, <1>t, <2>1, TakesOne
  <1>2. CASE ~BrokerTakes
    <2>1. CASE down # <<>> /\ down' = Tail(down)
      <3>1. k + 1 \in 1 .. Len(down) /\ down'[k] = down[k + 1]
        BY <1>t, <2>1, Reading
      <3> QED
        BY <3>1 DEF Good
    <2>2. CASE \E n \in Incoming, topic \in Topics, type \in {"PUBLISH1", "PUBLISH2"} :
                 /\ BrokerPublishes(n, topic, type)
                 /\ Packet(type, n, topic) \in DownPacket /\ Answer(Units(Packet(type, n, topic)))
      <3> PICK n \in Incoming, topic \in Topics, type \in {"PUBLISH1", "PUBLISH2"} :
                 Packet(type, n, topic) \in DownPacket /\ Answer(Units(Packet(type, n, topic)))
        BY <2>2
      <3>1. Packet(type, n, topic).type = type
        BY PacketParts
      <3> QED
        BY <1>a, <3>1
    <2> QED
      BY <1>2, <1>e, <1>s, <2>1, <2>2, DownMoves
  <1> QED
    BY <1>1, <1>2

LinkedUp ==
  \A k \in 1 .. Len(up) : up[k].type \in {"PUBLISH1", "PUBLISH2"} =>
    pendingMessages[up[k].id] = up[k].value

LinkedDown ==
  \A k \in 1 .. Len(down) : IsAnswer(k, {"PUBACK", "PUBREC"}) =>
    /\ pendingMessages[down[k].packet.id] # None
    /\ received[pendingMessages[down[k].packet.id]] = 1

LinkedRelease ==
  \A i \in Ids : pendingReleaseMessages[i] # None => received[pendingReleaseMessages[i]] = 1

\* A packet that is under way is the one its identifier waits for; what an acknowledgement
\* or a release is about has been received.
Linked ==
  ~exhausted => LinkedUp /\ LinkedDown /\ LinkedRelease /\ \A m \in sent : received[m] = 1

\* What is pending changes when a message is published or one of its answers is read.
LEMMA PendingMoves ==
  ASSUME [Next]_vars
  PROVE  \/ UNCHANGED <<pendingMessages, pendingReleaseMessages, sent>>
         \/ \E q \in QoS : publish(q)
         \/ finalize_puback \/ finalize_pubrec \/ finalize_pubcomp
  <1> DEFINE Same == UNCHANGED <<pendingMessages, pendingReleaseMessages, sent>>
  <1>1. connectToHost \/ disconnectConnected \/ disconnectConnecting => Same
    BY DEF connectToHost, disconnectConnected, disconnectConnecting, tables, history
  <1>2. (\E topic \in Topics : subscribe(topic)) \/ (\E s \in active : unsubscribe(s)) => Same
    BY DEF subscribe, unsubscribe, tables, history
  <1>3. PingTimer \/ transportConnectionEstablished \/ transportError \/ FallSilent
          \/ UNCHANGED vars => Same
    BY DEF PingTimer, transportConnectionEstablished, transportError, FallSilent, vars, tables, history
  <1>4. ReadHeader \/ Misread \/ finalize_connack => Same
    BY DEF ReadHeader, Misread, ProtocolViolation, finalize_connack, tables, history
  <1>5. finalize_suback \/ finalize_unsuback \/ finalize_publish \/ finalize_pubrel
          \/ finalize_pingresp => Same
    BY DEF finalize_suback, finalize_unsuback, finalize_publish, finalize_pubrel, finalize_pingresp,
           tables, history
  <1>6. BrokerTakes => Same
    BY DEF BrokerTakes, tables
  <1>7. (\E n \in Incoming, topic \in Topics, type \in {"PUBLISH1", "PUBLISH2"} :
           BrokerPublishes(n, topic, type)) => Same
    BY DEF BrokerPublishes, tables, history
  <1> HIDE DEF Same
  <1>8. Same \/ (\E q \in QoS : publish(q)) \/ finalize_puback \/ finalize_pubrec \/ finalize_pubcomp
    BY <1>1, <1>2, <1>3, <1>4, <1>5, <1>6, <1>7, Actions
  <1> QED
    BY <1>8 DEF Same

\* The answer read first of all is the only one about its message.
LEMMA TakenOnce ==
  ASSUME Base, PublishesOnce, LinkedDown, finalize_puback \/ finalize_pubrec
  PROVE  /\ Arriving.id \in Ids /\ pendingMessages[Arriving.id] \in Messages
         /\ received[pendingMessages[Arriving.id]] = 1
         /\ down # <<>> /\ down' = Tail(down)
         /\ \A k \in 1 .. Len(up) : up[k].type \in {"PUBLISH1", "PUBLISH2"} => up[k].id # Arriving.id
         /\ \A k \in 1 .. Len(down) :
              IsAnswer(k, {"PUBACK", "PUBREC"}) /\ down[k].packet.id = Arriving.id => k = 1
         /\ \A i \in Ids \ {Arriving.id} : pendingMessages'[i] = pendingMessages[i]
  <1>t. StreamTypes /\ TableTypes
    BY DEF Base, Types
  <1>1. /\ down # <<>> /\ down' = Tail(down) /\ Part = "body" /\ Arriving.type \in {"PUBACK", "PUBREC"}
    BY DEF finalize_puback, finalize_pubrec, Body, Consume
  <1>2. Arriving.id \in Ids /\ 1 \in 1 .. Len(down) /\ down[1] = Head(down)
    BY <1>t, <1>1, Reading, DownFields DEF StreamTypes
  <1>3. IsAnswer(1, {"PUBACK", "PUBREC"}) /\ down[1].packet.id = Arriving.id
    BY <1>1, <1>2 DEF IsAnswer, Part, Arriving
  <1>4. pendingMessages[Arriving.id] # None /\ received[pendingMessages[Arriving.id]] = 1
    BY <1>2, <1>3 DEF LinkedDown
  <1>5. Traffic({"PUBLISH1", "PUBLISH2"}, {"PUBACK", "PUBREC"}, Arriving.id)
          <= Occupied(pendingMessages, Arriving.id)
    BY <1>2 DEF PublishesOnce, OneExchange
  <1>6. /\ \A k \in 1 .. Len(up) : up[k].type \in {"PUBLISH1", "PUBLISH2"} => up[k].id # Arriving.id
        /\ \A k \in 1 .. Len(down) :
             IsAnswer(k, {"PUBACK", "PUBREC"}) /\ down[k].packet.id = Arriving.id => k = 1
    BY <1>t, <1>2, <1>3, <1>5, UnderWay
  <1>7. \A i \in Ids \ {Arriving.id} : pendingMessages'[i] = pendingMessages[i]
    BY <1>t DEF finalize_puback, finalize_pubrec, Taken, TableTypes, tables
  <1> QED
    BY <1>t, <1>1, <1>2, <1>4, <1>6, <1>7 DEF TableTypes

\* Requests carry what their identifiers wait for.
LEMMA LinkedUpStep ==
  ASSUME Base, PublishesOnce, Linked, [Next]_vars, ~exhausted, ~exhausted'
  PROVE  LinkedUp'
  <1>t. Types /\ StreamTypes /\ TableTypes /\ LinkedUp /\ LinkedDown /\ Len(up) \in Nat
    BY DEF Base, Types, Linked, StreamTypes
  <1> SUFFICES ASSUME NEW k \in 1 .. Len(up'), up'[k].type \in {"PUBLISH1", "PUBLISH2"}
               PROVE  pendingMessages'[up'[k].id] = up'[k].value
    BY DEF LinkedUp
  <1>1. CASE \E j \in 1 .. Len(up) : up'[k] = up[j]
    <2> PICK j \in 1 .. Len(up) : up'[k] = up[j]
      BY <1>1
    <2>1. up[j] \in UpPacket /\ up[j].type \in {"PUBLISH1", "PUBLISH2"}
      BY <1>t DEF StreamTypes
    <2>2. /\ up[j].id \in Ids /\ pendingMessages[up[j].id] # None
          /\ pendingMessages[up[j].id] = up[j].value
      BY <1>t, <2>1, UpFields DEF LinkedUp, Messages, None
    <2>3. CASE \E q \in QoS : publish(q)
      <3>1. \/ pendingMessages' = pendingMessages
            \/ NextIdentifier /\ pendingMessages' = [pendingMessages EXCEPT ![counter'] = published']
        BY <2>3 DEF publish
      <3>2. NextIdentifier => pendingMessages[counter'] = None
        BY NewIdentifier
      <3> QED
        BY <1>t, <2>2, <3>1, <3>2 DEF TableTypes
    <2>4. CASE finalize_puback \/ finalize_pubrec
      <3>1. up[j].id # Arriving.id
        BY <1>t, <2>1, <2>4, TakenOnce
      <3>2. pendingMessages'[up[j].id] = pendingMessages[up[j].id]
        BY <1>t, <2>2, <2>4, <3>1, TakenOnce
      <3> QED
        BY <2>2, <3>2
    <2>5. CASE pendingMessages' = pendingMessages
      BY <2>2, <2>5
    <2> QED
      BY <2>3, <2>4, <2>5, PendingMoves DEF finalize_pubcomp
  <1>2. CASE Added(up'[k])
    <2>1. PICK q \in QoS : publish(q) /\ q # 0 /\ NextIdentifier /\ up'[k].id = counter' /\ up'[k].value = published'
      BY <1>2 DEF Added
    <2>2. counter' \in Ids
      BY <1>t, <2>1, IdentifierGiven DEF TableTypes
    <2>3. pendingMessages' = [pendingMessages EXCEPT ![counter'] = published']
      BY <2>1 DEF publish
    <2> QED
      BY <1>t, <2>1, <2>2, <2>3 DEF TableTypes
  <1> QED
    BY <1>1, <1>2, <1>t, UpElements

\* Acknowledgements are about messages that were received.
LEMMA LinkedDownStep ==
  ASSUME Base, Base', PublishesOnce, DeliversOnce, DeliversOnce', Linked, [Next]_vars,
         ~exhausted, ~exhausted'
  PROVE  LinkedDown'
  <1>t. /\ Types /\ Types' /\ StreamTypes /\ TableTypes /\ BrokerTypes /\ LinkedUp /\ LinkedDown
        /\ Len(down) \in Nat
    BY DEF Base, Types, Linked, StreamTypes
  <1> SUFFICES ASSUME NEW k \in 1 .. Len(down'), down'[k].part = "body",
                      down'[k].packet.type \in {"PUBACK", "PUBREC"}
               PROVE  /\ pendingMessages'[down'[k].packet.id] # None
                      /\ received'[pendingMessages'[down'[k].packet.id]] = 1
    BY DEF LinkedDown, IsAnswer
  <1>j. ASSUME NEW j \in 1 .. Len(down), down'[k] = down[j]
        PROVE  /\ IsAnswer(j, {"PUBACK", "PUBREC"}) /\ down[j].packet.id \in Ids
               /\ pendingMessages[down[j].packet.id] \in Messages
               /\ received[pendingMessages[down[j].packet.id]] = 1
               /\ received'[pendingMessages[down[j].packet.id]] = 1
    <2>1. IsAnswer(j, {"PUBACK", "PUBREC"})
      BY <1>j DEF IsAnswer
    <2>2. down[j].packet.id \in Ids
      <3>1. down[j] \in Unit
        BY <1>t DEF StreamTypes
      <3> QED
        BY <1>j, <3>1, UnitParts, DownFields
    <2>3. /\ pendingMessages[down[j].packet.id] \in Messages
          /\ received[pendingMessages[down[j].packet.id]] = 1
      BY <1>t, <2>1, <2>2 DEF LinkedDown, TableTypes
    <2> QED
      BY <1>t, <2>1, <2>2, <2>3, ReceivedStays
  <1>1. CASE finalize_puback \/ finalize_pubrec
    <2>1. down # <<>> /\ down' = Tail(down)
      BY <1>1, <1>t, TakenOnce
    <2>2. k + 1 \in 1 .. Len(down) /\ down'[k] = down[k + 1] /\ k + 1 # 1
      BY <1>t, <2>1, Reading
    <2>3. /\ IsAnswer(k + 1, {"PUBACK", "PUBREC"}) /\ down[k + 1].packet.id \in Ids
          /\ pendingMessages[down[k + 1].packet.id] \in Messages
          /\ received'[pendingMessages[down[k + 1].packet.id]] = 1
      BY <1>j, <2>2
    <2>4. down[k + 1].packet.id # Arriving.id
      BY <1>1, <1>t, <2>2, <2>3, TakenOnce
    <2>5. pendingMessages'[down[k + 1].packet.id] = pendingMessages[down[k + 1].packet.id]
      BY <1>1, <1>t, <2>3, <2>4, TakenOnce
    <2> QED
      BY <2>2, <2>3, <2>5 DEF Messages, None
  <1>2. CASE \E j \in 1 .. Len(down) : down'[k] = down[j]
    <2> PICK j \in 1 .. Len(down) : down'[k] = down[j]
      BY <1>2
    <2>1. /\ down[j].packet.id \in Ids
          /\ pendingMessages[down[j].packet.id] \in Messages
          /\ received'[pendingMessages[down[j].packet.id]] = 1
      BY <1>j
    <2>2. CASE \E q \in QoS : publish(q)
      <3>1. \/ pendingMessages' = pendingMessages
            \/ NextIdentifier /\ pendingMessages' = [pendingMessages EXCEPT ![counter'] = published']
        BY <2>2 DEF publish
      <3>2. NextIdentifier => pendingMessages[counter'] = None
        BY NewIdentifier
      <3>3. pendingMessages'[down[j].packet.id] = pendingMessages[down[j].packet.id]
        BY <1>t, <2>1, <3>1, <3>2 DEF TableTypes, Messages, None
      <3> QED
        BY <2>1, <3>3 DEF Messages, None
    <2>3. CASE pendingMessages' = pendingMessages
      BY <2>1, <2>3 DEF Messages, None
    <2> QED
      BY <1>1, <2>2, <2>3, PendingMoves DEF finalize_pubcomp
  <1>3. CASE BrokerTakes /\ Matches(Head(up), down'[k].packet)
    <2>1. up # <<>> /\ pendingMessages' = pendingMessages
      BY <1>3 DEF BrokerTakes, tables
    <2>2. /\ Head(up) \in UpPacket /\ Head(up) = up[1] /\ 1 \in 1 .. Len(up)
          /\ Head(up).type \in {"PUBLISH1", "PUBLISH2"} /\ down'[k].packet.id = Head(up).id
      BY <1>3, <1>t, <2>1, Taking DEF Matches, StreamTypes
    <2>3. Head(up).value \in Messages /\ pendingMessages[Head(up).id] = Head(up).value
      BY <1>t, <2>2, UpFields DEF LinkedUp
    <2>4. received'[Head(up).value] = received[Head(up).value] + 1
      BY <1>3, <1>t, <2>2, <2>3, Receives DEF BrokerTypes
    <2>5. received'[Head(up).value] = 1
      BY <1>t, <2>3, <2>4, ReceivedStays
    <2> QED
      BY <2>1, <2>2, <2>3, <2>5 DEF Messages, None
  <1> QED
    BY <1>2, <1>3, <1>t, DownElements

\* What waits for its release, and what is reported, was received.
LEMMA LinkedRestStep ==
  ASSUME Base, Base', PublishesOnce, DeliversOnce, DeliversOnce', Linked, [Next]_vars,
         ~exhausted, ~exhausted'
  PROVE  LinkedRelease' /\ \A m \in sent' : received'[m] = 1
  <1>t. /\ Types /\ Types' /\ StreamTypes /\ TableTypes /\ HistoryTypes
        /\ LinkedDown /\ LinkedRelease /\ \A m \in sent : received[m] = 1
    BY DEF Base, Types, Linked
  <1>m. \A m \in Messages : received[m] = 1 => received'[m] = 1
    BY <1>t, ReceivedStays
  <1>s. \A m \in sent : received'[m] = 1
    BY <1>t, <1>m DEF HistoryTypes
  <1>r. \A i \in Ids : pendingReleaseMessages[i] # None => received'[pendingReleaseMessages[i]] = 1
    BY <1>t, <1>m DEF LinkedRelease, TableTypes
  <1>1. CASE UNCHANGED <<pendingReleaseMessages, sent>>
    BY <1>1, <1>s, <1>r DEF LinkedRelease
  <1>2. CASE finalize_puback
    <2>1. pendingMessages[Arriving.id] \in Messages /\ received[pendingMessages[Arriving.id]] = 1
      BY <1>2, <1>t, TakenOnce
    <2>2. received'[pendingMessages[Arriving.id]] = 1
      BY <1>m, <2>1
    <2> QED
      BY <1>2, <1>s, <1>r, <2>2 DEF LinkedRelease, finalize_puback
  <1>3. CASE finalize_pubrec
    <2>1. Arriving.id \in Ids /\ pendingMessages[Arriving.id] \in Messages
          /\ received[pendingMessages[Arriving.id]] = 1
      BY <1>3, <1>t, TakenOnce
    <2>2. received'[pendingMessages[Arriving.id]] = 1
      BY <1>m, <2>1
    <2>3. sent' = sent
      BY <1>3 DEF finalize_pubrec, history
    <2>4. \/ pendingReleaseMessages' = pendingReleaseMessages
          \/ pendingReleaseMessages' =
               [pendingReleaseMessages EXCEPT ![Arriving.id] = pendingMessages[Arriving.id]]
      BY <1>3 DEF finalize_pubrec, tables
    <2>5. \A i \in Ids : \/ pendingReleaseMessages'[i] = pendingReleaseMessages[i]
                         \/ pendingReleaseMessages'[i] = pendingMessages[Arriving.id]
      BY <1>t, <2>1, <2>4 DEF TableTypes
    <2>6. LinkedRelease'
      BY <1>r, <2>2, <2>5 DEF LinkedRelease
    <2> QED
      BY <1>s, <2>3, <2>6
  <1>4. CASE finalize_pubcomp
    <2>1. down # <<>> /\ Arriving.type = "PUBCOMP"
      BY <1>4 DEF finalize_pubcomp, Body
    <2>2. Arriving.id \in Ids
      BY <1>t, <2>1, Reading, DownFields
    <2>3. pendingReleaseMessages' = [pendingReleaseMessages EXCEPT ![Arriving.id] = None]
      BY <1>4 DEF finalize_pubcomp, Taken
    <2>4. \A i \in Ids : pendingReleaseMessages'[i] # None =>
            pendingReleaseMessages'[i] = pendingReleaseMessages[i]
      BY <1>t, <2>2, <2>3 DEF TableTypes
    <2>5. LinkedRelease'
      BY <1>r, <2>4 DEF LinkedRelease
    <2>6. \A m \in sent' : received'[m] = 1
      BY <1>4, <1>s, <1>r, <2>2 DEF finalize_pubcomp
    <2> QED
      BY <2>5, <2>6
  <1>5. CASE \E q \in QoS : publish(q)
    BY <1>1, <1>5 DEF publish, AwaitAnswer
  <1> QED
    BY <1>1, <1>2, <1>3, <1>4, <1>5, PendingMoves

Delivery == Base /\ Exchanges /\ DeliversOnce /\ Linked

\* Nothing is published at the start.
LEMMA InitDelivery == Init => Delivery
  <1> SUFFICES ASSUME Init PROVE Delivery
    OBVIOUS
  <1>1. Base /\ Exchanges
    BY InitBase, InitExchanges
  <1>2. DeliversOnce
    <2>1. \A S : Count(<<>>, S) = 0
      BY CountNone
    <2> QED
      BY <2>1 DEF Init, DeliversOnce, Messages
  <1>3. Linked
    BY DEF Init, Linked, LinkedUp, LinkedDown, LinkedRelease
  <1> QED
    BY <1>1, <1>2, <1>3 DEF Delivery

\* Every step keeps the links between the messages and their acknowledgements.
LEMMA DeliveryStep == Delivery /\ [Next]_vars => Delivery'
  <1> SUFFICES ASSUME Delivery, [Next]_vars PROVE Delivery'
    OBVIOUS
  <1>1. Base /\ Base' /\ Exchanges /\ Exchanges' /\ Types /\ DeliversOnce /\ Linked
    BY BaseStep, ExchangesStep DEF Delivery, Base
  <1>2. DeliversOnce'
    BY <1>1, DeliversOnceStep
  <1>3. Linked'
    <2> SUFFICES ASSUME ~exhausted'
                 PROVE  (LinkedUp /\ LinkedDown /\ LinkedRelease /\ \A m \in sent : received[m] = 1)'
      BY DEF Linked
    <2>1. ~exhausted /\ PublishesOnce
      BY <1>1, ExhaustedStays DEF Exchanges
    <2> QED
      BY <1>1, <1>2, <2>1, LinkedUpStep, LinkedDownStep, LinkedRestStep
  <1> QED
    BY <1>1, <1>2, <1>3 DEF Delivery

\* messageSent is emitted for a message the broker has received, and no message is received
\* twice, over every loss of the connection (finalize_puback, finalize_pubrec, finalize_pubcomp).
THEOREM Delivered == Spec => []SentOnlyIfReceived
  <1>1. Delivery => SentOnlyIfReceived
    <2> SUFFICES ASSUME Delivery, ~exhausted, NEW m \in Messages
                 PROVE  received[m] <= 1 /\ (m \in sent => received[m] = 1)
      BY DEF SentOnlyIfReceived
    <2>1. Count(up, Carries(m)) \in Nat /\ received[m] \in Nat
      BY CountType DEF Delivery, Base, Types, StreamTypes, BrokerTypes
    <2>2. received[m] <= 1
      BY <2>1 DEF Delivery, DeliversOnce
    <2> QED
      BY <2>2 DEF Delivery, Linked
  <1> QED
    BY <1>1, InitDelivery, DeliveryStep, PTL DEF Spec

-----------------------------------------------------------------------------
(* While the client is connected. *)

Established == internal = "BrokerConnected"

\* Four steps change the subscriptions of a connection that stays established.
LEMMA OnlineMoves ==
  ASSUME Base, [Next]_vars, Established, Established'
  PROVE  /\ restored' = restored
         /\ session' = session \/ BrokerTakes
         /\ \/ UNCHANGED <<pendingSubscriptionAck, pendingUnsubscriptions, subscriptions, active>>
            \/ \E topic \in Topics : subscribe(topic)
            \/ \E s \in active : unsubscribe(s)
            \/ finalize_suback \/ finalize_unsuback
  <1> DEFINE Same == UNCHANGED <<pendingSubscriptionAck, pendingUnsubscriptions, subscriptions, active>>
             Kept == restored' = restored /\ (session' = session \/ BrokerTakes)
  <1>t. StreamTypes /\ Phases /\ Handshake
    BY DEF Base, Types
  <1>1. ~connectToHost /\ ~disconnectConnected /\ ~disconnectConnecting
          /\ ~transportConnectionEstablished /\ ~transportError
    BY DEF Established, connectToHost, disconnectConnected, disconnectConnecting,
           transportConnectionEstablished, transportError, closeConnection
  <1>2. ~(socket = "open" /\ finalize_connack)
    <2> SUFFICES ASSUME socket = "open", finalize_connack PROVE FALSE
      OBVIOUS
    <2>1. down # <<>> /\ Arriving.type = "CONNACK"
      BY DEF finalize_connack, Body
    <2>2. 1 \in 1 .. Len(down) /\ Head(down) = down[1]
      BY <1>t, <2>1 DEF StreamTypes
    <2>3. Waits
      BY <1>t, <2>1, <2>2 DEF Handshake, NoConnack, Arriving
    <2> QED
      BY <2>3 DEF Waits, Established
  <1>3. (\E q \in QoS : publish(q)) => Kept /\ Same
    BY DEF publish, subVars, broker
  <1>4. (\E topic \in Topics : subscribe(topic)) \/ (\E s \in active : unsubscribe(s)) => Kept
    BY DEF subscribe, unsubscribe, broker, history
  <1>5. PingTimer => Kept /\ Same
    BY DEF PingTimer, closeConnection, Established, broker, history, subVars
  <1>6. ReadHeader \/ Misread => Kept /\ Same
    BY DEF ReadHeader, Misread, ProtocolViolation, closeConnection, Established, broker, history, subVars
  <1>7. finalize_suback \/ finalize_unsuback => Kept
    BY DEF finalize_suback, finalize_unsuback, broker, history
  <1>8. finalize_publish \/ finalize_pubrel \/ finalize_puback => Kept /\ Same
    BY DEF finalize_publish, finalize_pubrel, finalize_puback, broker, history, subVars
  <1>9. finalize_pubrec \/ finalize_pubcomp \/ finalize_pingresp => Kept /\ Same
    BY DEF finalize_pubrec, finalize_pubcomp, finalize_pingresp, broker, history, subVars
  <1>10. BrokerTakes => Kept /\ Same
    BY DEF BrokerTakes, subVars
  <1>11. FallSilent \/ UNCHANGED vars => Kept /\ Same
    BY DEF FallSilent, vars, broker, history, subVars
  <1>12. (\E n \in Incoming, topic \in Topics, type \in {"PUBLISH1", "PUBLISH2"} :
            BrokerPublishes(n, topic, type)) => Kept /\ Same
    BY DEF BrokerPublishes, history, subVars
  <1> HIDE DEF Same, Kept
  <1>13. Kept /\ (Same \/ (\E topic \in Topics : subscribe(topic)) \/ (\E s \in active : unsubscribe(s))
                   \/ finalize_suback \/ finalize_unsuback)
    BY <1>1, <1>2, <1>3, <1>4, <1>5, <1>6, <1>7, <1>8, <1>9, <1>10, <1>11, <1>12, Actions
  <1>14. Kept
    BY <1>13
  <1>15. Same \/ (\E topic \in Topics : subscribe(topic)) \/ (\E s \in active : unsubscribe(s))
              \/ finalize_suback \/ finalize_unsuback
    BY <1>13
  <1>16. restored' = restored /\ (session' = session \/ BrokerTakes)
    BY <1>14, Zenon DEF Kept
  <1> QED
    BY <1>15, <1>16, Zenon DEF Same

\* Behind every request and every answer under way there is the entry it is about.
LEMMA EntriesWait ==
  ASSUME Types, SubscribesOnce, UnsubscribesOnce
  PROVE  /\ \A k \in 1 .. Len(up) :
              /\ up[k].type = "SUBSCRIBE" =>
                   /\ up[k].id \in Ids /\ pendingSubscriptionAck[up[k].id] # None
                   /\ \A j \in 1 .. Len(down) : ~(IsAnswer(j, {"SUBACK"}) /\ down[j].packet.id = up[k].id)
              /\ up[k].type = "UNSUBSCRIBE" =>
                   /\ up[k].id \in Ids /\ pendingUnsubscriptions[up[k].id] # None
                   /\ \A j \in 1 .. Len(down) : ~(IsAnswer(j, {"UNSUBACK"}) /\ down[j].packet.id = up[k].id)
         /\ \A k \in 1 .. Len(down) :
              /\ IsAnswer(k, {"SUBACK"}) =>
                   down[k].packet.id \in Ids /\ pendingSubscriptionAck[down[k].packet.id] # None
              /\ IsAnswer(k, {"UNSUBACK"}) =>
                   down[k].packet.id \in Ids /\ pendingUnsubscriptions[down[k].packet.id] # None
  <1>t. StreamTypes
    BY DEF Types
  <1>u. \A k \in 1 .. Len(up) :
          /\ up[k].type = "SUBSCRIBE" =>
               /\ up[k].id \in Ids /\ pendingSubscriptionAck[up[k].id] # None
               /\ \A j \in 1 .. Len(down) : ~(IsAnswer(j, {"SUBACK"}) /\ down[j].packet.id = up[k].id)
          /\ up[k].type = "UNSUBSCRIBE" =>
               /\ up[k].id \in Ids /\ pendingUnsubscriptions[up[k].id] # None
               /\ \A j \in 1 .. Len(down) : ~(IsAnswer(j, {"UNSUBACK"}) /\ down[j].packet.id = up[k].id)
    <2> TAKE k \in 1 .. Len(up)
    <2>1. up[k] \in UpPacket
      BY <1>t DEF StreamTypes
    <2>2. ASSUME up[k].type = "SUBSCRIBE"
          PROVE  /\ up[k].id \in Ids /\ pendingSubscriptionAck[up[k].id] # None
                 /\ \A j \in 1 .. Len(down) : ~(IsAnswer(j, {"SUBACK"}) /\ down[j].packet.id = up[k].id)
      <3>1. up[k].id \in Ids /\ up[k].type \in {"SUBSCRIBE"}
        BY <2>1, <2>2, UpFields
      <3>2. Traffic({"SUBSCRIBE"}, {"SUBACK"}, up[k].id) <= Occupied(pendingSubscriptionAck, up[k].id)
        BY <3>1 DEF SubscribesOnce, OneExchange
      <3> QED
        BY <1>t, <3>1, <3>2, UnderWay
    <2>3. ASSUME up[k].type = "UNSUBSCRIBE"
          PROVE  /\ up[k].id \in Ids /\ pendingUnsubscriptions[up[k].id] # None
                 /\ \A j \in 1 .. Len(down) : ~(IsAnswer(j, {"UNSUBACK"}) /\ down[j].packet.id = up[k].id)
      <3>1. up[k].id \in Ids /\ up[k].type \in {"UNSUBSCRIBE"}
        BY <2>1, <2>3, UpFields
      <3>2. Traffic({"UNSUBSCRIBE"}, {"UNSUBACK"}, up[k].id) <= Occupied(pendingUnsubscriptions, up[k].id)
        BY <3>1 DEF UnsubscribesOnce, OneExchange
      <3> QED
        BY <1>t, <3>1, <3>2, UnderWay
    <2> QED
      BY <2>2, <2>3
  <1>d. \A k \in 1 .. Len(down) :
          /\ IsAnswer(k, {"SUBACK"}) =>
               down[k].packet.id \in Ids /\ pendingSubscriptionAck[down[k].packet.id] # None
          /\ IsAnswer(k, {"UNSUBACK"}) =>
               down[k].packet.id \in Ids /\ pendingUnsubscriptions[down[k].packet.id] # None
    <2> TAKE k \in 1 .. Len(down)
    <2>1. down[k] \in Unit
      BY <1>t DEF StreamTypes
    <2>2. ASSUME IsAnswer(k, {"SUBACK"})
          PROVE  down[k].packet.id \in Ids /\ pendingSubscriptionAck[down[k].packet.id] # None
      <3>1. down[k].packet.id \in Ids
        BY <2>1, <2>2, UnitParts, DownFields DEF IsAnswer
      <3>2. Traffic({"SUBSCRIBE"}, {"SUBACK"}, down[k].packet.id)
              <= Occupied(pendingSubscriptionAck, down[k].packet.id)
        BY <3>1 DEF SubscribesOnce, OneExchange
      <3> QED
        BY <1>t, <2>2, <3>1, <3>2, UnderWay
    <2>3. ASSUME IsAnswer(k, {"UNSUBACK"})
          PROVE  down[k].packet.id \in Ids /\ pendingUnsubscriptions[down[k].packet.id] # None
      <3>1. down[k].packet.id \in Ids
        BY <2>1, <2>3, UnitParts, DownFields DEF IsAnswer
      <3>2. Traffic({"UNSUBSCRIBE"}, {"UNSUBACK"}, down[k].packet.id)
              <= Occupied(pendingUnsubscriptions, down[k].packet.id)
        BY <3>1 DEF UnsubscribesOnce, OneExchange
      <3> QED
        BY <1>t, <2>3, <3>1, <3>2, UnderWay
    <2> QED
      BY <2>2, <2>3
  <1> QED
    BY <1>u, <1>d

\* The object of a topic keeps it, and a request keeps the entry it waits for.
LEMMA EntriesStay ==
  ASSUME Base, SubscribesOnce, UnsubscribesOnce, [Next]_vars, Established, Established', ~exhausted'
  PROVE  /\ \A s \in DOMAIN subscriptions :
              s \in DOMAIN subscriptions' /\ subscriptions'[s].topic = subscriptions[s].topic
         /\ \A k \in 1 .. Len(up) : up[k].type = "SUBSCRIBE" =>
              pendingSubscriptionAck'[up[k].id] = pendingSubscriptionAck[up[k].id]
         /\ \A k \in 1 .. Len(up) : up[k].type = "UNSUBSCRIBE" =>
              pendingUnsubscriptions'[up[k].id] = pendingUnsubscriptions[up[k].id]
         /\ \A k \in 1 .. Len(down) : IsAnswer(k, {"UNSUBACK"}) =>
              \/ pendingUnsubscriptions'[down[k].packet.id] = pendingUnsubscriptions[down[k].packet.id]
              \/ pendingUnsubscriptions'[down[k].packet.id] = None
         /\ \A k \in 1 .. Len(down) : IsAnswer(k, {"SUBACK"}) =>
              \/ pendingSubscriptionAck'[down[k].packet.id] = pendingSubscriptionAck[down[k].packet.id]
              \/ finalize_suback /\ down[k].packet.id = Arriving.id
         /\ \A s \in active \ active' : finalize_unsuback /\ s = pendingUnsubscriptions[Arriving.id]
  <1>t. Types /\ StreamTypes /\ TableTypes
    BY DEF Base, Types
  <1>u. \A k \in 1 .. Len(up) :
          /\ up[k].type = "SUBSCRIBE" =>
               /\ up[k].id \in Ids /\ pendingSubscriptionAck[up[k].id] # None
               /\ \A j \in 1 .. Len(down) : ~(IsAnswer(j, {"SUBACK"}) /\ down[j].packet.id = up[k].id)
          /\ up[k].type = "UNSUBSCRIBE" =>
               /\ up[k].id \in Ids /\ pendingUnsubscriptions[up[k].id] # None
               /\ \A j \in 1 .. Len(down) : ~(IsAnswer(j, {"UNSUBACK"}) /\ down[j].packet.id = up[k].id)
    BY <1>t, EntriesWait
  <1>d. \A k \in 1 .. Len(down) :
          /\ IsAnswer(k, {"SUBACK"}) =>
               down[k].packet.id \in Ids /\ pendingSubscriptionAck[down[k].packet.id] # None
          /\ IsAnswer(k, {"UNSUBACK"}) =>
               down[k].packet.id \in Ids /\ pendingUnsubscriptions[down[k].packet.id] # None
    BY <1>t, EntriesWait
  <1>1. CASE UNCHANGED <<pendingSubscriptionAck, pendingUnsubscriptions, subscriptions, active>>
    BY <1>1
  <1>2. CASE \E topic \in Topics : subscribe(topic)
    <2> PICK topic \in Topics : subscribe(topic)
      BY <1>2
    <2>1. NextIdentifier /\ counter' \in Ids /\ pendingSubscriptionAck[counter'] = None
      BY <1>t, IdentifierGiven, NewIdentifier DEF subscribe, TableTypes
    <2>2. /\ pendingSubscriptionAck' = [pendingSubscriptionAck EXCEPT ![counter'] = Len(subscriptions')]
          /\ pendingUnsubscriptions' = pendingUnsubscriptions /\ active \subseteq active'
      BY DEF subscribe
    <2>3. \A s \in DOMAIN subscriptions :
            s \in DOMAIN subscriptions' /\ subscriptions'[s].topic = subscriptions[s].topic
      BY <1>t DEF subscribe, TableTypes
    <2>4. \A i \in Ids : i # counter' => pendingSubscriptionAck'[i] = pendingSubscriptionAck[i]
      BY <1>t, <2>1, <2>2 DEF TableTypes
    <2> QED
      BY <1>u, <1>d, <2>1, <2>2, <2>3, <2>4
  <1>3. CASE \E s \in active : unsubscribe(s)
    <2> PICK s \in active : unsubscribe(s)
      BY <1>3
    <2>1. NextIdentifier /\ counter' \in Ids /\ pendingUnsubscriptions[counter'] = None
      BY <1>t, IdentifierGiven, NewIdentifier DEF unsubscribe, TableTypes, Established
    <2>2. /\ pendingUnsubscriptions' = [pendingUnsubscriptions EXCEPT ![counter'] = s]
          /\ pendingSubscriptionAck' = pendingSubscriptionAck /\ active' = active
          /\ subscriptions' = InState({s}, "UnsubscriptionPending")
      BY DEF unsubscribe, Established, KeptUntilAcknowledged
    <2>3. \A t \in DOMAIN subscriptions :
            t \in DOMAIN subscriptions' /\ subscriptions'[t].topic = subscriptions[t].topic
      BY <1>t, <2>2, InStateIs DEF TableTypes, SubscriptionStates
    <2>4. \A i \in Ids : i # counter' => pendingUnsubscriptions'[i] = pendingUnsubscriptions[i]
      BY <1>t, <2>1, <2>2 DEF TableTypes
    <2> QED
      BY <1>u, <1>d, <2>1, <2>2, <2>3, <2>4
  <1>4. CASE finalize_suback
    <2>1. down # <<>> /\ Arriving.type = "SUBACK" /\ Part = "body"
      BY <1>4 DEF finalize_suback, Body
    <2>2. /\ Arriving.id \in Ids /\ 1 \in 1 .. Len(down)
          /\ IsAnswer(1, {"SUBACK"}) /\ down[1].packet.id = Arriving.id
      BY <1>t, <2>1, Reading, DownFields DEF IsAnswer, Arriving, Part, StreamTypes
    <2>3. /\ pendingSubscriptionAck' = [pendingSubscriptionAck EXCEPT ![Arriving.id] = None]
          /\ pendingUnsubscriptions' = pendingUnsubscriptions /\ active' = active
          /\ subscriptions' = InState({pendingSubscriptionAck[Arriving.id]}, AckedState(Arriving.value))
      BY <1>4 DEF finalize_suback
    <2>4. \A t \in DOMAIN subscriptions :
            t \in DOMAIN subscriptions' /\ subscriptions'[t].topic = subscriptions[t].topic
      BY <1>t, <2>3, InStateIs DEF TableTypes, SubscriptionStates, AckedState
    <2>5. \A i \in Ids : i # Arriving.id => pendingSubscriptionAck'[i] = pendingSubscriptionAck[i]
      BY <1>t, <2>3 DEF TableTypes
    <2> QED
      BY <1>4, <1>u, <1>d, <2>2, <2>3, <2>4, <2>5
  <1>5. CASE finalize_unsuback
    <2>1. down # <<>> /\ Arriving.type = "UNSUBACK" /\ Part = "body"
      BY <1>5 DEF finalize_unsuback, Body
    <2>2. /\ Arriving.id \in Ids /\ 1 \in 1 .. Len(down)
          /\ IsAnswer(1, {"UNSUBACK"}) /\ down[1].packet.id = Arriving.id
      BY <1>t, <2>1, Reading, DownFields DEF IsAnswer, Arriving, Part, StreamTypes
    <2>3. /\ pendingUnsubscriptions' = [pendingUnsubscriptions EXCEPT ![Arriving.id] = None]
          /\ pendingSubscriptionAck' = pendingSubscriptionAck
          /\ active' = active \ {pendingUnsubscriptions[Arriving.id]}
          /\ subscriptions' = InState({pendingUnsubscriptions[Arriving.id]}, "Unsubscribed")
      BY <1>5 DEF finalize_unsuback
    <2>4. \A t \in DOMAIN subscriptions :
            t \in DOMAIN subscriptions' /\ subscriptions'[t].topic = subscriptions[t].topic
      BY <1>t, <2>3, InStateIs DEF TableTypes, SubscriptionStates
    <2>5. /\ pendingUnsubscriptions'[Arriving.id] = None
          /\ \A i \in Ids : i # Arriving.id => pendingUnsubscriptions'[i] = pendingUnsubscriptions[i]
      BY <1>t, <2>2, <2>3 DEF TableTypes
    <2> QED
      BY <1>5, <1>u, <1>d, <2>2, <2>3, <2>4, <2>5
  <1> QED
    BY <1>1, <1>2, <1>3, <1>4, <1>5, OnlineMoves

-----------------------------------------------------------------------------
(* What the broker sends to this connection finds a subscription. *)

\* Only the broker changes what it holds.
LEMMA SessionMoves ==
  ASSUME [Next]_vars
  PROVE  session' = session \/ BrokerTakes
  <1> DEFINE Same == session' = session
  <1>1. connectToHost \/ disconnectConnected \/ disconnectConnecting => Same
    BY DEF connectToHost, disconnectConnected, disconnectConnecting, broker
  <1>2. (\E q \in QoS : publish(q)) \/ (\E topic \in Topics : subscribe(topic))
          \/ (\E s \in active : unsubscribe(s)) => Same
    BY DEF publish, subscribe, unsubscribe, broker
  <1>3. PingTimer \/ transportConnectionEstablished \/ transportError \/ FallSilent
          \/ UNCHANGED vars => Same
    BY DEF PingTimer, transportConnectionEstablished, transportError, FallSilent, vars, broker
  <1>4. ReadHeader \/ Misread \/ finalize_connack => Same
    BY DEF ReadHeader, Misread, ProtocolViolation, finalize_connack, broker
  <1>5. finalize_suback \/ finalize_unsuback \/ finalize_publish \/ finalize_pubrel
          \/ finalize_pingresp => Same
    BY DEF finalize_suback, finalize_unsuback, finalize_publish, finalize_pubrel, finalize_pingresp, broker
  <1>6. finalize_puback \/ finalize_pubrec \/ finalize_pubcomp => Same
    BY DEF finalize_puback, finalize_pubrec, finalize_pubcomp, broker
  <1>7. (\E n \in Incoming, topic \in Topics, type \in {"PUBLISH1", "PUBLISH2"} :
           BrokerPublishes(n, topic, type)) => Same
    BY DEF BrokerPublishes
  <1> HIDE DEF Same
  <1>8. Same \/ BrokerTakes
    BY <1>1, <1>2, <1>3, <1>4, <1>5, <1>6, <1>7, Actions
  <1> QED
    BY <1>8 DEF Same

\* The connection is established by the answer to CONNECT, and waited for once it is open.
LEMMA Beginnings ==
  ASSUME [Next]_vars
  PROVE  /\ Established' => Established \/ (socket = "open" /\ finalize_connack /\ Arriving.value = 0)
         /\ Waits' => Waits \/ transportConnectionEstablished
  <1> DEFINE Same == internal' = internal
             Ends == internal' \in {"BrokerDisconnected", "BrokerConnecting"}
  <1>1. connectToHost \/ disconnectConnected \/ transportError => Ends
    BY DEF connectToHost, disconnectConnected, transportError, closeConnection
  <1>2. disconnectConnecting => Same
    BY DEF disconnectConnecting
  <1>3. (\E q \in QoS : publish(q)) \/ (\E topic \in Topics : subscribe(topic))
          \/ (\E s \in active : unsubscribe(s)) => Same
    BY DEF publish, subscribe, unsubscribe, client
  <1>4. PingTimer => Same \/ Ends
    BY DEF PingTimer, closeConnection, client
  <1>5. ReadHeader \/ Misread => Same \/ Ends
    BY DEF ReadHeader, Misread, ProtocolViolation, closeConnection, client
  <1>6. finalize_connack => Ends \/ (Arriving.value = 0 /\ Established')
    BY DEF finalize_connack, closeConnection, Established
  <1>7. finalize_suback \/ finalize_unsuback \/ finalize_publish \/ finalize_pubrel => Same
    BY DEF finalize_suback, finalize_unsuback, finalize_publish, finalize_pubrel, client
  <1>8. finalize_puback \/ finalize_pubrec \/ finalize_pubcomp \/ finalize_pingresp => Same
    BY DEF finalize_puback, finalize_pubrec, finalize_pubcomp, finalize_pingresp, client
  <1>9. BrokerTakes => Same
    BY DEF BrokerTakes, client
  <1>10. FallSilent \/ UNCHANGED vars => Same
    BY DEF FallSilent, vars, client
  <1>11. (\E n \in Incoming, topic \in Topics, type \in {"PUBLISH1", "PUBLISH2"} :
            BrokerPublishes(n, topic, type)) => Same
    BY DEF BrokerPublishes, client
  <1> HIDE DEF Same, Ends
  <1>12. \/ Same \/ Ends \/ transportConnectionEstablished
         \/ (socket = "open" /\ finalize_connack /\ Arriving.value = 0 /\ Established')
    BY <1>1, <1>2, <1>3, <1>4, <1>5, <1>6, <1>7, <1>8, <1>9, <1>10, <1>11, Actions
  <1>13. CASE Same \/ Ends
    BY <1>13 DEF Same, Ends, Established, Waits
  <1>14. CASE transportConnectionEstablished
    BY <1>14 DEF transportConnectionEstablished, Established, Waits
  <1>15. CASE socket = "open" /\ finalize_connack /\ Arriving.value = 0 /\ Established'
    BY <1>15 DEF Established, Waits
  <1> QED
    BY <1>12, <1>13, <1>14, <1>15

\* A broker that begins a new session holds nothing and sends nothing but its answer.
FreshSession ==
  Waits /\ down # <<>> /\ down[1].packet.id = 0 =>
    session = {} /\ \A k \in 1 .. Len(down) : down[k].packet.type = "CONNACK"

\* It stays so until the answer is read.
LEMMA FreshSessionStep == Base /\ FreshSession /\ [Next]_vars => FreshSession'
  <1> SUFFICES ASSUME Base, FreshSession, [Next]_vars, Waits', down' # <<>>, down'[1].packet.id = 0
               PROVE  session' = {} /\ \A k \in 1 .. Len(down') : down'[k].packet.type = "CONNACK"
    BY DEF FreshSession
  <1>t. Types /\ StreamTypes /\ BrokerTypes /\ Phases /\ Handshake /\ Framed /\ Len(down) \in Nat
    BY DEF Base, Types, StreamTypes
  <1>p. StreamTypes' /\ Phases' /\ Handshake'
    BY BaseStep DEF Base, Types
  <1>o. socket' = "open" /\ ~silent'
    BY <1>p DEF Phases
  <1>c. down'[1].packet.type = "CONNACK"
    BY <1>o, <1>p DEF Handshake
  <1>1. CASE transportConnectionEstablished
    BY <1>1, <1>t DEF transportConnectionEstablished, Phases
  <1>2. CASE Waits /\ BrokerTakes
    <2>1. up = <<Packet("CONNECT", None, None)>> /\ down = <<>>
      BY <1>2, <1>t DEF BrokerTakes, Answering, Handshake
    <2>2. Head(up).type = "CONNECT"
      BY <2>1, PacketParts
    <2>3. BrokerConnects
      BY <1>2, <2>2 DEF BrokerTakes
    <2>4. PICK a \in DownPacket, r \in Seq(Unit) :
            /\ down' = down \o Units(a) \o r /\ a.type = "CONNACK"
            /\ a.id = 0 => r = <<>> /\ session' = {}
      BY <1>t, <2>3, Connects
    <2> DEFINE u == Units(a)
    <2>5. u \in Seq(Unit) /\ Len(u) = 2 /\ u[1].packet = a /\ u[2].packet = a
      BY UnitsAre
    <2> HIDE DEF u
    <2>6. down' = u \o r
      BY <2>1, <2>4, <2>5 DEF u
    <2>7. (u \o r)[1] = u[1]
      BY <2>5, ConcatProperties
    <2>8. a.id = 0
      BY <2>5, <2>6, <2>7
    <2>9. down' = u
      BY <2>4, <2>5, <2>6, <2>8, ConcatEmptySeq
    <2>10. \A k \in 1 .. Len(down') : down'[k].packet = a
      <3>1. \A k \in 1 .. 2 : k = 1 \/ k = 2
        OBVIOUS
      <3>2. \A k \in 1 .. Len(u) : u[k].packet = a
        BY <2>5, <3>1
      <3> QED
        BY <2>9, <3>2
    <2> QED
      BY <2>4, <2>8, <2>10
  <1>3. CASE Waits /\ ~BrokerTakes
    <2>s. session' = session
      BY <1>3, SessionMoves
    <2>1. CASE down' = down
      BY <1>3, <2>1, <2>s DEF FreshSession
    <2>2. CASE down # <<>> /\ down' = Tail(down)
      <3>1. /\ Len(down') = Len(down) - 1 /\ \A k \in 1 .. Len(down') : down'[k] = down[k + 1]
            /\ 1 \in 1 .. Len(down') /\ Len(down') \in Nat
        BY <1>p, <1>t, <2>2, Reading DEF StreamTypes
      <3>2. 2 \in 1 .. Len(down) /\ down'[1] = down[2] /\ 1 \in 1 .. Len(down)
        BY <1>t, <3>1
      <3>3. ~missing
        BY <1>c, <1>t, <3>2 DEF Handshake
      <3>4. socket = "open" /\ ~silent
        BY <1>t, <2>2 DEF Phases
      <3>5. down[1].part = "header"
        BY <1>t, <2>2, <3>3, <3>4, Reading DEF Framed, Part
      <3>6. down[2].packet = down[1].packet
        <4>1. down[1 + 1] = [packet |-> down[1].packet, part |-> "body"]
          BY <1>t, <3>2, <3>5 DEF Framed, WellFramed
        <4> QED
          BY <4>1
      <3>7. session = {} /\ \A k \in 1 .. Len(down) : down[k].packet.type = "CONNACK"
        BY <1>3, <2>2, <3>2, <3>6 DEF FreshSession
      <3> QED
        BY <1>t, <2>s, <3>1, <3>7
    <2>3. CASE \E n \in Incoming, topic \in Topics, type \in {"PUBLISH1", "PUBLISH2"} :
                 /\ BrokerPublishes(n, topic, type)
                 /\ Packet(type, n, topic) \in DownPacket /\ Answer(Units(Packet(type, n, topic)))
      <3> PICK n \in Incoming, topic \in Topics, type \in {"PUBLISH1", "PUBLISH2"} :
                 /\ BrokerPublishes(n, topic, type)
                 /\ Packet(type, n, topic) \in DownPacket /\ Answer(Units(Packet(type, n, topic)))
        BY <2>3
      <3>1. topic \in session /\ (up # <<>> => Head(up).type # "CONNECT") /\ socket = "open" /\ ~silent
        BY DEF BrokerPublishes, Answering
      <3>2. down # <<>>
        <4>1. Head(<<Packet("CONNECT", None, None)>>).type = "CONNECT"
          BY PacketParts
        <4> QED
          BY <1>3, <1>t, <3>1, <4>1 DEF Handshake
      <3>3. down'[1] = down[1]
        <4>1. 1 \in 1 .. Len(down)
          BY <1>t, <3>2, Reading
        <4> QED
          BY <1>t, <4>1, Answered
      <3> QED
        BY <1>3, <3>1, <3>2, <3>3 DEF FreshSession
    <2> QED
      BY <1>3, <1>t, <2>1, <2>2, <2>3, DownMoves
  <1> QED
    BY <1>1, <1>2, <1>3, Beginnings

\* A connection begins with nothing under way, and with an empty session unless restored.
LEMMA Establishing ==
  ASSUME Base, FreshSession, socket = "open", finalize_connack, Arriving.value = 0
  PROVE  /\ active = {} /\ active' = {} /\ up' = <<>> /\ restored' = (Arriving.id = 1)
         /\ down # <<>> /\ down' = Tail(down) /\ session' = session
         /\ Arriving.id # 1 => down' = <<>> /\ session' = {}
  <1>t. Types /\ StreamTypes /\ Phases /\ Handshake /\ TableTypes /\ Framed /\ Len(down) \in Nat
    BY DEF Base, Types, StreamTypes
  <1>1. down # <<>> /\ Arriving.type = "CONNACK" /\ missing
    BY DEF finalize_connack, Body
  <1>2. /\ 1 \in 1 .. Len(down) /\ Head(down) = down[1] /\ Arriving.id \in {0, 1}
        /\ Arriving = down[1].packet
    BY <1>t, <1>1, Reading, DownFields DEF StreamTypes, Arriving
  <1>3. Waits
    BY <1>t, <1>1, <1>2 DEF Handshake, NoConnack
  <1>4. up = <<>> /\ active = {}
    BY <1>t, <1>1, <1>3, WaitingReads DEF Phases, Waits
  <1>5. /\ up' = up /\ down' = Tail(down) /\ session' = session /\ restored' = (Arriving.id = 1)
        /\ active' = active \/ active' = {}
    BY DEF finalize_connack, Consume, cleanSubscriptions, LeaveSubscriptions, subVars, broker
  <1>6. ASSUME Arriving.id # 1 PROVE down' = <<>> /\ session' = {}
    <2>1. session = {} /\ \A k \in 1 .. Len(down) : down[k].packet.type = "CONNACK"
      BY <1>1, <1>2, <1>3, <1>6 DEF FreshSession
    <2>2. \A k \in 1 .. Len(down) : k <= 1
      BY <1>t, <1>1, <2>1 DEF Handshake
    <2>3. Len(Tail(down)) = 0
      BY <1>t, <1>1, <2>2, Reading
    <2> QED
      BY <1>t, <1>1, <1>5, <2>1, <2>3, Reading
  <1> QED
    BY <1>1, <1>4, <1>5, <1>6

\* The unit j confirms the end of the subscription s.
Ends(j, s) == IsAnswer(j, {"UNSUBACK"}) /\ pendingUnsubscriptions[down[j].packet.id] = s

\* A message read after n units finds a subscription to its topic.
Hears(topic, n) ==
  \E s \in active : subscriptions[s].topic = topic /\ \A j \in 1 .. n : ~Ends(j, s)

HearsSession == \A topic \in session : Hears(topic, Len(down))

HearsMessages ==
  \A k \in 1 .. Len(down) : IsAnswer(k, {"PUBLISH1", "PUBLISH2"}) => Hears(down[k].packet.value, k)

Leaves(j, s) == up[j].type = "UNSUBSCRIBE" /\ pendingUnsubscriptions[up[j].id] = s

\* A subscription asked for is active and its end not under way before it.
KeepsRequested ==
  \A k \in 1 .. Len(up) : up[k].type = "SUBSCRIBE" =>
    LET s == pendingSubscriptionAck[up[k].id]
    IN  /\ s \in active /\ subscriptions[s].topic = up[k].value
        /\ \A j \in 1 .. Len(down) : ~Ends(j, s)
        /\ \A j \in 1 .. k : ~Leaves(j, s)

LeavesTopics ==
  \A k \in 1 .. Len(up) : up[k].type = "UNSUBSCRIBE" =>
    LET s == pendingUnsubscriptions[up[k].id]
    IN  s # None /\ subscriptions[s].topic = up[k].value

\* What the broker of a new session has sent, or may send, meets a subscription.
Heard ==
  Established /\ ~restored /\ ~exhausted =>
    HearsSession /\ HearsMessages /\ KeepsRequested /\ LeavesTopics

\* Unless its end is read the subscription stays, and no other end for it comes.
LEMMA Survives ==
  ASSUME Base, SubscribesOnce, UnsubscribesOnce, [Next]_vars, Established, Established', ~exhausted',
         NEW e \in {0, 1}, finalize_unsuback => e = 1,
         \A k \in 1 .. Len(down') : k + e \in 1 .. Len(down) /\ down'[k] = down[k + e],
         NEW n \in 0 .. Len(down'), NEW s \in active, \A j \in 1 .. n + e : ~Ends(j, s)
  PROVE  /\ s \in active' /\ subscriptions'[s].topic = subscriptions[s].topic
         /\ \A j \in 1 .. n : ~Ends(j, s)'
  <1>t. Types /\ StreamTypes /\ TableTypes /\ s \in DOMAIN subscriptions /\ s # None
    BY Objects DEF Base, Types
  <1>p. StreamTypes' /\ Len(down') \in Nat
    BY StreamTypesStep DEF Base, StreamTypes
  <1>1. s \in active'
    <2> SUFFICES ASSUME s \notin active' PROVE FALSE
      OBVIOUS
    <2>1. finalize_unsuback /\ s = pendingUnsubscriptions[Arriving.id]
      BY EntriesStay
    <2>2. down # <<>> /\ Arriving.type = "UNSUBACK" /\ Part = "body"
      BY <2>1 DEF finalize_unsuback, Body
    <2>3. Ends(1, s)
      BY <1>t, <2>1, <2>2, Reading DEF Ends, IsAnswer, Arriving, Part
    <2>4. 1 \in 1 .. n + e
      BY <1>p, <2>1
    <2> QED
      BY <2>3, <2>4
  <1>2. ASSUME NEW j \in 1 .. n, Ends(j, s)' PROVE FALSE
    <2>1. j \in 1 .. Len(down') /\ j + e \in 1 .. n + e
      BY <1>p
    <2>2. j + e \in 1 .. Len(down) /\ down'[j] = down[j + e]
      BY <2>1
    <2>3. IsAnswer(j + e, {"UNSUBACK"}) /\ pendingUnsubscriptions'[down[j + e].packet.id] = s
      BY <1>2, <2>2 DEF Ends, IsAnswer
    <2>4. pendingUnsubscriptions[down[j + e].packet.id] = s
      BY <1>t, <2>2, <2>3, EntriesStay
    <2>5. Ends(j + e, s)
      BY <2>3, <2>4 DEF Ends
    <2> QED
      BY <2>1, <2>5
  <1>3. subscriptions'[s].topic = subscriptions[s].topic
    BY <1>t, EntriesStay
  <1> QED
    BY <1>1, <1>2, <1>3

\* The requests in the stream while the broker takes none of them.
LEMMA RequestsStep ==
  ASSUME Base, SubscribesOnce, UnsubscribesOnce, [Next]_vars, Established, Established', ~exhausted',
         ~BrokerTakes, KeepsRequested, LeavesTopics,
         \A s \in active : (\A j \in 1 .. Len(down) : ~Ends(j, s)) =>
           s \in active' /\ \A j \in 1 .. Len(down') : ~Ends(j, s)'
  PROVE  KeepsRequested' /\ LeavesTopics'
  <1>t. Types /\ StreamTypes /\ TableTypes /\ Len(up) \in Nat
    BY DEF Base, Types, StreamTypes
  <1>o. \A k \in 1 .. Len(up') :
          \/ k \in 1 .. Len(up) /\ up'[k] = up[k]
          \/ k = Len(up) + 1 /\ Added(up'[k])
    BY <1>t, UpElements
  <1>k. \A k \in 1 .. Len(up) : up[k].type = "UNSUBSCRIBE" =>
          /\ pendingUnsubscriptions'[up[k].id] = pendingUnsubscriptions[up[k].id]
          /\ pendingUnsubscriptions[up[k].id] \in DOMAIN subscriptions
    <2>1. \A k \in 1 .. Len(up) : up[k].type = "UNSUBSCRIBE" =>
            up[k].id \in Ids /\ pendingUnsubscriptions[up[k].id] # None
      BY <1>t, EntriesWait
    <2> QED
      BY <1>t, <2>1, EntriesStay DEF TableTypes
  <1>s. ASSUME NEW topic \in Topics, subscribe(topic)
        PROVE  LET s == Len(subscriptions')
               IN  /\ counter' \in Ids /\ s \notin DOMAIN subscriptions /\ s # None /\ s \in active'
                   /\ subscriptions'[s].topic = topic
                   /\ pendingSubscriptionAck'[counter'] = s
                   /\ pendingUnsubscriptions' = pendingUnsubscriptions /\ down' = down
    <2>1. counter' \in Ids
      BY <1>s, <1>t, IdentifierGiven DEF subscribe, TableTypes
    <2>2. pendingSubscriptionAck'[counter'] = Len(subscriptions')
      BY <1>s, <1>t, <2>1 DEF subscribe, TableTypes
    <2>3. /\ Len(subscriptions') \notin DOMAIN subscriptions /\ Len(subscriptions') # None
          /\ subscriptions'[Len(subscriptions')].topic = topic
      BY <1>s, <1>t, Subscribed DEF subscribe
    <2> QED
      BY <1>s, <2>1, <2>2, <2>3 DEF subscribe
  <1>1. ASSUME NEW k \in 1 .. Len(up'), up'[k].type = "SUBSCRIBE",
               NEW s, s = pendingSubscriptionAck'[up'[k].id]
        PROVE  /\ s \in active' /\ subscriptions'[s].topic = up'[k].value
               /\ \A j \in 1 .. Len(down') : ~Ends(j, s)'
               /\ \A j \in 1 .. k : ~Leaves(j, s)'
    <2>u. StreamTypes' /\ Len(up') \in Nat
      BY <1>t, StreamTypesStep DEF StreamTypes
    <2>1. CASE k \in 1 .. Len(up) /\ up'[k] = up[k]
      <3>1. s = pendingSubscriptionAck[up[k].id]
        BY <1>1, <2>1, EntriesStay
      <3>2. /\ s \in active /\ subscriptions[s].topic = up[k].value
            /\ \A j \in 1 .. Len(down) : ~Ends(j, s)
            /\ \A j \in 1 .. k : ~Leaves(j, s)
        BY <1>1, <2>1, <3>1 DEF KeepsRequested
      <3>3. s \in active' /\ \A j \in 1 .. Len(down') : ~Ends(j, s)'
        BY <3>2
      <3>4. subscriptions'[s].topic = up'[k].value
        BY <1>t, <2>1, <3>2, Objects, EntriesStay
      <3>5. \A j \in 1 .. k : ~Leaves(j, s)'
        <4> SUFFICES ASSUME NEW j \in 1 .. k, Leaves(j, s)' PROVE FALSE
          OBVIOUS
        <4>1. j \in 1 .. Len(up) /\ j \in 1 .. Len(up') /\ j # Len(up) + 1
          BY <1>t, <2>u, <2>1
        <4>2. up'[j] = up[j]
          BY <1>o, <4>1
        <4>3. Leaves(j, s)
          BY <1>k, <4>1, <4>2 DEF Leaves
        <4> QED
          BY <3>2, <4>3
      <3> QED
        BY <3>3, <3>4, <3>5
    <2>2. CASE k = Len(up) + 1 /\ Added(up'[k])
      <3>1. PICK topic \in Topics : subscribe(topic) /\ up'[k].id = counter' /\ up'[k].value = topic
        BY <1>1, <2>2 DEF Added
      <3>2. /\ s \notin DOMAIN subscriptions /\ s # None /\ s \in active'
            /\ subscriptions'[s].topic = topic
            /\ pendingUnsubscriptions' = pendingUnsubscriptions /\ down' = down
        BY <1>1, <1>s, <3>1
      <3>3. \A j \in 1 .. Len(down') : ~Ends(j, s)'
        <4>1. \A j \in 1 .. Len(down) : IsAnswer(j, {"UNSUBACK"}) => down[j].packet.id \in Ids
          BY <1>t, EntriesWait
        <4>2. \A j \in 1 .. Len(down) : ~Ends(j, s)
          BY <1>t, <3>2, <4>1 DEF Ends, TableTypes
        <4> QED
          BY <3>2, <4>2 DEF Ends, IsAnswer
      <3>4. \A j \in 1 .. k : ~Leaves(j, s)'
        <4> SUFFICES ASSUME NEW j \in 1 .. k, Leaves(j, s)' PROVE FALSE
          OBVIOUS
        <4>1. j \in 1 .. Len(up') /\ j # k
          BY <1>1, <2>u DEF Leaves
        <4>2. j \in 1 .. Len(up) /\ up'[j] = up[j]
          BY <1>o, <2>2, <4>1
        <4>3. pendingUnsubscriptions[up[j].id] = s /\ up[j].type = "UNSUBSCRIBE"
          BY <3>2, <4>2 DEF Leaves
        <4> QED
          BY <1>k, <3>2, <4>2, <4>3
      <3> QED
        BY <3>1, <3>2, <3>3, <3>4
    <2> QED
      BY <1>o, <2>1, <2>2
  <1>2. ASSUME NEW k \in 1 .. Len(up'), up'[k].type = "UNSUBSCRIBE",
               NEW s, s = pendingUnsubscriptions'[up'[k].id]
        PROVE  s # None /\ subscriptions'[s].topic = up'[k].value
    <2>1. CASE k \in 1 .. Len(up) /\ up'[k] = up[k]
      <3>1. s = pendingUnsubscriptions[up[k].id] /\ s \in DOMAIN subscriptions
        BY <1>2, <1>k, <2>1
      <3>2. s # None /\ subscriptions[s].topic = up[k].value
        BY <1>2, <2>1, <3>1 DEF LeavesTopics
      <3>3. subscriptions'[s].topic = subscriptions[s].topic
        BY <3>1, EntriesStay
      <3> QED
        BY <2>1, <3>2, <3>3
    <2>2. CASE k = Len(up) + 1 /\ Added(up'[k])
      <3>1. PICK t \in active : /\ unsubscribe(t) /\ internal = "BrokerConnected"
                                /\ up'[k].id = counter' /\ up'[k].value = subscriptions[t].topic
        BY <1>2, <2>2 DEF Added
      <3>2. counter' \in Ids /\ pendingUnsubscriptions' = [pendingUnsubscriptions EXCEPT ![counter'] = t]
        BY <1>t, <3>1, IdentifierGiven DEF unsubscribe, TableTypes
      <3>3. s = t
        BY <1>2, <1>t, <3>1, <3>2 DEF TableTypes
      <3>4. t # None /\ subscriptions'[t].topic = subscriptions[t].topic
        BY <1>t, Objects, EntriesStay
      <3> QED
        BY <3>1, <3>3, <3>4
    <2> QED
      BY <1>o, <2>1, <2>2
  <1> QED
    BY <1>1, <1>2 DEF KeepsRequested, LeavesTopics, Ends, Leaves, IsAnswer

\* What the broker holds once it has taken a packet.
LEMMA SessionTaken ==
  ASSUME StreamTypes, BrokerTakes, Head(up).type # "CONNECT"
  PROVE  LET p == Head(up)
         IN  \/ /\ p.type = "SUBSCRIBE"
                /\ \/ session' = session \union {p.value} /\ Answer(Units(Packet("SUBACK", p.id, 0)))
                   \/ session' = session /\ Answer(Units(Packet("SUBACK", p.id, 128)))
             \/ p.type = "UNSUBSCRIBE" /\ session' = session \ {p.value}
             \/ p.type \notin {"SUBSCRIBE", "UNSUBSCRIBE"} /\ session' = session
  <1> DEFINE p == Head(up)
  <1>1. p.type \in {"SUBSCRIBE", "UNSUBSCRIBE", "PUBLISH0", "PUBLISH1", "PUBLISH2", "PUBACK",
                    "PUBREC", "PUBCOMP", "PUBREL", "PINGREQ", "DISCONNECT"}
    BY Taking, UpFields DEF BrokerTakes
  <1>2. CASE p.type = "SUBSCRIBE"
    <2>1. BrokerSubscribes(p)
      BY <1>2 DEF BrokerTakes
    <2> QED
      BY <1>2, <2>1 DEF BrokerSubscribes
  <1>3. CASE p.type = "UNSUBSCRIBE"
    BY <1>3 DEF BrokerTakes
  <1>4. CASE p.type \in {"PUBLISH0", "PUBLISH1", "PUBLISH2"}
    BY <1>4 DEF BrokerTakes, BrokerReceives
  <1>5. CASE p.type \in {"PUBACK", "PUBREC", "PUBCOMP"}
    BY <1>5 DEF BrokerTakes, BrokerAdvances
  <1>6. CASE p.type \in {"PUBREL", "PINGREQ", "DISCONNECT"}
    BY <1>6 DEF BrokerTakes
  <1> QED
    BY <1>1, <1>2, <1>3, <1>4, <1>5, <1>6

\* What a broker takes and answers leaves a subscription to all it still holds.
LEMMA HeardTaken ==
  ASSUME Base, [Next]_vars, BrokerTakes, Established,
         HearsSession, HearsMessages, KeepsRequested, LeavesTopics
  PROVE  HearsSession' /\ HearsMessages' /\ KeepsRequested' /\ LeavesTopics'
  <1> DEFINE p == Head(up)
  <1>t. Types /\ StreamTypes /\ BrokerTypes /\ Handshake /\ Len(down) \in Nat /\ Len(up) \in Nat
    BY DEF Base, Types, StreamTypes
  <1>p. StreamTypes' /\ Len(down') \in Nat /\ Len(up') \in Nat
    BY BaseStep DEF Base, Types, StreamTypes
  <1>u. UNCHANGED <<pendingSubscriptionAck, pendingUnsubscriptions, subscriptions, active>>
    BY DEF BrokerTakes, subVars
  <1>1. /\ up # <<>> /\ 1 \in 1 .. Len(up) /\ p = up[1] /\ Len(up') = Len(up) - 1
        /\ \A k \in 1 .. Len(up') : k + 1 \in 1 .. Len(up) /\ up'[k] = up[k + 1]
    BY <1>t, Taking DEF BrokerTakes
  <1>2. p.type # "CONNECT"
    BY <1>t, <1>1 DEF Handshake, NoConnect, Waits, Established
  <1>3. /\ \A j \in 1 .. Len(down) : j \in 1 .. Len(down') /\ down'[j] = down[j]
        /\ \A j \in 1 .. Len(down') : j \notin 1 .. Len(down) =>
             /\ down'[j].packet.type \notin {"PUBLISH1", "PUBLISH2"}
             /\ down'[j].packet.type = "UNSUBACK" =>
                  p.type = "UNSUBSCRIBE" /\ down'[j].packet.id = p.id
    <2>1. CASE down' = down
      BY <2>1
    <2>2. CASE \E a \in DownPacket : Matches(p, a) /\ Answer(Units(a))
      <3> PICK a \in DownPacket : Matches(p, a) /\ Answer(Units(a))
        BY <2>2
      <3>1. /\ Len(down') = Len(down) + 2 /\ \A j \in 1 .. Len(down) : down'[j] = down[j]
            /\ down'[Len(down) + 1].packet = a /\ down'[Len(down) + 2].packet = a
        BY <1>t, Answered
      <3>2. \A j \in 1 .. Len(down') : j \notin 1 .. Len(down) => down'[j].packet = a
        <4>1. \A j \in 1 .. Len(down') : j \notin 1 .. Len(down) => j = Len(down) + 1 \/ j = Len(down) + 2
          BY <1>t, <3>1
        <4> QED
          BY <3>1, <4>1
      <3>3. a.type \notin {"PUBLISH1", "PUBLISH2"} /\ (a.type = "UNSUBACK" => p.type = "UNSUBSCRIBE" /\ a.id = p.id)
        BY DEF Matches
      <3>4. \A j \in 1 .. Len(down) : j \in 1 .. Len(down')
        BY <1>t, <3>1
      <3> QED
        BY <3>1, <3>2, <3>3, <3>4
    <2> QED
      BY <1>2, <1>t, <2>1, <2>2, TakesOne
  <1>4. ASSUME NEW s \in active, ~Leaves(1, s), \A j \in 1 .. Len(down) : ~Ends(j, s)
        PROVE  \A j \in 1 .. Len(down') : ~Ends(j, s)'
    <2> SUFFICES ASSUME NEW j \in 1 .. Len(down'), Ends(j, s)' PROVE FALSE
      OBVIOUS
    <2>1. down'[j].packet.type = "UNSUBACK" /\ pendingUnsubscriptions[down'[j].packet.id] = s
      BY <1>u DEF Ends, IsAnswer
    <2>2. CASE j \in 1 .. Len(down)
      <3>1. Ends(j, s)
        BY <1>3, <1>u, <2>2 DEF Ends, IsAnswer
      <3> QED
        BY <1>4, <2>2, <3>1
    <2>3. CASE j \notin 1 .. Len(down)
      BY <1>1, <1>3, <1>4, <2>1, <2>3 DEF Leaves
    <2> QED
      BY <2>2, <2>3
  <1>5. HearsSession'
    <2> SUFFICES ASSUME NEW topic \in session' PROVE Hears(topic, Len(down))'
      BY DEF HearsSession
    <2>1. \/ p.type = "SUBSCRIBE" /\ topic = p.value
          \/ topic \in session /\ ~(p.type = "UNSUBSCRIBE" /\ topic = p.value)
      BY <1>2, <1>t, SessionTaken
    <2>2. PICK s \in active : /\ subscriptions[s].topic = topic /\ ~Leaves(1, s)
                              /\ \A j \in 1 .. Len(down) : ~Ends(j, s)
      <3>1. CASE p.type = "SUBSCRIBE" /\ topic = p.value
        <4>1. 1 \in 1 .. 1
          OBVIOUS
        <4> QED
          BY <1>1, <3>1, <4>1 DEF KeepsRequested
      <3>2. CASE topic \in session /\ ~(p.type = "UNSUBSCRIBE" /\ topic = p.value)
        <4>1. PICK s \in active : /\ subscriptions[s].topic = topic
                                  /\ \A j \in 1 .. Len(down) : ~Ends(j, s)
          BY <3>2 DEF HearsSession, Hears
        <4>2. ~Leaves(1, s)
          BY <1>1, <3>2, <4>1 DEF Leaves, LeavesTopics
        <4> QED
          BY <4>1, <4>2
      <3> QED
        BY <2>1, <3>1, <3>2
    <2>3. \A j \in 1 .. Len(down') : ~Ends(j, s)'
      BY <1>4, <2>2
    <2> QED
      BY <1>u, <2>2, <2>3 DEF Hears
  <1>6. HearsMessages'
    <2> SUFFICES ASSUME NEW k \in 1 .. Len(down'), IsAnswer(k, {"PUBLISH1", "PUBLISH2"})'
                 PROVE  Hears(down[k].packet.value, k)'
      BY DEF HearsMessages
    <2>1. k \in 1 .. Len(down) /\ down'[k] = down[k]
      BY <1>3 DEF IsAnswer
    <2>2. Hears(down[k].packet.value, k)
      BY <2>1 DEF HearsMessages, IsAnswer
    <2>3. PICK s \in active : subscriptions[s].topic = down[k].packet.value /\ \A j \in 1 .. k : ~Ends(j, s)
      BY <2>2 DEF Hears
    <2>4. \A j \in 1 .. k : ~Ends(j, s)'
      <3> TAKE j \in 1 .. k
      <3>1. down'[j] = down[j]
        BY <1>3, <1>t, <2>1
      <3> QED
        BY <1>u, <2>3, <3>1 DEF Ends, IsAnswer
    <2> QED
      BY <1>u, <2>1, <2>3, <2>4 DEF Hears
  <1>7. ASSUME NEW k \in 1 .. Len(up'), up'[k].type = "SUBSCRIBE",
               NEW s, s = pendingSubscriptionAck'[up'[k].id]
        PROVE  /\ s \in active' /\ subscriptions'[s].topic = up'[k].value
               /\ \A j \in 1 .. Len(down') : ~Ends(j, s)'
               /\ \A j \in 1 .. k : ~Leaves(j, s)'
    <2>1. /\ s \in active /\ subscriptions[s].topic = up[k + 1].value
          /\ \A j \in 1 .. Len(down) : ~Ends(j, s)
          /\ \A j \in 1 .. k + 1 : ~Leaves(j, s)
      BY <1>1, <1>7, <1>u DEF KeepsRequested
    <2>2. 1 \in 1 .. k + 1
      BY <1>p
    <2>3. \A j \in 1 .. Len(down') : ~Ends(j, s)'
      BY <1>4, <2>1, <2>2
    <2>4. \A j \in 1 .. k : ~Leaves(j, s)'
      <3> TAKE j \in 1 .. k
      <3>1. j + 1 \in 1 .. k + 1 /\ j \in 1 .. Len(up') /\ up'[j] = up[j + 1]
        BY <1>1, <1>p
      <3> QED
        BY <1>u, <2>1, <3>1 DEF Leaves
    <2> QED
      BY <1>1, <1>u, <2>1, <2>3, <2>4
  <1>8. KeepsRequested'
    BY <1>7 DEF KeepsRequested, Ends, Leaves, IsAnswer
  <1>9. LeavesTopics'
    BY <1>1, <1>u DEF LeavesTopics
  <1> QED
    BY <1>5, <1>6, <1>8, <1>9

\* A message is sent to a topic that is held.
LEMMA HeardPublished ==
  ASSUME Base, SubscribesOnce, UnsubscribesOnce, [Next]_vars, Established, Established', ~exhausted',
         NEW n \in Incoming, NEW topic \in Topics, NEW type \in {"PUBLISH1", "PUBLISH2"},
         BrokerPublishes(n, topic, type), ~BrokerTakes,
         HearsSession, HearsMessages, KeepsRequested, LeavesTopics
  PROVE  HearsSession' /\ HearsMessages' /\ KeepsRequested' /\ LeavesTopics'
  <1> DEFINE a == Packet(type, n, topic)
  <1>t. Types /\ StreamTypes /\ Len(down) \in Nat
    BY DEF Base, Types, StreamTypes
  <1>u. /\ UNCHANGED <<pendingSubscriptionAck, pendingUnsubscriptions, subscriptions, active, session>>
        /\ topic \in session
    BY DEF BrokerPublishes, subVars
  <1>1. a \in DownPacket /\ a.type = type /\ a.value = topic
    BY DownPackets, PacketParts
  <1> HIDE DEF a
  <1>2. /\ Len(down') = Len(down) + 2 /\ \A j \in 1 .. Len(down) : down'[j] = down[j]
        /\ down'[Len(down) + 1].packet = a /\ down'[Len(down) + 1].part = "header"
        /\ down'[Len(down) + 2].packet = a
    BY <1>1, <1>t, Answered DEF BrokerPublishes, a
  <1>3. \A j \in 1 .. Len(down') : j \in 1 .. Len(down) \/ j = Len(down) + 1 \/ j = Len(down) + 2
    BY <1>2, <1>t
  <1>4. \A s : \A j \in 1 .. Len(down') : Ends(j, s)' => j \in 1 .. Len(down) /\ Ends(j, s)
    BY <1>1, <1>2, <1>3, <1>u DEF Ends, IsAnswer
  <1>5. HearsSession'
    BY <1>4, <1>u DEF HearsSession, Hears
  <1>6. HearsMessages'
    <2> SUFFICES ASSUME NEW k \in 1 .. Len(down'), IsAnswer(k, {"PUBLISH1", "PUBLISH2"})'
                 PROVE  Hears(down[k].packet.value, k)'
      BY DEF HearsMessages
    <2>0. \A j \in 1 .. k : j \in 1 .. Len(down')
      BY <1>2, <1>t
    <2>1. CASE k \in 1 .. Len(down)
      <3>1. PICK s \in active : /\ subscriptions[s].topic = down[k].packet.value
                                /\ \A j \in 1 .. k : ~Ends(j, s)
        BY <1>2, <2>1 DEF HearsMessages, Hears, IsAnswer
      <3> QED
        BY <1>2, <1>4, <1>u, <2>0, <2>1, <3>1 DEF Hears
    <2>2. CASE k = Len(down) + 2
      <3>1. PICK s \in active : subscriptions[s].topic = topic /\ \A j \in 1 .. Len(down) : ~Ends(j, s)
        BY <1>u DEF HearsSession, Hears
      <3> QED
        BY <1>1, <1>2, <1>4, <1>u, <2>0, <2>2, <3>1 DEF Hears
    <2> QED
      BY <1>2, <1>3, <2>1, <2>2 DEF IsAnswer
  <1>7. KeepsRequested' /\ LeavesTopics'
    BY <1>4, <1>u, RequestsStep
  <1> QED
    BY <1>5, <1>6, <1>7

\* No other step makes a message, and it reads at most one unit.
LEMMA HeardMoves ==
  ASSUME Base, SubscribesOnce, UnsubscribesOnce, [Next]_vars, Established, Established', ~exhausted',
         ~BrokerTakes, down' = down \/ down' = <<>> \/ (down # <<>> /\ down' = Tail(down)),
         HearsSession, HearsMessages, KeepsRequested, LeavesTopics
  PROVE  HearsSession' /\ HearsMessages' /\ KeepsRequested' /\ LeavesTopics'
  <1>t. Types /\ StreamTypes /\ Len(down) \in Nat
    BY DEF Base, Types, StreamTypes
  <1>1. PICK e \in {0, 1} :
          /\ finalize_unsuback => e = 1
          /\ Len(down') \in Nat /\ Len(down') + e <= Len(down)
          /\ \A k \in 1 .. Len(down') : k + e \in 1 .. Len(down) /\ down'[k] = down[k + e]
    <2>1. CASE down # <<>> /\ down' = Tail(down)
      <3>1. /\ Len(down) > 0 /\ Len(down') = Len(down) - 1
            /\ \A k \in 1 .. Len(down') : down'[k] = down[k + 1]
        BY <1>t, <2>1, Reading
      <3>2. Len(down') \in Nat /\ Len(down') + 1 <= Len(down)
        BY <1>t, <3>1
      <3>3. \A k \in 1 .. Len(down') : k + 1 \in 1 .. Len(down)
        BY <1>t, <3>2
      <3> QED
        BY <3>1, <3>2, <3>3
    <2>2. CASE ~(down # <<>> /\ down' = Tail(down))
      <3>1. ~finalize_unsuback
        BY <2>2 DEF finalize_unsuback, Body, Consume
      <3>2. CASE down' = down
        BY <1>t, <3>1, <3>2
      <3>3. CASE down' = <<>>
        BY <1>t, <3>1, <3>3
      <3> QED
        BY <2>2, <3>2, <3>3
    <2> QED
      BY <2>1, <2>2
  <1>2. ASSUME NEW n \in 0 .. Len(down'), NEW s \in active, \A j \in 1 .. n + e : ~Ends(j, s)
        PROVE  /\ s \in active' /\ subscriptions'[s].topic = subscriptions[s].topic
               /\ \A j \in 1 .. n : ~Ends(j, s)'
    BY <1>1, <1>2, Survives
  <1>3. \A j \in 1 .. Len(down') + e : j \in 1 .. Len(down)
    BY <1>1, <1>t
  <1>4. HearsSession'
    <2> SUFFICES ASSUME NEW topic \in session' PROVE Hears(topic, Len(down))'
      BY DEF HearsSession
    <2>1. topic \in session
      BY SessionMoves
    <2>2. PICK s \in active : subscriptions[s].topic = topic /\ \A j \in 1 .. Len(down) : ~Ends(j, s)
      BY <2>1 DEF HearsSession, Hears
    <2>3. Len(down') \in 0 .. Len(down')
      BY <1>1
    <2> QED
      BY <1>2, <1>3, <2>2, <2>3 DEF Hears
  <1>5. HearsMessages'
    <2> SUFFICES ASSUME NEW k \in 1 .. Len(down'), IsAnswer(k, {"PUBLISH1", "PUBLISH2"})'
                 PROVE  Hears(down[k].packet.value, k)'
      BY DEF HearsMessages
    <2>1. k + e \in 1 .. Len(down) /\ down'[k] = down[k + e] /\ k \in 0 .. Len(down')
      BY <1>1
    <2>2. PICK s \in active : /\ subscriptions[s].topic = down[k + e].packet.value
                              /\ \A j \in 1 .. k + e : ~Ends(j, s)
      BY <2>1 DEF HearsMessages, Hears, IsAnswer
    <2> QED
      BY <1>2, <2>1, <2>2 DEF Hears
  <1>6. ASSUME NEW s \in active, \A j \in 1 .. Len(down) : ~Ends(j, s)
        PROVE  s \in active' /\ \A j \in 1 .. Len(down') : ~Ends(j, s)'
    <2>1. Len(down') \in 0 .. Len(down')
      BY <1>1
    <2> QED
      BY <1>2, <1>3, <1>6, <2>1
  <1>7. KeepsRequested' /\ LeavesTopics'
    BY <1>6, RequestsStep
  <1> QED
    BY <1>4, <1>5, <1>7

\* The subscriptions of a new session meet its messages.
LEMMA HeardStep ==
  ASSUME Base, Base', Exchanges, FreshSession, Heard, [Next]_vars
  PROVE  Heard'
  <1> SUFFICES ASSUME Established', ~restored', ~exhausted'
               PROVE  HearsSession' /\ HearsMessages' /\ KeepsRequested' /\ LeavesTopics'
    BY DEF Heard
  <1>t. Types /\ StreamTypes
    BY DEF Base, Types
  <1>1. CASE ~Established
    <2>1. socket = "open" /\ finalize_connack /\ Arriving.value = 0
      BY <1>1, Beginnings
    <2>2. Arriving.id # 1 /\ down' = <<>> /\ up' = <<>> /\ session' = {}
      BY <2>1, Establishing
    <2> QED
      BY <2>2 DEF HearsSession, HearsMessages, KeepsRequested, LeavesTopics
  <1>2. CASE Established
    <2>1. ~exhausted /\ ~restored
      BY <1>2, <1>t, OnlineMoves, ExhaustedStays
    <2>2. /\ SubscribesOnce /\ UnsubscribesOnce
          /\ HearsSession /\ HearsMessages /\ KeepsRequested /\ LeavesTopics
      BY <1>2, <2>1 DEF Heard, Exchanges
    <2>3. CASE BrokerTakes
      BY <1>2, <2>2, <2>3, HeardTaken
    <2>4. CASE ~BrokerTakes
      <3>1. CASE \E n \in Incoming, topic \in Topics, type \in {"PUBLISH1", "PUBLISH2"} :
                   BrokerPublishes(n, topic, type)
        BY <1>2, <2>2, <2>4, <3>1, HeardPublished
      <3>2. CASE down' = down \/ down' = <<>> \/ (down # <<>> /\ down' = Tail(down))
        BY <1>2, <2>2, <2>4, <3>2, HeardMoves
      <3> QED
        BY <1>t, <2>4, <3>1, <3>2, DownMoves
    <2> QED
      BY <2>3, <2>4
  <1> QED
    BY <1>1, <1>2

\* Only a message that is read can go unheard.
LEMMA UnheardOnly ==
  ASSUME [Next]_vars
  PROVE  unheard' = unheard \/ (socket = "open" /\ finalize_publish)
  <1> DEFINE Same == unheard' = unheard
  <1>1. connectToHost \/ disconnectConnected \/ disconnectConnecting => Same
    BY DEF connectToHost, disconnectConnected, disconnectConnecting, history
  <1>2. (\E q \in QoS : publish(q)) \/ (\E topic \in Topics : subscribe(topic))
          \/ (\E s \in active : unsubscribe(s)) => Same
    BY DEF publish, subscribe, unsubscribe, history
  <1>3. PingTimer \/ transportConnectionEstablished \/ transportError \/ FallSilent
          \/ UNCHANGED vars => Same
    BY DEF PingTimer, transportConnectionEstablished, transportError, FallSilent, vars, history
  <1>4. ReadHeader \/ Misread \/ finalize_connack => Same
    BY DEF ReadHeader, Misread, ProtocolViolation, finalize_connack, history
  <1>5. finalize_suback \/ finalize_unsuback \/ finalize_pubrel \/ finalize_pingresp => Same
    BY DEF finalize_suback, finalize_unsuback, finalize_pubrel, finalize_pingresp, history
  <1>6. finalize_puback \/ finalize_pubrec \/ finalize_pubcomp \/ BrokerTakes => Same
    BY DEF finalize_puback, finalize_pubrec, finalize_pubcomp, BrokerTakes, history
  <1>7. (\E n \in Incoming, topic \in Topics, type \in {"PUBLISH1", "PUBLISH2"} :
           BrokerPublishes(n, topic, type)) => Same
    BY DEF BrokerPublishes, history
  <1> HIDE DEF Same
  <1>8. Same \/ (socket = "open" /\ finalize_publish)
    BY <1>1, <1>2, <1>3, <1>4, <1>5, <1>6, <1>7, Actions
  <1> QED
    BY <1>8 DEF Same

Hearing == Base /\ Exchanges /\ FreshSession /\ Heard

\* Every step keeps it.
LEMMA HearingStep == Hearing /\ [Next]_vars => Hearing'
  <1> SUFFICES ASSUME Hearing, [Next]_vars PROVE Hearing'
    OBVIOUS
  <1>1. Base /\ Exchanges /\ FreshSession /\ Heard
    BY DEF Hearing
  <1>2. Base' /\ Exchanges' /\ FreshSession'
    BY <1>1, BaseStep, ExchangesStep, FreshSessionStep
  <1>3. Heard'
    BY <1>1, <1>2, HeardStep
  <1> QED
    BY <1>2, <1>3 DEF Hearing

\* A message that is read on a connection without an old session meets its subscription.
LEMMA MessageHeard ==
  ASSUME Hearing, [Next]_vars, unheard' # unheard
  PROVE  restored \/ exhausted
  <1> SUFFICES ASSUME ~restored, ~exhausted PROVE FALSE
    OBVIOUS
  <1>t. StreamTypes /\ ClientTypes /\ Phases /\ Handshake /\ Heard
    BY DEF Hearing, Base, Types
  <1>1. socket = "open" /\ finalize_publish
    BY UnheardOnly
  <1>2. down # <<>> /\ Part = "body" /\ Arriving.type \in {"PUBLISH1", "PUBLISH2"}
    BY <1>1 DEF finalize_publish, Body
  <1>3. /\ 1 \in 1 .. Len(down) /\ IsAnswer(1, {"PUBLISH1", "PUBLISH2"})
        /\ Arriving = down[1].packet
    BY <1>t, <1>2, Reading DEF IsAnswer, Arriving, Part, StreamTypes
  <1>4. Established
    <2>1. ~silent
      BY <1>t, <1>2 DEF Phases
    <2>2. ~Waits
      BY <1>t, <1>1, <1>2, <1>3, <2>1 DEF Handshake
    <2> QED
      BY <1>t, <1>1, <2>1, <2>2 DEF Phases, ClientTypes, Established
  <1>5. Hears(Arriving.value, 1)
    BY <1>t, <1>3, <1>4 DEF Heard, HearsMessages
  <1>6. \E s \in active : subscriptions[s].topic = Arriving.value
    BY <1>5 DEF Hears
  <1> QED
    BY <1>1, <1>6 DEF finalize_publish

\* A message of this connection finds a subscription that is still active, even while the
\* application is unsubscribing, unless the session was restored or all identifiers were
\* taken (finalize_publish).
THEOREM MessagesHeard == Spec => HeardUnlessRestored
  <1>1. Init => Hearing
    BY InitBase, InitExchanges DEF Init, Hearing, FreshSession, Heard, Waits, Established
  <1>2. Hearing /\ [Next]_vars => [unheard' # unheard => restored \/ exhausted]_vars
    BY MessageHeard
  <1> QED
    BY <1>1, <1>2, HearingStep, PTL DEF Spec, HeardUnlessRestored

-----------------------------------------------------------------------------
(* What the client takes for subscribed the broker holds. *)

\* An active subscription that the application has not ended.
Stands(s) == s \in active /\ \A i \in Ids : pendingUnsubscriptions[i] # s

OneStands ==
  \A s, t : Stands(s) /\ Stands(t) /\ subscriptions[s].topic = subscriptions[t].topic => s = t

\* The k-th packet on its way ends a subscription to the topic.
Drops(k, topic) == up[k].type = "UNSUBSCRIBE" /\ up[k].value = topic

Keeps(topic) == topic \in session /\ \A k \in 1 .. Len(up) : ~Drops(k, topic)

HeldSubscribed ==
  \A s : Stands(s) /\ subscriptions[s].state = "Subscribed" => Keeps(subscriptions[s].topic)

HeldGranted ==
  \A j \in 1 .. Len(down) : IsAnswer(j, {"SUBACK"}) /\ down[j].packet.value # 128 =>
    LET s == pendingSubscriptionAck[down[j].packet.id]
    IN  Stands(s) => Keeps(subscriptions[s].topic)

HeldRequested ==
  \A j \in 1 .. Len(up) : up[j].type = "SUBSCRIBE" =>
    LET s == pendingSubscriptionAck[up[j].id]
    IN  /\ up[j].value = subscriptions[s].topic
        /\ Stands(s) => \A k \in j + 1 .. Len(up) : ~Drops(k, subscriptions[s].topic)

Held ==
  Established /\ ~exhausted => OneStands /\ HeldSubscribed /\ HeldGranted /\ HeldRequested

\* A subscription stands because it did or because it is new.
LEMMA StandsStep ==
  ASSUME Base, SubscribesOnce, UnsubscribesOnce, [Next]_vars, Established, Established', ~exhausted',
         NEW s, Stands(s)'
  PROVE  \/ /\ Stands(s) /\ s \in DOMAIN subscriptions
            /\ subscriptions'[s].topic = subscriptions[s].topic
            /\ \/ subscriptions'[s].state = "Subscribed" => subscriptions[s].state = "Subscribed"
               \/ finalize_suback /\ s = pendingSubscriptionAck[Arriving.id] /\ Arriving.value # 128
         \/ \E topic \in Topics :
              /\ subscribe(topic) /\ s = Len(subscriptions') /\ s \notin DOMAIN subscriptions
              /\ subscriptions'[s].topic = topic /\ subscriptions'[s].state = "SubscriptionPending"
  <1>t. Types /\ StreamTypes /\ TableTypes
    BY DEF Base, Types
  <1>s. s \in active' /\ \A i \in Ids : pendingUnsubscriptions'[i] # s
    BY DEF Stands
  <1>o. s \in DOMAIN subscriptions => subscriptions'[s].topic = subscriptions[s].topic
    BY EntriesStay
  <1>1. CASE UNCHANGED <<pendingSubscriptionAck, pendingUnsubscriptions, subscriptions, active>>
    BY <1>1, <1>s, <1>t DEF Stands, TableTypes
  <1>2. CASE \E topic \in Topics : subscribe(topic)
    <2> PICK topic \in Topics : subscribe(topic)
      BY <1>2
    <2>1. /\ subscriptions' = Append(subscriptions, [topic |-> topic, state |-> "SubscriptionPending"])
          /\ active' = active \union {Len(subscriptions')}
          /\ pendingUnsubscriptions' = pendingUnsubscriptions
      BY DEF subscribe
    <2>2. CASE s \in active
      <3>1. s \in DOMAIN subscriptions /\ subscriptions'[s] = subscriptions[s]
        BY <1>t, <2>1, <2>2 DEF TableTypes
      <3> QED
        BY <1>s, <2>1, <2>2, <3>1 DEF Stands
    <2>3. CASE s = Len(subscriptions')
      <3>1. /\ s \notin DOMAIN subscriptions
            /\ subscriptions'[s] = [topic |-> topic, state |-> "SubscriptionPending"]
        BY <1>t, <2>1, <2>3 DEF TableTypes
      <3> QED
        BY <2>3, <3>1
    <2> QED
      BY <1>s, <2>1, <2>2, <2>3
  <1>3. CASE \E t \in active : unsubscribe(t)
    <2> PICK t \in active : unsubscribe(t)
      BY <1>3
    <2>1. NextIdentifier /\ counter' \in Ids /\ pendingUnsubscriptions[counter'] = None
      BY <1>t, IdentifierGiven, NewIdentifier DEF unsubscribe, TableTypes, Established
    <2>2. /\ pendingUnsubscriptions' = [pendingUnsubscriptions EXCEPT ![counter'] = t]
          /\ active' = active /\ subscriptions' = InState({t}, "UnsubscriptionPending")
      BY DEF unsubscribe, Established, KeptUntilAcknowledged
    <2>3. s \in DOMAIN subscriptions /\ s # None
      BY <1>s, <1>t, <2>2, Objects
    <2>4. Stands(s)
      BY <1>s, <1>t, <2>1, <2>2, <2>3 DEF Stands, TableTypes
    <2>5. subscriptions'[s].state = "Subscribed" => subscriptions[s].state = "Subscribed"
      BY <1>t, <2>2, <2>3, InStateIs DEF TableTypes, SubscriptionStates, InState
    <2> QED
      BY <1>o, <2>3, <2>4, <2>5
  <1>4. CASE finalize_suback
    <2>1. /\ pendingUnsubscriptions' = pendingUnsubscriptions /\ active' = active
          /\ subscriptions' = InState({pendingSubscriptionAck[Arriving.id]}, AckedState(Arriving.value))
      BY <1>4 DEF finalize_suback
    <2>2. s \in DOMAIN subscriptions /\ Stands(s)
      BY <1>s, <1>t, <2>1, Objects DEF Stands
    <2>3. CASE s = pendingSubscriptionAck[Arriving.id]
      <3>1. subscriptions'[s].state = AckedState(Arriving.value)
        BY <1>t, <2>1, <2>2, <2>3, Objects DEF InState, Subscription
      <3> QED
        BY <1>4, <1>o, <2>2, <2>3, <3>1 DEF AckedState
    <2>4. CASE s # pendingSubscriptionAck[Arriving.id]
      <3>1. subscriptions'[s] = subscriptions[s]
        BY <1>t, <2>1, <2>2, <2>4 DEF InState
      <3> QED
        BY <2>2, <3>1
    <2> QED
      BY <2>3, <2>4
  <1>5. CASE finalize_unsuback
    <2>1. down # <<>> /\ Arriving.type = "UNSUBACK"
      BY <1>5 DEF finalize_unsuback, Body
    <2>2. Arriving.id \in Ids
      BY <1>t, <2>1, Reading, DownFields
    <2>3. /\ pendingUnsubscriptions' = [pendingUnsubscriptions EXCEPT ![Arriving.id] = None]
          /\ active' = active \ {pendingUnsubscriptions[Arriving.id]}
          /\ subscriptions' = InState({pendingUnsubscriptions[Arriving.id]}, "Unsubscribed")
      BY <1>5 DEF finalize_unsuback
    <2>4. s \in DOMAIN subscriptions /\ s # pendingUnsubscriptions[Arriving.id]
      BY <1>s, <1>t, <2>3, Objects
    <2>5. Stands(s)
      BY <1>s, <1>t, <2>2, <2>3, <2>4 DEF Stands, TableTypes
    <2>6. subscriptions'[s] = subscriptions[s]
      BY <2>3, <2>4 DEF InState
    <2> QED
      BY <2>4, <2>5, <2>6
  <1> QED
    BY <1>1, <1>2, <1>3, <1>4, <1>5, OnlineMoves

\* Two subscriptions to a topic never both stand.
LEMMA OneStandsStep ==
  ASSUME Base, SubscribesOnce, UnsubscribesOnce, [Next]_vars, Established, Established', ~exhausted',
         OneStands
  PROVE  OneStands'
  <1> SUFFICES ASSUME NEW s, NEW t, Stands(s)', Stands(t)',
                      subscriptions'[s].topic = subscriptions'[t].topic
               PROVE  s = t
    BY DEF OneStands
  <1> DEFINE Old(x) == Stands(x) /\ subscriptions'[x].topic = subscriptions[x].topic
             New(x) == \E topic \in Topics : /\ subscribe(topic) /\ x = Len(subscriptions')
                                             /\ subscriptions'[x].topic = topic
  <1>1. (Old(s) \/ New(s)) /\ (Old(t) \/ New(t))
    BY StandsStep
  <1>2. ASSUME NEW x, NEW y, Old(x), New(y), subscriptions'[x].topic = subscriptions'[y].topic
        PROVE  FALSE
    <2>1. PICK topic \in Topics : subscribe(topic) /\ subscriptions'[y].topic = topic
      BY <1>2
    <2>2. x \in Standing(topic)
      BY <1>2, <2>1 DEF Standing, Stands
    <2> QED
      BY <2>1, <2>2 DEF subscribe
  <1>3. CASE Old(s) /\ Old(t)
    BY <1>3 DEF OneStands
  <1>4. CASE New(s) /\ New(t)
    BY <1>4
  <1> QED
    BY <1>1, <1>2, <1>3, <1>4

\* What the broker takes and answers.
LEMMA HeldTaken ==
  ASSUME Base, [Next]_vars, BrokerTakes, Established, HeldSubscribed, HeldGranted, HeldRequested
  PROVE  HeldSubscribed' /\ HeldGranted' /\ HeldRequested'
  <1> DEFINE p == Head(up)
  <1>t. Types /\ StreamTypes /\ Handshake /\ Len(up) \in Nat
    BY DEF Base, Types, StreamTypes
  <1>p. StreamTypes' /\ Len(up') \in Nat
    BY BaseStep DEF Base, Types, StreamTypes
  <1>u. UNCHANGED <<pendingSubscriptionAck, pendingUnsubscriptions, subscriptions, active>>
    BY DEF BrokerTakes, subVars
  <1>1. /\ up # <<>> /\ 1 \in 1 .. Len(up) /\ p = up[1] /\ Len(up') = Len(up) - 1
        /\ \A k \in 1 .. Len(up') : k + 1 \in 1 .. Len(up) /\ up'[k] = up[k + 1]
    BY <1>t, Taking DEF BrokerTakes
  <1>2. p.type # "CONNECT"
    BY <1>t, <1>1 DEF Handshake, NoConnect, Waits, Established
  <1>3. ASSUME NEW topic, Keeps(topic) PROVE Keeps(topic)'
    <2>1. ~(p.type = "UNSUBSCRIBE" /\ p.value = topic)
      BY <1>1, <1>3 DEF Keeps, Drops
    <2>2. topic \in session'
      BY <1>2, <1>3, <1>t, <2>1, SessionTaken DEF Keeps
    <2> QED
      BY <1>1, <1>3, <2>2 DEF Keeps, Drops
  <1>s. \A s : Stands(s)' <=> Stands(s)
    BY <1>u DEF Stands
  <1>4. HeldSubscribed'
    <2> SUFFICES ASSUME NEW s, Stands(s)', subscriptions'[s].state = "Subscribed",
                        NEW topic, topic = subscriptions'[s].topic
                 PROVE  Keeps(topic)'
      BY DEF HeldSubscribed, Keeps, Drops
    <2>1. Keeps(topic)
      BY <1>s, <1>u DEF HeldSubscribed
    <2> QED
      BY <1>3, <2>1
  <1>5. HeldGranted'
    <2> SUFFICES ASSUME NEW j \in 1 .. Len(down'), IsAnswer(j, {"SUBACK"})', down'[j].packet.value # 128,
                        NEW s, s = pendingSubscriptionAck'[down'[j].packet.id], Stands(s)',
                        NEW topic, topic = subscriptions'[s].topic
                 PROVE  Keeps(topic)'
      BY DEF HeldGranted, Keeps, Drops, Stands
    <2>1. CASE \E i \in 1 .. Len(down) : down'[j] = down[i]
      <3>1. Keeps(topic)
        BY <1>s, <1>u, <2>1 DEF HeldGranted, IsAnswer
      <3> QED
        BY <1>3, <3>1
    <2>2. CASE /\ Matches(p, down'[j].packet) /\ Answer(Units(down'[j].packet))
               /\ down'[j].packet \in DownPacket
      <3> DEFINE a == down'[j].packet
      <3>1. p.type = "SUBSCRIBE" /\ a.id = p.id
        BY <2>2 DEF Matches, IsAnswer
      <3>2. p.value = topic /\ \A k \in 2 .. Len(up) : ~Drops(k, topic)
        <4>1. 1 + 1 = 2
          OBVIOUS
        <4> QED
          BY <1>1, <1>s, <1>u, <3>1, <4>1 DEF HeldRequested
      <3>3. session' = session \union {p.value}
        <4> SUFFICES ASSUME Answer(Units(Packet("SUBACK", p.id, 128))) PROVE FALSE
          BY <1>2, <1>t, <3>1, SessionTaken
        <4> DEFINE b == Packet("SUBACK", p.id, 128)
        <4>1. b \in DownPacket /\ b.value = 128
          BY <1>1, <1>t, <3>1, UpFields, DownPackets, PacketParts DEF StreamTypes
        <4> HIDE DEF b, a
        <4>2. down'[Len(down) + 1].packet = b
          BY <1>t, <4>1, Answered DEF b
        <4>3. down'[Len(down) + 1].packet = a
          BY <1>t, <2>2, Answered DEF a
        <4> QED
          BY <4>1, <4>2, <4>3 DEF a
      <3>4. \A k \in 1 .. Len(up') : ~Drops(k, topic)'
        <4> TAKE k \in 1 .. Len(up')
        <4>1. k + 1 \in 2 .. Len(up) /\ up'[k] = up[k + 1]
          BY <1>1, <1>p, <1>t
        <4> QED
          BY <3>2, <4>1 DEF Drops
      <3> QED
        BY <3>2, <3>3, <3>4 DEF Keeps
    <2> QED
      BY <1>t, <2>1, <2>2, DownElements DEF IsAnswer
  <1>6. HeldRequested'
    <2> SUFFICES ASSUME NEW j \in 1 .. Len(up'), up'[j].type = "SUBSCRIBE",
                        NEW s, s = pendingSubscriptionAck'[up'[j].id],
                        NEW topic, topic = subscriptions'[s].topic
                 PROVE  /\ up'[j].value = topic
                        /\ Stands(s)' => \A k \in j + 1 .. Len(up') : ~Drops(k, topic)'
      BY DEF HeldRequested, Drops, Stands
    <2>1. /\ up[j + 1].value = topic
          /\ Stands(s) => \A k \in j + 2 .. Len(up) : ~Drops(k, topic)
      <3>1. j + 1 \in 1 .. Len(up) /\ up[j + 1].type = "SUBSCRIBE" /\ s = pendingSubscriptionAck[up[j + 1].id]
        BY <1>1, <1>u
      <3>2. (j + 1) + 1 = j + 2
        OBVIOUS
      <3> QED
        BY <1>u, <3>1, <3>2 DEF HeldRequested
    <2>2. ASSUME Stands(s), NEW k \in j + 1 .. Len(up') PROVE ~Drops(k, topic)'
      <3>1. k + 1 \in j + 2 .. Len(up) /\ up'[k] = up[k + 1]
        BY <1>1, <1>p, <1>t
      <3> QED
        BY <2>1, <2>2, <3>1 DEF Drops
    <2> QED
      BY <1>1, <1>s, <2>1, <2>2
  <1> QED
    BY <1>4, <1>5, <1>6

\* All that the broker does not take part in.
LEMMA HeldMoves ==
  ASSUME Base, SubscribesOnce, UnsubscribesOnce, [Next]_vars, Established, Established', ~exhausted',
         ~BrokerTakes, OneStands, HeldSubscribed, HeldGranted, HeldRequested
  PROVE  HeldSubscribed' /\ HeldGranted' /\ HeldRequested'
  <1>t. Types /\ StreamTypes /\ TableTypes /\ Len(up) \in Nat
    BY DEF Base, Types, StreamTypes
  <1>p. TableTypes' /\ StreamTypes' /\ Len(up') \in Nat
    BY BaseStep DEF Base, Types, StreamTypes
  <1>o. \A k \in 1 .. Len(up') :
          \/ k \in 1 .. Len(up) /\ up'[k] = up[k]
          \/ k = Len(up) + 1 /\ Added(up'[k])
    BY <1>t, UpElements
  <1>s. \A s : Stands(s)' /\ s \in DOMAIN subscriptions =>
          Stands(s) /\ subscriptions'[s].topic = subscriptions[s].topic
    BY StandsStep
  \* an unsubscription that is asked for now is for another topic
  <1>1. ASSUME NEW s, Stands(s), Stands(s)', NEW k \in 1 .. Len(up'), Drops(k, subscriptions[s].topic)',
               subscriptions'[s].topic = subscriptions[s].topic
        PROVE  k \in 1 .. Len(up) /\ Drops(k, subscriptions[s].topic)
    <2>1. CASE k \in 1 .. Len(up) /\ up'[k] = up[k]
      BY <1>1, <2>1 DEF Drops
    <2>2. CASE k = Len(up) + 1 /\ Added(up'[k])
      <3>1. PICK t \in active : /\ unsubscribe(t) /\ internal = "BrokerConnected"
                                /\ up'[k].id = counter' /\ up'[k].value = subscriptions[t].topic
        BY <1>1, <2>2 DEF Added, Drops
      <3>2. counter' \in Ids /\ pendingUnsubscriptions' = [pendingUnsubscriptions EXCEPT ![counter'] = t]
        BY <1>t, <3>1, IdentifierGiven DEF unsubscribe, TableTypes
      <3>3. pendingUnsubscriptions'[counter'] = t
        BY <1>t, <3>2 DEF TableTypes
      <3>4. Stands(t)
        BY <3>1 DEF unsubscribe, Standing, Stands
      <3>5. subscriptions[t].topic = subscriptions[s].topic
        BY <1>1, <3>1 DEF Drops
      <3>6. s = t
        BY <1>1, <3>4, <3>5 DEF OneStands
      <3> QED
        BY <1>1, <3>2, <3>3, <3>6 DEF Stands
    <2> QED
      BY <1>o, <2>1, <2>2
  <1>2. ASSUME NEW s, Stands(s), Stands(s)', subscriptions'[s].topic = subscriptions[s].topic,
               Keeps(subscriptions[s].topic)
        PROVE  Keeps(subscriptions[s].topic)'
    <2>1. session' = session
      BY SessionMoves
    <2>2. subscriptions'[s].topic \in session'
      BY <1>2, <2>1 DEF Keeps
    <2>3. \A k \in 1 .. Len(up') : ~Drops(k, subscriptions[s].topic)'
      BY <1>1, <1>2 DEF Keeps
    <2> QED
      BY <2>2, <2>3 DEF Keeps
  <1>3. HeldSubscribed'
    <2> SUFFICES ASSUME NEW s, Stands(s)', subscriptions'[s].state = "Subscribed"
                 PROVE  Keeps(subscriptions[s].topic)'
      BY DEF HeldSubscribed
    <2>1. CASE \E topic \in Topics : subscriptions'[s].state = "SubscriptionPending"
      BY <2>1
    <2>2. CASE /\ Stands(s) /\ subscriptions'[s].topic = subscriptions[s].topic
               /\ subscriptions[s].state = "Subscribed"
      BY <1>2, <2>2 DEF HeldSubscribed
    <2>3. CASE /\ Stands(s) /\ subscriptions'[s].topic = subscriptions[s].topic
               /\ finalize_suback /\ s = pendingSubscriptionAck[Arriving.id] /\ Arriving.value # 128
      <3>1. down # <<>> /\ Part = "body" /\ Arriving.type = "SUBACK"
        BY <2>3 DEF finalize_suback, Body
      <3>2. 1 \in 1 .. Len(down) /\ IsAnswer(1, {"SUBACK"}) /\ Arriving = down[1].packet
        BY <1>t, <3>1, Reading DEF IsAnswer, Arriving, Part, StreamTypes
      <3>3. Keeps(subscriptions[s].topic)
        BY <2>3, <3>2 DEF HeldGranted
      <3> QED
        BY <1>2, <2>3, <3>3
    <2> QED
      BY <2>1, <2>2, <2>3, StandsStep
  <1>4. HeldGranted'
    <2> SUFFICES ASSUME NEW j \in 1 .. Len(down'), IsAnswer(j, {"SUBACK"})', down'[j].packet.value # 128,
                        NEW s, s = pendingSubscriptionAck'[down'[j].packet.id], Stands(s)'
                 PROVE  Keeps(subscriptions[s].topic)'
      BY DEF HeldGranted, Keeps, Drops, Stands
    <2>1. PICK i \in 1 .. Len(down) : down'[j] = down[i]
      BY <1>t, DownElements DEF IsAnswer
    <2>2. IsAnswer(i, {"SUBACK"}) /\ down[i].packet.value # 128 /\ s = pendingSubscriptionAck'[down[i].packet.id]
      BY <2>1 DEF IsAnswer
    <2>3. s # None /\ down[i].packet.id \in Ids
      <3>1. s \in active'
        BY DEF Stands
      <3>2. s # None
        <4>1. \A x \in DOMAIN subscriptions' : x # None
          BY <1>p DEF TableTypes, None
        <4> QED
          BY <1>p, <3>1, <4>1 DEF TableTypes
      <3> QED
        BY <1>t, <2>2, <3>2, EntriesWait
    <2>4. s = pendingSubscriptionAck[down[i].packet.id]
      <3>1. CASE finalize_suback /\ down[i].packet.id = Arriving.id
        <4>1. pendingSubscriptionAck'[down[i].packet.id] = None
          BY <1>t, <2>3, <3>1 DEF finalize_suback, TableTypes
        <4> QED
          BY <2>2, <2>3, <4>1
      <3> QED
        BY <2>2, <3>1, EntriesStay
    <2>5. s \in DOMAIN subscriptions
      BY <1>t, <2>3, <2>4 DEF TableTypes
    <2>6. Stands(s) /\ subscriptions'[s].topic = subscriptions[s].topic
      BY <1>s, <2>5
    <2>7. Keeps(subscriptions[s].topic)
      BY <2>2, <2>4, <2>6 DEF HeldGranted
    <2> QED
      BY <1>2, <2>6, <2>7
  <1>5. HeldRequested'
    <2> SUFFICES ASSUME NEW j \in 1 .. Len(up'), up'[j].type = "SUBSCRIBE",
                        NEW s, s = pendingSubscriptionAck'[up'[j].id]
                 PROVE  /\ up'[j].value = subscriptions'[s].topic
                        /\ Stands(s)' => \A k \in j + 1 .. Len(up') : ~Drops(k, subscriptions[s].topic)'
      BY DEF HeldRequested, Drops, Stands
    <2>1. CASE j \in 1 .. Len(up) /\ up'[j] = up[j]
      <3>1. up[j].id \in Ids /\ pendingSubscriptionAck[up[j].id] # None /\ s = pendingSubscriptionAck[up[j].id]
        BY <1>t, <2>1, EntriesWait, EntriesStay
      <3>2. s \in DOMAIN subscriptions /\ subscriptions'[s].topic = subscriptions[s].topic
        BY <1>t, <3>1, EntriesStay DEF TableTypes
      <3>3. /\ up[j].value = subscriptions[s].topic
            /\ Stands(s) => \A k \in j + 1 .. Len(up) : ~Drops(k, subscriptions[s].topic)
        BY <2>1, <3>1 DEF HeldRequested
      <3>4. ASSUME Stands(s)', NEW k \in j + 1 .. Len(up'), Drops(k, subscriptions[s].topic)' PROVE FALSE
        <4>1. k \in 1 .. Len(up')
          BY <1>p
        <4>2. Stands(s)
          BY <1>s, <3>2, <3>4
        <4>3. k \in 1 .. Len(up) /\ Drops(k, subscriptions[s].topic)
          BY <1>1, <3>2, <3>4, <4>1, <4>2
        <4>4. k \in j + 1 .. Len(up)
          BY <4>3
        <4> QED
          BY <3>3, <4>2, <4>3, <4>4
      <3> QED
        BY <2>1, <3>2, <3>3, <3>4
    <2>2. CASE j = Len(up) + 1 /\ Added(up'[j])
      <3>1. PICK topic \in Topics : subscribe(topic) /\ up'[j].id = counter' /\ up'[j].value = topic
        BY <2>2 DEF Added
      <3>2. counter' \in Ids
        BY <1>t, <3>1, IdentifierGiven DEF subscribe, TableTypes
      <3>3. s = Len(subscriptions')
        BY <1>t, <3>1, <3>2 DEF subscribe, TableTypes
      <3>4. subscriptions'[s].topic = topic
        BY <1>t, <3>1, <3>3, Subscribed DEF subscribe
      <3>5. \A k \in j + 1 .. Len(up') : FALSE
        BY <1>o, <1>p, <1>t, <2>2
      <3> QED
        BY <3>1, <3>4, <3>5
    <2> QED
      BY <1>o, <2>1, <2>2
  <1> QED
    BY <1>3, <1>4, <1>5

\* Every step keeps what the client takes for subscribed held.
LEMMA HeldStep ==
  ASSUME Base, Exchanges, Held, [Next]_vars, FreshSession
  PROVE  Held'
  <1> SUFFICES ASSUME Established', ~exhausted'
               PROVE  OneStands' /\ HeldSubscribed' /\ HeldGranted' /\ HeldRequested'
    BY DEF Held
  <1>t. Types
    BY DEF Base
  <1>1. CASE ~Established
    <2>1. socket = "open" /\ finalize_connack /\ Arriving.value = 0
      BY <1>1, Beginnings
    <2>2. active' = {} /\ up' = <<>>
      BY <2>1, Establishing
    <2>3. \A s : ~Stands(s)'
      BY <2>2 DEF Stands
    <2> QED
      BY <2>2, <2>3 DEF OneStands, HeldSubscribed, HeldGranted, HeldRequested, Stands
  <1>2. CASE Established
    <2>1. ~exhausted
      BY <1>t, ExhaustedStays
    <2>2. SubscribesOnce /\ UnsubscribesOnce
      BY <2>1 DEF Exchanges
    <2>3. OneStands /\ HeldSubscribed /\ HeldGranted /\ HeldRequested
      BY <1>2, <2>1 DEF Held
    <2>4. OneStands'
      BY <1>2, <2>2, <2>3, OneStandsStep
    <2>5. HeldSubscribed' /\ HeldGranted' /\ HeldRequested'
      BY <1>2, <2>2, <2>3, HeldTaken, HeldMoves
    <2> QED
      BY <2>4, <2>5
  <1> QED
    BY <1>1, <1>2

\* What the application sees as subscribed the broker of this connection holds
\* (finalize_suback, unsubscribe, and cleanSubscriptions on a session that is not restored).
THEOREM SubscribedHeld == Spec => []SubscribedIsHeld
  <1>1. Init => Base /\ Exchanges /\ FreshSession /\ Held
    BY InitBase, InitExchanges DEF Init, FreshSession, Held, Waits, Established
  <1>2. Base /\ Exchanges /\ FreshSession /\ Held /\ [Next]_vars => (Base /\ Exchanges /\ FreshSession /\ Held)'
    BY BaseStep, ExchangesStep, FreshSessionStep, HeldStep
  <1>3. TypeOK /\ Held => SubscribedIsHeld
    <2> SUFFICES ASSUME TypeOK, Established, ~exhausted, Held,
                        NEW s \in active, subscriptions[s].state = "Subscribed",
                        s \in Standing(subscriptions[s].topic)
                 PROVE  subscriptions[s].topic \in session
      BY DEF SubscribedIsHeld, Established
    <2>1. Stands(s)
      BY DEF Standing, Stands
    <2> QED
      BY <2>1 DEF Held, HeldSubscribed, Keeps
  <1> QED
    BY <1>1, <1>2, <1>3, TypeCorrect, PTL DEF Spec
=============================================================================
