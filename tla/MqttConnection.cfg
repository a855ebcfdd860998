SPECIFICATION FairSpec
CONSTANTS
  t1 = t1
  Topics <- MCTopics
  QoS <- MCQoS
  CleanSessions = {TRUE, FALSE}
  MaxId = 3
  MaxConnects = 2
  MaxExchanges = 2
  MaxIncoming = 1
INVARIANTS PacketsInStep OneUsePerIdentifier SentOnlyIfReceived SubscribedIsHeld
PROPERTIES HeardUnlessRestored DeadPeerNoticed ImplementsSession
CHECK_DEADLOCK FALSE
