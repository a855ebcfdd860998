---------------------------- MODULE MqttSession ----------------------------
(***************************************************************************)
(* What an MQTT client promises its application: a connection that is      *)
(* begun, accepted and ended, and the topics whose messages are handed     *)
(* over.  A topic is gained only while connected.                          *)
(***************************************************************************)
CONSTANT Topics

VARIABLES
  state,       \* "Disconnected", "Connecting", "Connected"
  subscribed   \* topics with an active subscription

Init == state = "Disconnected" /\ subscribed = {}

Forget == subscribed' \in SUBSET subscribed

Begin == state = "Disconnected" /\ state' = "Connecting" /\ Forget

Accept == state = "Connecting" /\ state' = "Connected" /\ Forget

End == state \in {"Connecting", "Connected"} /\ state' = "Disconnected" /\ Forget

Subscribe ==
  /\ state = "Connected" /\ UNCHANGED state
  /\ \E topic \in Topics : subscribed' = subscribed \union {topic}

\* Unsubscribed, or forgotten by a disconnect that could not be sent.
Unsubscribe == UNCHANGED state /\ Forget

Next == Begin \/ Accept \/ End \/ Subscribe \/ Unsubscribe

Spec == Init /\ [][Next]_<<state, subscribed>>
=============================================================================
