-------------------------- MODULE MCMqttConnection --------------------------
(* A small instance of the MQTT client. *)
EXTENDS MqttConnection

CONSTANTS t1

MCTopics == {t1}
MCQoS == {1, 2}
=============================================================================
