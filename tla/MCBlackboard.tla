---------------------------- MODULE MCBlackboard ----------------------------
(* Small instances of the blackboard. *)
EXTENDS Blackboard

CONSTANTS c1, c2

MCChildren == {c1, c2}
\* Temperature, humidity, another sensor, and a datagram with id 0.
MCIds == {0, 3, 16789, 16790}
=============================================================================
