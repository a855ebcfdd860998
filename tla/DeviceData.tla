----------------------------- MODULE DeviceData -----------------------------
(***************************************************************************)
(* What the pages of the desktop share: a reading and the limits hold one  *)
(* value per sensor.                                                       *)
(***************************************************************************)
EXTENDS Naturals

CONSTANT MaxValue    \* bound: values are 0 .. MaxValue

ASSUME ValueAssumption == MaxValue \in Nat \ {0}

Sensors == {"temperature", "humidity"}
Readings == [Sensors -> 0 .. MaxValue]

\* The values before anything is received.
Zero == [s \in Sensors |-> 0]

Over(reading, limits) == {s \in Sensors : reading[s] > limits[s]}
=============================================================================
