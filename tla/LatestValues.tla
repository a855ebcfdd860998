---------------------------- MODULE LatestValues ----------------------------
(***************************************************************************)
(* What the blackboard promises to the processes that share it: a table    *)
(* with room for some sensors that is updated and read atomically, never   *)
(* forgets a sensor, and answers the value written last.                   *)
(***************************************************************************)
EXTENDS FiniteSets, Naturals

CONSTANTS Sensor, Value, None, Reader, Capacity

VARIABLES
  latest,   \* the value of each sensor, or None
  answer    \* what each reader was told and still knows: [id, data]

vars == <<latest, answer>>

Nothing == [id |-> 0, data |-> None]

Init ==
  /\ latest = [s \in Sensor |-> None]
  /\ answer = [r \in Reader |-> Nothing]

Known == {s \in Sensor : latest[s] # None}

Update(s, v) ==
  /\ s \in Known \/ Cardinality(Known) < Capacity
  /\ latest' = [latest EXCEPT ![s] = v]
  /\ UNCHANGED answer

Read(r, s) ==
  /\ answer' = [answer EXCEPT ![r] = [id |-> s, data |-> latest[s]]]
  /\ UNCHANGED latest

\* A reader is done with its answer.
Forget(r) ==
  /\ answer' = [answer EXCEPT ![r] = Nothing]
  /\ UNCHANGED latest

Next ==
  \/ \E s \in Sensor, v \in Value : Update(s, v)
  \/ \E r \in Reader, s \in Sensor : Read(r, s)
  \/ \E r \in Reader : Forget(r)

Spec == Init /\ [][Next]_vars
=============================================================================
