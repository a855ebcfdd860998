----------------------------- MODULE WorkQueue -----------------------------
(***************************************************************************)
(* What a thread pool promises: submitted tasks are started in the order   *)
(* of submission, each by one worker, until the pool is closed; after that *)
(* nothing is accepted and nothing is started.                             *)
(***************************************************************************)
EXTENDS Naturals, Sequences

CONSTANTS Worker, Task, NoTask, Capacity

VARIABLES waiting, running, closed

vars == <<waiting, running, closed>>

Init ==
  /\ waiting = <<>>
  /\ running = [w \in Worker |-> NoTask]
  /\ closed = FALSE

Submit(task) ==
  /\ ~closed /\ Len(waiting) < Capacity
  /\ waiting' = Append(waiting, task)
  /\ UNCHANGED <<running, closed>>

Start(w) ==
  /\ ~closed /\ waiting # <<>> /\ running[w] = NoTask
  /\ running' = [running EXCEPT ![w] = Head(waiting)]
  /\ waiting' = Tail(waiting)
  /\ UNCHANGED closed

Finish(w) ==
  /\ running[w] # NoTask
  /\ running' = [running EXCEPT ![w] = NoTask]
  /\ UNCHANGED <<waiting, closed>>

Close ==
  /\ closed' = TRUE
  /\ UNCHANGED <<waiting, running>>

Next ==
  \/ \E task \in Task : Submit(task)
  \/ \E w \in Worker : Start(w) \/ Finish(w)
  \/ Close

Spec == Init /\ [][Next]_vars

\* Some worker starts the oldest task as long as one is free.
FairSpec == Spec /\ WF_vars(\E w \in Worker : Start(w))
=============================================================================
