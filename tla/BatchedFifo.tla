---------------------------- MODULE BatchedFifo ----------------------------
(***************************************************************************)
(* What the ring of the gateway promises to its two users: a bounded FIFO  *)
(* queue.  The producer puts an item or, when the queue is full, gives it  *)
(* up; the consumer moves items one by one from the front of the queue to  *)
(* the batch it is collecting, and disposes of the batch as a whole.       *)
(***************************************************************************)
EXTENDS Naturals, Sequences

CONSTANTS Item, Capacity, BatchMax

VARIABLES waiting, batch

vars == <<waiting, batch>>

Init == waiting = <<>> /\ batch = <<>>

Put(item) ==
  /\ Len(waiting) < Capacity
  /\ waiting' = Append(waiting, item)
  /\ UNCHANGED batch

Take ==
  /\ waiting # <<>>
  /\ Len(batch) < BatchMax
  /\ batch' = Append(batch, Head(waiting))
  /\ waiting' = Tail(waiting)

Dispose ==
  /\ batch # <<>>
  /\ batch' = <<>>
  /\ UNCHANGED waiting

Next == (\E item \in Item : Put(item)) \/ Take \/ Dispose

Spec == Init /\ [][Next]_vars

FairSpec == Spec /\ WF_vars(Take) /\ WF_vars(Dispose)
=============================================================================
