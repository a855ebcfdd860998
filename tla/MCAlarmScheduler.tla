-------------------------- MODULE MCAlarmScheduler --------------------------
(* Small instances of the alarm scheduler over the thread pool. *)
EXTENDS AlarmScheduler

CONSTANTS w1, w2

MCWorkers  == {w1, w2}
MCMainOnly == {Main}
\* POSIX lets a process-directed signal interrupt any thread that does not
\* block it.
MCAnyThread == {Main, w1, w2}

MCInterval == [i \in Tasks |-> i + 1]
=============================================================================
