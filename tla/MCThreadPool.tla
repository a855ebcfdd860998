---------------------------- MODULE MCThreadPool ----------------------------
(* Small instances of the thread pool. *)
EXTENDS ThreadPool

CONSTANTS w1, w2

MCWorkers == {w1, w2}
\* Linux hands the process-directed SIGALRM to the main thread when it can ...
MCMainOnly == {Main}
\* ... but POSIX lets it interrupt any thread that does not block it.
MCAnyThread == {Main, w1, w2}
=============================================================================
