---------------------------- MODULE MCEventLoop ----------------------------
(* Small instances of the poll loop. *)
EXTENDS EventLoop

CONSTANTS c1, c2, c3

MCClients == {c1, c2, c3}
=============================================================================
