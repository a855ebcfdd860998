---------------------------- MODULE MCLifecycle ----------------------------
(* Two executions of the gateway, each with the two children of main.c. *)
EXTENDS Lifecycle

MCPrograms == {1, 2}
MCKids == {1, 2}
=============================================================================
