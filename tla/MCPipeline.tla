----------------------------- MODULE MCPipeline -----------------------------
(* Small instances of the gateway's data path. *)
EXTENDS Pipeline

\* Temperature and humidity only.
MCTwoSensors == {16789, 16790}
=============================================================================
