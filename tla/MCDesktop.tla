----------------------------- MODULE MCDesktop -----------------------------
(* Two topics; the fields may name them apart or the same one twice. *)
EXTENDS Desktop

CONSTANTS t1, t2

MCConfigs == {[temp |-> t1, humi |-> t2], [temp |-> t1, humi |-> t1]}
MCServerLimits == {[s \in Sensors |-> IF s = "temperature" THEN 2 ELSE 0]}
=============================================================================
