--------------------------- MODULE MCProcessPool ---------------------------
(* Small instances of the process pool. *)
EXTENDS ProcessPool

CONSTANTS c1, c2, t1, t2

MCChildren == {c1, c2}
MCMortal   == {c1}
MCThreads  == {t1, t2}
=============================================================================
