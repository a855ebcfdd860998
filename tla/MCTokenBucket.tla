--------------------------- MODULE MCTokenBucket ---------------------------
(* Small instances of the token bucket. *)
EXTENDS TokenBucket

\* Adjustments of the clock, one of them longer than it takes to fill the bucket.
MCSteps == {-6, -2, 1, 6}
=============================================================================
