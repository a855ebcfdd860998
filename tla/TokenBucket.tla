---------------------------- MODULE TokenBucket ----------------------------
(***************************************************************************)
(* token_bucket.c: the limiter that the UDP handler asks before it parses  *)
(* a datagram.  Tokens are refilled lazily, from the milliseconds of WALL  *)
(* CLOCK time that passed since the last refill, so an adjustment of the   *)
(* clock (NTP, an operator) is an input of the algorithm.                  *)
(*                                                                         *)
(* Tokens are counted in thousandths: RATE tokens per second are RATE of   *)
(* them per millisecond, exactly.  (The code's double rounds; that is the  *)
(* only abstraction of the arithmetic.)                                    *)
(***************************************************************************)
EXTENDS Integers, Sequences

CONSTANTS
  CAPACITY,   \* tokens the bucket holds (100)
  RATE,       \* tokens refilled per second (50)
  Steps,      \* by how many ms the clock may be stepped, forwards or backwards
  MaxClock,   \* bound: ms that pass or are stepped over
  MaxPassed   \* bound: datagrams let through

ASSUME TokenBucketAssumption ==
  /\ CAPACITY \in Nat /\ CAPACITY >= 1
  /\ RATE \in Nat
  /\ Steps \subseteq Int
  /\ MaxClock \in Nat /\ MaxPassed \in Nat

VARIABLES
  tb_tokens,         \* thousandths of tokens in the bucket
  tb_last_time_ms,   \* clock reading of the last refill
  now,               \* what gettimeofday would answer
  elapsed,           \* history: ms that passed, plus ms the clock was put forward
  passed             \* history: `elapsed` at each datagram let through

bucketVars == <<tb_tokens, tb_last_time_ms, now, elapsed, passed>>

Full == 1000 * CAPACITY

\* token_bucket_init
BucketInit ==
  /\ tb_tokens = Full
  /\ now = 0 /\ tb_last_time_ms = now
  /\ elapsed = 0 /\ passed = <<>>

\* The tokens after the refill that opens token_bucket_consume.
Refilled ==
  LET added == (now - tb_last_time_ms) * RATE
  IN  IF now <= tb_last_time_ms THEN tb_tokens
      ELSE IF tb_tokens + added > Full THEN Full ELSE tb_tokens + added

LastTimeNotAdvanced == UNCHANGED tb_last_time_ms

\* elapsed_ms > 0: the refill moves tb_last_time_ms up to now.
AdvanceLastTime ==
  tb_last_time_ms' = IF now > tb_last_time_ms THEN now ELSE tb_last_time_ms

AllowedAboveOne == Refilled > 1000

\* tb_tokens >= 1
Allowed == Refilled >= 1000

\* token_bucket_consume(1), which returns Allowed.
Consume ==
  /\ Len(passed) < MaxPassed
  /\ AdvanceLastTime
  /\ IF Allowed THEN /\ tb_tokens' = Refilled - 1000
                     /\ passed' = Append(passed, elapsed)
                ELSE /\ tb_tokens' = Refilled
                     /\ UNCHANGED passed
  /\ UNCHANGED <<now, elapsed>>

TimePasses ==
  /\ elapsed < MaxClock
  /\ now' = now + 1 /\ elapsed' = elapsed + 1
  /\ UNCHANGED <<tb_tokens, tb_last_time_ms, passed>>

ClockStepped(ms) ==
  /\ now + ms \in -MaxClock .. MaxClock
  /\ now' = now + ms
  /\ elapsed' = IF ms > 0 THEN elapsed + ms ELSE elapsed
  /\ elapsed' <= MaxClock
  /\ UNCHANGED <<tb_tokens, tb_last_time_ms, passed>>

BucketNext == Consume \/ TimePasses \/ \E ms \in Steps : ClockStepped(ms)
BucketSpec == BucketInit /\ [][BucketNext]_bucketVars

-----------------------------------------------------------------------------
BucketTypeOK ==
  /\ tb_tokens \in 0 .. Full
  /\ tb_last_time_ms \in Int /\ now \in Int
  /\ elapsed \in Nat
  /\ passed \in Seq(Nat)

\* Datagrams let through since the k-th one, which is counted, and what a full
\* bucket and the refill since then amount to.
PassedSince(k) == Len(passed) - k + 1
Supply(k) == Full + RATE * (elapsed - passed[k])

\* Whatever the senders do, no interval lets more datagrams through than a full
\* bucket plus the refill of that interval; putting the clock forward counts as
\* time, and putting it back, however often, yields nothing.
RateBound == \A k \in 1 .. Len(passed) : 1000 * PassedSince(k) <= Supply(k)

\* The clock was put back at least once: it shows less than has passed.
PutBack == now < elapsed

\* Unless the clock was put back the bucket does not throttle a sender who keeps
\* to the rate: a datagram would be refused only when, since some earlier one,
\* letting it through would exceed a full bucket plus the refill.  (After a step
\* back the refill stops until the clock is where it was: the condition is needed.)
RefusesOnlyExcess ==
  ~PutBack /\ ~Allowed =>
    \E k \in 1 .. Len(passed) : 1000 * (PassedSince(k) + 1) > Supply(k)
=============================================================================
