----------------------------- MODULE RateLimit -----------------------------
(***************************************************************************)
(* The per-key token bucket (quiver-server/src/rate_limit.rs).  Time is    *)
(* counted in ticks of 1/Ticks second and a token is Ticks units, so the   *)
(* refill elapsed * rate of the code is a whole number of units.  A thread *)
(* reads the clock in check() before it takes the bucket's mutex, so the   *)
(* instants reach check_at in any order.                                   *)
(***************************************************************************)
EXTENDS Integers, Sequences, FiniteSets

CONSTANTS
  Threads,              \* the request threads of one API key
  Ticks,                \* clock ticks per second
  requests_per_second, burst,   \* RateLimitConfig
  MaxNow, MaxAdmitted   \* bounds on the clock and on the history

VARIABLES
  now,        \* the clock
  read,       \* per thread: the instant it read before locking, or Nothing
  bucket,     \* [tokens, last]; tokens = Nothing before the key's first request
  admitted,   \* history: the instants check_at admitted a request for
  promise,    \* history: the instant a refusal said to come back, or Nothing
  regressed   \* history: an instant older than bucket.last has reached check_at

vars == <<now, read, bucket, admitted, promise, regressed>>

Nothing == -1

enabled == requests_per_second > 0

capacity == IF burst > 0 THEN burst ELSE requests_per_second

CeilDiv(a, b) == (a + b - 1) \div b
max(a, b) == IF a >= b THEN a ELSE b
min(a, b) == IF a <= b THEN a ELSE b

TypeOK ==
  /\ now \in 0..MaxNow
  /\ read \in [Threads -> {Nothing} \cup 0..MaxNow]
  /\ bucket \in [tokens : {Nothing} \cup 0..capacity * Ticks, last : 0..MaxNow]
  /\ admitted \in Seq(0..MaxNow)
  /\ promise \in {Nothing} \cup Nat
  /\ regressed \in BOOLEAN

Init ==
  /\ now = 0
  /\ read = [t \in Threads |-> Nothing]
  /\ bucket = [tokens |-> Nothing, last |-> 0]
  /\ admitted = <<>>
  /\ promise = Nothing
  /\ regressed = FALSE

\* Mutant: every request finds a full bucket.
refilled_anew(at) == [tokens |-> capacity * Ticks, last |-> at]

\* The bucket after the refill for the time since it was last touched.
refilled(at) ==
  LET old == IF bucket.tokens = Nothing THEN [tokens |-> capacity * Ticks, last |-> at]
                                        ELSE bucket
      elapsed == max(at - old.last, 0)
  IN [tokens |-> min(old.tokens + elapsed * requests_per_second, capacity * Ticks),
      last |-> at]

\* The refusal's Retry-After, in seconds.
retry_after(tokens) == max(1, CeilDiv(Ticks - tokens, requests_per_second * Ticks))

\* RateLimiter::check: the clock is read outside the lock ...
check(t) ==
  /\ read[t] = Nothing
  /\ read' = [read EXCEPT ![t] = now]
  /\ UNCHANGED <<now, bucket, admitted, promise, regressed>>

\* ... and the bucket is refilled and charged under it.
check_at(t) ==
  /\ read[t] # Nothing
  /\ read' = [read EXCEPT ![t] = Nothing]
  /\ IF ~enabled
     THEN UNCHANGED <<bucket, admitted, promise, regressed>>
     ELSE LET b == refilled(read[t]) IN
          /\ regressed' = (regressed \/ bucket.last > read[t])
          /\ IF b.tokens >= Ticks
             THEN /\ Len(admitted) < MaxAdmitted
                  /\ bucket' = [b EXCEPT !.tokens = @ - Ticks]
                  /\ admitted' = Append(admitted, read[t])
                  /\ promise' = Nothing
             ELSE /\ bucket' = b
                  /\ promise' = read[t] + retry_after(b.tokens) * Ticks
                  /\ UNCHANGED admitted
  /\ UNCHANGED now

Tick ==
  /\ now < MaxNow
  /\ now' = now + 1
  /\ UNCHANGED <<read, bucket, admitted, promise, regressed>>

Next ==
  \/ \E t \in Threads : check(t) \/ check_at(t)
  \/ Tick

Spec == Init /\ [][Next]_vars

----------------------------------------------------------------------------
\* No window of time holds more admitted requests than the burst plus what the
\* rate refills in it.
RateBound ==
  \A from, to \in 0..MaxNow :
    from <= to =>
      Ticks * Cardinality({i \in DOMAIN admitted : from <= admitted[i] /\ admitted[i] <= to})
        <= capacity * Ticks + requests_per_second * (to - from)

\* As long as the threads' instants reach the bucket in order, a key never gets
\* more than its sustained rate plus the burst, in any window of time and for any
\* interleaving of its requests (check_at's refill, cap and charge).
RateHolds == (enabled /\ ~regressed) => RateBound

\* A client that waits out the Retry-After of its refusal is admitted: no
\* request that reads the clock at or after the promised instant is refused
\* again while nothing was admitted since (the ceil of check_at's retry_after).
AdmitsTheRetry ==
  \A t \in Threads :
    (promise # Nothing /\ read[t] >= promise /\ ~regressed /\ check_at(t))
      => promise' = Nothing
RetryIsHonest == [][AdmitsTheRetry]_vars
=============================================================================
