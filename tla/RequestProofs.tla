--------------------------- MODULE RequestProofs ---------------------------
(***************************************************************************)
(* What a request meets before the engine: the rate limiter (RateLimit)    *)
(* and the gateway that authorizes and serves it (Gateway).                *)
(*                                                                         *)
(* The token bucket keeps its rate and its promises for every rate, burst, *)
(* clock resolution and number of threads.  RateBound is not inductive: it *)
(* does not say what the bucket still owes.  The strengthening relates the *)
(* tokens left to the requests admitted since every earlier instant: what  *)
(* was admitted since then, and what could be at once, is within the burst *)
(* and the refill.                                                         *)
(*                                                                         *)
(* In the gateway, keys are confined, followers are left alone and effects *)
(* are recorded for any keys, roles, scopes and collections, whenever the  *)
(* client goes.  The three are about what a request has done; the          *)
(* invariant adds what the handler established before the await the call   *)
(* runs behind: the key was authorized for the operation as it is now, and *)
(* the node may write.                                                     *)
(***************************************************************************)
EXTENDS RateLimit, FiniteSetTheorems, SequenceTheorems, TLAPS

\* What the configuration and the clock may be.
Instance ==
  /\ Ticks \in Nat \ {0}
  /\ requests_per_second \in Nat /\ burst \in Nat
  /\ MaxNow \in Nat /\ MaxAdmitted \in Nat

Window(s, from, to) == {i \in DOMAIN s : from <= s[i] /\ s[i] <= to}

\* Everything admitted came before the bucket was last touched, and what was
\* admitted since an instant, with the tokens left, is within the allowance.
Covered ==
  /\ bucket.tokens = Nothing => admitted = <<>>
  /\ \A i \in DOMAIN admitted : admitted[i] <= bucket.last
  /\ bucket.tokens # Nothing =>
       \A from \in 0..bucket.last :
         Ticks * Cardinality(Window(admitted, from, MaxNow)) + bucket.tokens
           <= capacity * Ticks + requests_per_second * (bucket.last - from)

\* At the promised instant the bucket will hold a token.
Promised ==
  promise # Nothing =>
    /\ bucket.tokens # Nothing
    /\ bucket.last <= promise
    /\ bucket.tokens + requests_per_second * (promise - bucket.last) >= Ticks

IInv ==
  /\ TypeOK
  /\ enabled /\ ~regressed => RateBound /\ Covered /\ Promised
  /\ ~enabled => promise = Nothing

-----------------------------------------------------------------------------
\* The larger and the smaller of two numbers, as check_at uses them.
LEMMA Larger == ASSUME NEW a \in Int, NEW b \in Int
                PROVE  /\ max(a, b) \in {a, b} /\ max(a, b) >= a /\ max(a, b) >= b
  BY DEF max

\* The smaller of two integers is one of them and no more than either.
LEMMA Smaller == ASSUME NEW a \in Int, NEW b \in Int
                 PROVE  /\ min(a, b) \in {a, b} /\ min(a, b) <= a /\ min(a, b) <= b
  BY DEF min

\* The admitted instants, and the one the bucket was last touched at, are numbers.
LEMMA HistoryType == ASSUME Instance, TypeOK PROVE admitted \in Seq(Nat) /\ bucket.last \in Nat
  <1>1. admitted \in Seq(0..MaxNow)
    BY DEF TypeOK
  <1>2. 0..MaxNow \subseteq Nat
    BY DEF Instance
  <1>3. admitted \in Seq(Nat)
    BY <1>1, <1>2, SeqMonotonic
  <1>4. bucket.last \in 0..MaxNow
    BY DEF TypeOK
  <1> QED
    BY <1>2, <1>3, <1>4

\* A request more in the history is one more in the windows around its instant.
LEMMA WindowAppend ==
  ASSUME NEW s \in Seq(Nat), NEW e \in Nat, NEW from \in Nat, NEW to \in Nat
  PROVE  /\ Cardinality(Window(s, from, to)) \in Nat
         /\ Cardinality(Window(Append(s, e), from, to)) =
              Cardinality(Window(s, from, to)) + (IF from <= e /\ e <= to THEN 1 ELSE 0)
  <1> DEFINE W == Window(s, from, to)
  <1>1. W \subseteq 1..Len(s)
    BY DEF Window
  <1>2. IsFiniteSet(W)
    <2>1. Len(s) \in Int
      OBVIOUS
    <2>2. IsFiniteSet(1..Len(s))
      BY <2>1, FS_Interval
    <2> QED
      BY <1>1, <2>2, FS_Subset
  <1>3. Cardinality(W) \in Nat
    BY <1>2, FS_CardinalityType
  <1>4. Len(s) + 1 \notin W
    BY <1>1
  <1>5. CASE from <= e /\ e <= to
    <2>1. Window(Append(s, e), from, to) = W \cup {Len(s) + 1}
      BY <1>5 DEF Window
    <2> QED
      BY <1>2, <1>3, <1>4, <1>5, <2>1, FS_AddElement
  <1>6. CASE ~(from <= e /\ e <= to)
    <2>1. Window(Append(s, e), from, to) = W
      BY <1>6 DEF Window
    <2> QED
      BY <1>3, <1>6, <2>1
  <1> QED
    BY <1>3, <1>5, <1>6

\* A division rounded up covers what it divides (retry_after).
LEMMA CeilDivCovers ==
  ASSUME NEW a \in Nat, NEW b \in Nat \ {0}
  PROVE  CeilDiv(a, b) \in Nat /\ b * CeilDiv(a, b) >= a
  <1>1. /\ (a + b - 1) \div b \in Nat
        /\ a + b - 1 < b * ((a + b - 1) \div b) + b
    BY SMT
  <1> QED
    BY <1>1 DEF CeilDiv

-----------------------------------------------------------------------------
\* The capacity is at least one token.
LEMMA CapacityType ==
  ASSUME Instance
  PROVE  capacity \in Nat /\ capacity * Ticks \in Nat
         /\ (enabled => capacity * Ticks >= Ticks)
  <1>1. capacity \in Nat /\ (enabled => capacity >= 1)
    BY DEF Instance, capacity, enabled
  <1> QED
    BY <1>1 DEF Instance

\* The refill: the bucket is not over-full, has gained no more than the elapsed
\* time at the rate, and less only when it is full.
LEMMA Refill ==
  ASSUME Instance, TypeOK, NEW at \in 0..MaxNow
  PROVE  LET b == refilled(at) IN
         /\ b = [tokens |-> b.tokens, last |-> at]
         /\ b.tokens \in 0..capacity * Ticks
         /\ bucket.tokens = Nothing => b.tokens = capacity * Ticks
         /\ bucket.tokens # Nothing /\ bucket.last <= at =>
              /\ b.tokens <= bucket.tokens + requests_per_second * (at - bucket.last)
              /\ \/ b.tokens = capacity * Ticks
                 \/ b.tokens = bucket.tokens + requests_per_second * (at - bucket.last)
  <1> DEFINE old == IF bucket.tokens = Nothing
                    THEN [tokens |-> capacity * Ticks, last |-> at] ELSE bucket
             elapsed == max(at - old.last, 0)
             full == capacity * Ticks
             gained == old.tokens + elapsed * requests_per_second
             b == refilled(at)
  <1>1. full \in Nat
    BY CapacityType
  <1>2. old.tokens \in 0..full /\ old.last \in Nat
    BY <1>1 DEF TypeOK, Instance, Nothing
  <1>3. elapsed \in Nat /\ (old.last <= at => elapsed = at - old.last)
    <2>1. at - old.last \in Int
      BY <1>2 DEF Instance
    <2> DEFINE d == at - old.last
    <2>2. elapsed = max(d, 0) /\ d \in Int /\ 0 \in Int
      BY <2>1
    <2> HIDE DEF d
    <2>3. max(d, 0) \in {d, 0} /\ max(d, 0) >= d /\ max(d, 0) >= 0
      BY <2>2, Larger
    <2> QED
      BY <2>1, <2>2, <2>3, <1>2 DEF Instance, d
  <1>4. elapsed * requests_per_second \in Nat
    BY <1>3 DEF Instance
  <1>5. gained \in Nat
    BY <1>2, <1>4, <1>1
  <1>6. b = [tokens |-> min(gained, full), last |-> at]
    BY DEF refilled
  <1>7. /\ min(gained, full) \in {gained, full}
        /\ min(gained, full) <= gained /\ min(gained, full) <= full
    <2> HIDE DEF gained, full
    <2> QED
      BY <1>1, <1>5, Smaller
  <1>8. bucket.tokens = Nothing => min(gained, full) = full
    <2> SUFFICES ASSUME bucket.tokens = Nothing PROVE gained = full
      BY <1>1, <1>7
    <2>1. old.tokens = full /\ old.last = at
      OBVIOUS
    <2>2. elapsed = 0
      BY <1>3, <2>1 DEF Instance
    <2>3. elapsed * requests_per_second = 0
      BY <2>2 DEF Instance
    <2> QED
      BY <1>1, <2>1, <2>3
  <1>9. bucket.tokens # Nothing /\ bucket.last <= at =>
          gained = bucket.tokens + requests_per_second * (at - bucket.last)
    <2> SUFFICES ASSUME bucket.tokens # Nothing, bucket.last <= at
                 PROVE  gained = bucket.tokens + requests_per_second * (at - bucket.last)
      OBVIOUS
    <2>1. old = bucket
      OBVIOUS
    <2>2. elapsed = at - bucket.last
      BY <1>3, <2>1
    <2>3. (at - bucket.last) * requests_per_second = requests_per_second * (at - bucket.last)
      BY <1>2, <2>1 DEF Instance
    <2> HIDE DEF old, elapsed
    <2> QED
      BY <2>1, <2>2, <2>3
  <1> HIDE DEF old, elapsed, full, gained
  <1>10. b.tokens = min(gained, full) /\ b.last = at
    BY <1>6
  <1>11. b.tokens \in 0..full
    BY <1>1, <1>5, <1>7, <1>10
  <1> QED
    BY <1>6, <1>7, <1>8, <1>9, <1>10, <1>11 DEF full

\* What was admitted since an instant, with the tokens after the refill, is within
\* the allowance at the instant of the request.
LEMMA RefillCovers ==
  ASSUME Instance, TypeOK, Covered, NEW at \in 0..MaxNow, bucket.last <= at,
         NEW from \in 0..at
  PROVE  Ticks * Cardinality(Window(admitted, from, MaxNow)) + refilled(at).tokens
           <= capacity * Ticks + requests_per_second * (at - from)
  <1> DEFINE n == Cardinality(Window(admitted, from, MaxNow))
             b == refilled(at)
             full == capacity * Ticks
             rps == requests_per_second
  <1>1. full \in Nat
    BY CapacityType
  <1>2. b.tokens \in 0..full
    BY Refill
  <1>3. from \in Nat /\ at \in Nat /\ rps \in Nat /\ Ticks \in Nat /\ MaxNow \in Nat
    BY DEF Instance
  <1>4. rps * (at - from) \in Nat
    <2>1. at - from \in Nat
      BY <1>3
    <2> QED
      BY <1>3, <2>1
  <1>5. CASE bucket.tokens = Nothing \/ from > bucket.last
    <2>1. Window(admitted, from, MaxNow) = {}
      BY <1>3, <1>5 DEF Window, Covered, TypeOK
    <2>2. n = 0
      BY <2>1, FS_EmptySet
    <2>3. Ticks * n = 0
      BY <2>2, <1>3
    <2> HIDE DEF n, b, full
    <2>4. Ticks * n + b.tokens <= full + rps * (at - from)
      BY <1>1, <1>2, <1>4, <2>3
    <2> QED
      BY <2>4 DEF n, b, full
  <1>6. CASE bucket.tokens # Nothing /\ from <= bucket.last
    <2>1. bucket.tokens \in Nat /\ bucket.last \in Nat
      BY <1>1, <1>6 DEF TypeOK, Nothing
    <2>2. Ticks * n + bucket.tokens <= full + rps * (bucket.last - from)
      BY <1>3, <1>6, <2>1 DEF Covered
    <2>3. b.tokens <= bucket.tokens + rps * (at - bucket.last)
      BY <1>6, Refill
    <2>4. rps * (at - bucket.last) + rps * (bucket.last - from) = rps * (at - from)
      BY <1>3, <2>1
    <2>5. n \in Nat
      <3>1. admitted \in Seq(Nat)
        BY HistoryType
      <3> QED
        BY <1>3, <3>1, WindowAppend
    <2>6. Ticks * n \in Int
      BY <1>3, <2>5
    <2>7. rps * (at - bucket.last) \in Int /\ rps * (bucket.last - from) \in Int
      BY <1>3, <2>1
    <2> HIDE DEF n, b, full, rps
    <2>8. Ticks * n + b.tokens <= full + rps * (at - from)
      BY <1>1, <1>2, <2>1, <2>2, <2>3, <2>4, <2>6, <2>7
    <2> QED
      BY <2>8 DEF n, b, full, rps
  <1>7. bucket.tokens = Nothing \/ from > bucket.last
          \/ (bucket.tokens # Nothing /\ from <= bucket.last)
    BY <1>3 DEF TypeOK
  <1> QED
    BY <1>5, <1>6, <1>7

-----------------------------------------------------------------------------
\* A limiter that has seen no request (RateLimiter::new) satisfies the invariant.
LEMMA InitInv == ASSUME Instance, Init PROVE IInv
  <1>1. TypeOK
    <2>1. admitted \in Seq(0..MaxNow)
      BY DEF Init
    <2>2. bucket \in [tokens : {Nothing} \cup 0..capacity * Ticks, last : 0..MaxNow]
      BY DEF Init, Instance
    <2> QED
      BY <2>1, <2>2 DEF Instance, Init, TypeOK
  <1>2. Covered /\ Promised
    BY DEF Init, Covered, Promised
  <1>3. RateBound
    <2> SUFFICES ASSUME NEW from \in 0..MaxNow, NEW to \in 0..MaxNow, from <= to
                 PROVE  Ticks * Cardinality(Window(admitted, from, to))
                          <= capacity * Ticks + requests_per_second * (to - from)
      BY DEF RateBound, Window
    <2>1. Window(admitted, from, to) = {}
      BY DEF Init, Window
    <2>2. Cardinality(Window(admitted, from, to)) = 0
      BY <2>1, FS_EmptySet
    <2>3. requests_per_second * (to - from) \in Nat
      BY DEF Instance
    <2>4. Ticks * 0 = 0
      BY DEF Instance
    <2>5. capacity * Ticks \in Nat
      BY CapacityType
    <2> QED
      BY <2>2, <2>3, <2>4, <2>5
  <1> QED
    BY <1>1, <1>2, <1>3 DEF IInv, Init

\* check_at admits a request: the bucket pays for it.
LEMMA AdmitKeeps ==
  ASSUME Instance, TypeOK, RateBound, Covered, NEW at \in 0..MaxNow, bucket.last <= at,
         refilled(at).tokens >= Ticks,
         bucket' = [refilled(at) EXCEPT !.tokens = @ - Ticks],
         admitted' = Append(admitted, at)
  PROVE  RateBound' /\ Covered'
  <1> DEFINE full == capacity * Ticks
             rps == requests_per_second
             b == refilled(at)
  <1>1. /\ full \in Nat /\ rps \in Nat /\ Ticks \in Nat /\ MaxNow \in Nat /\ at \in Nat
        /\ at <= MaxNow
    BY CapacityType DEF Instance
  <1>2. admitted \in Seq(Nat)
    BY HistoryType
  <1>3. b = [tokens |-> b.tokens, last |-> at] /\ b.tokens \in 0..full
    BY Refill
  <1>4. bucket'.tokens = b.tokens - Ticks /\ bucket'.last = at
    BY <1>3
  <1> HIDE DEF full, rps, b
  <1>5. \A i \in DOMAIN admitted : admitted[i] \in Nat /\ admitted[i] <= at
    <2>1. \A i \in DOMAIN admitted : admitted[i] <= bucket.last
      BY Zenon DEF Covered
    <2>2. bucket.last \in Nat /\ \A i \in DOMAIN admitted : admitted[i] \in Nat
      BY <1>2, HistoryType
    <2> QED
      BY <1>1, <2>1, <2>2
  <1>6. \A from \in 0..at :
          Ticks * Cardinality(Window(admitted, from, MaxNow)) + b.tokens <= full + rps * (at - from)
    BY RefillCovers DEF full, rps, b
  <1>7. \A from, to \in 0..MaxNow :
          /\ Cardinality(Window(admitted, from, to)) \in Nat
          /\ Cardinality(Window(admitted', from, to)) =
               Cardinality(Window(admitted, from, to)) + (IF from <= at /\ at <= to THEN 1 ELSE 0)
    <2> TAKE from, to \in 0..MaxNow
    <2>1. from \in Nat /\ to \in Nat /\ at \in Nat
      BY <1>1
    <2>2. /\ Cardinality(Window(admitted, from, to)) \in Nat
          /\ Cardinality(Window(Append(admitted, at), from, to)) =
               Cardinality(Window(admitted, from, to)) + (IF from <= at /\ at <= to THEN 1 ELSE 0)
      BY <1>2, <2>1, WindowAppend
    <2> QED
      BY <2>2, Zenon
  <1>8. Covered'
    <2>1. \A i \in DOMAIN admitted' : admitted'[i] <= bucket'.last
      BY <1>1, <1>2, <1>4, <1>5
    <2>2. ASSUME NEW from \in 0..at
          PROVE  Ticks * Cardinality(Window(admitted', from, MaxNow)) + bucket'.tokens
                   <= full + rps * (at - from)
      <3> DEFINE n == Cardinality(Window(admitted, from, MaxNow))
      <3>1. from \in 0..MaxNow /\ from <= at
        BY <1>1
      <3>2. n \in Nat /\ Cardinality(Window(admitted', from, MaxNow)) = n + 1
        BY <1>1, <1>7, <3>1
      <3>3. Ticks * (n + 1) = Ticks * n + Ticks
        BY <1>1, <3>2
      <3>4. Ticks * n + b.tokens <= full + rps * (at - from)
        BY <1>6
      <3>5. Ticks * n \in Int /\ rps * (at - from) \in Int
        BY <1>1, <3>1, <3>2
      <3> HIDE DEF n
      <3> QED
        BY <1>1, <1>3, <1>4, <3>2, <3>3, <3>4, <3>5
    <2>3. bucket'.tokens # Nothing
      BY <1>1, <1>3, <1>4 DEF b, Nothing
    <2> QED
      BY <1>4, <2>1, <2>2, <2>3 DEF Covered, full, rps, capacity
  <1>9. RateBound'
    <2> SUFFICES ASSUME NEW from \in 0..MaxNow, NEW to \in 0..MaxNow, from <= to
                 PROVE  Ticks * Cardinality(Window(admitted', from, to))
                          <= full + rps * (to - from)
      BY DEF RateBound, Window, full, rps, capacity
    <2> DEFINE w == Cardinality(Window(admitted, from, to))
    <2>1. w \in Nat /\ from \in Nat /\ to \in Nat
      BY <1>1, <1>7
    <2>2. Ticks * w <= full + rps * (to - from)
      BY DEF RateBound, Window, full, rps
    <2>3. CASE from <= at /\ at <= to
      <3>1. Window(admitted, from, to) = Window(admitted, from, MaxNow)
        BY <1>1, <1>5, <2>1, <2>3 DEF Window
      <3>2. from \in 0..at
        BY <1>1, <2>1, <2>3
      <3>3. Ticks * w + b.tokens <= full + rps * (at - from)
        BY <1>6, <3>1, <3>2
      <3>4. Cardinality(Window(admitted', from, to)) = w + 1
        BY <1>7, <2>3
      <3>5. Ticks * (w + 1) = Ticks * w + Ticks
        BY <1>1, <2>1
      <3>6. rps * (at - from) + rps * (to - at) = rps * (to - from)
        BY <1>1, <2>1
      <3>7. rps * (to - at) \in Nat /\ rps * (at - from) \in Int /\ Ticks * w \in Int
        <4>1. to - at \in Nat /\ at - from \in Int
          BY <1>1, <2>1, <2>3
        <4>2. \A x \in Int : rps * x \in Int /\ (x >= 0 => rps * x >= 0)
          BY <1>1
        <4>3. Ticks * w \in Int
          BY <1>1, <2>1
        <4> QED
          BY <4>1, <4>2, <4>3
      <3>8. b.tokens >= Ticks /\ b.tokens \in Int
        BY <1>1, <1>3 DEF b
      <3>9. rps * (to - from) \in Int
        BY <3>6, <3>7
      <3>10. Ticks * (w + 1) <= full + rps * (to - from)
        <4> DEFINE x == Ticks * w
                   p == rps * (at - from)
                   q == rps * (to - at)
                   r == rps * (to - from)
                   y == Ticks * (w + 1)
                   k == b.tokens
        <4>1. /\ x \in Int /\ p \in Int /\ q \in Nat /\ r = p + q /\ y = x + Ticks
              /\ x + k <= full + p /\ k >= Ticks /\ k \in Int
          BY <3>3, <3>5, <3>6, <3>7, <3>8, Zenon
        <4> HIDE DEF x, p, q, r, y, k
        <4>2. full \in Int /\ Ticks \in Int
          BY <1>1
        <4>3. x + Ticks <= full + p
          BY <4>1, <4>2
        <4>4. y <= full + r
          BY <4>1, <4>2, <4>3
        <4> QED
          BY <4>4 DEF y, r
      <3> QED
        BY <3>4, <3>10
    <2>4. CASE ~(from <= at /\ at <= to)
      <3>1. Cardinality(Window(admitted', from, to)) = w
        BY <1>7, <2>1, <2>4
      <3> QED
        BY <2>2, <3>1
    <2> QED
      BY <2>3, <2>4
  <1> QED
    BY <1>8, <1>9

\* check_at refuses a request: the instant it names is late enough.
LEMMA RefuseKeeps ==
  ASSUME Instance, TypeOK, RateBound, Covered, enabled, NEW at \in 0..MaxNow,
         bucket.last <= at, refilled(at).tokens < Ticks,
         bucket' = refilled(at), admitted' = admitted,
         promise' = at + retry_after(refilled(at).tokens) * Ticks
  PROVE  RateBound' /\ Covered' /\ Promised' /\ promise' \in Nat
  <1> DEFINE full == capacity * Ticks
             rps == requests_per_second
             b == refilled(at)
             wait == CeilDiv(Ticks - b.tokens, rps * Ticks)
             ra == retry_after(b.tokens)
  <1>1. full \in Nat /\ rps \in Nat \ {0} /\ Ticks \in Nat \ {0} /\ MaxNow \in Nat /\ at \in Nat
    BY CapacityType DEF Instance, enabled
  <1>2. b = [tokens |-> b.tokens, last |-> at] /\ b.tokens \in 0..full
    BY Refill
  <1>3. bucket'.tokens = b.tokens /\ bucket'.last = at /\ b.tokens \in Nat /\ b.tokens < Ticks
    BY <1>1, <1>2
  <1>4. RateBound'
    BY DEF RateBound, capacity
  <1>5. Covered'
    <2>1. \A i \in DOMAIN admitted : admitted[i] <= at
      <3>1. \A i \in DOMAIN admitted : admitted[i] <= bucket.last
        BY Zenon DEF Covered
      <3>2. bucket.last \in Nat /\ \A i \in DOMAIN admitted : admitted[i] \in Nat
        BY HistoryType
      <3> QED
        BY <1>1, <3>1, <3>2
    <2>2. \A from \in 0..at :
            Ticks * Cardinality(Window(admitted, from, MaxNow)) + b.tokens <= full + rps * (at - from)
      BY RefillCovers
    <2>3. bucket'.tokens # Nothing
      BY <1>3 DEF Nothing
    <2> HIDE DEF b
    <2> QED
      BY <1>3, <2>1, <2>2, <2>3 DEF Covered, Window, capacity
  <1>6. ra \in Nat /\ ra >= wait /\ wait \in Nat /\ rps * Ticks * wait >= Ticks - b.tokens
    <2>1. Ticks - b.tokens \in Nat
      BY <1>1, <1>3
    <2>2. rps * Ticks \in Nat \ {0}
      BY <1>1
    <2> HIDE DEF b
    <2>3. wait \in Nat /\ (rps * Ticks) * wait >= Ticks - b.tokens
      BY <2>1, <2>2, CeilDivCovers
    <2>4. ra = max(1, wait) /\ 1 \in Int /\ wait \in Int
      BY <2>3 DEF retry_after
    <2> HIDE DEF wait, ra
    <2>5. max(1, wait) \in {1, wait} /\ max(1, wait) >= wait
      BY <2>4, Larger
    <2> QED
      BY <2>3, <2>4, <2>5
  <1> HIDE DEF b, wait, ra
  <1>7. promise' = at + ra * Ticks
    BY DEF ra, b
  <1>8. ra * Ticks \in Nat
    BY <1>1, <1>6
  <1>9. promise' \in Nat /\ promise' - at = ra * Ticks /\ at <= promise'
    BY <1>1, <1>7, <1>8
  <1>10. rps * (ra * Ticks) >= Ticks - b.tokens
    <2>1. rps * (ra * Ticks) = (rps * Ticks) * ra
      BY <1>1, <1>6
    <2>2. rps * Ticks \in Nat
      BY <1>1
    <2>3. ASSUME NEW u \in Nat, NEW x \in Nat, NEW y \in Nat, y >= x PROVE u * y >= u * x
      <3>1. y - x \in Nat /\ u * y = u * x + u * (y - x) /\ u * (y - x) >= 0
        BY <2>3
      <3>2. u * y \in Int /\ u * x \in Int /\ u * (y - x) \in Int
        BY <3>1
      <3> QED
        BY <3>1, <3>2
    <2> DEFINE u == rps * Ticks
    <2>4. u \in Nat /\ u * wait >= Ticks - b.tokens /\ rps * (ra * Ticks) = u * ra
      BY <1>6, <2>1, <2>2
    <2> HIDE DEF u
    <2>5. u * ra >= u * wait
      BY <1>6, <2>3, <2>4
    <2>6. u * ra \in Int /\ u * wait \in Int
      BY <1>6, <2>4
    <2> QED
      BY <1>1, <1>3, <2>4, <2>5, <2>6
  <1>11. Promised'
    <2>1. b.tokens + rps * (promise' - at) >= Ticks
      <3> DEFINE g == rps * (ra * Ticks)
      <3>1. g \in Int
        BY <1>1, <1>8
      <3>2. g >= Ticks - b.tokens /\ rps * (promise' - at) = g
        BY <1>9, <1>10
      <3> HIDE DEF g
      <3> QED
        BY <1>1, <1>3, <3>1, <3>2
    <2> QED
      BY <1>3, <1>9, <2>1 DEF Promised, Nothing
  <1> QED
    BY <1>4, <1>5, <1>9, <1>11

-----------------------------------------------------------------------------
\* Every step of every thread, and the clock, keeps the invariant.
LEMMA NextInv == ASSUME Instance, IInv, [Next]_vars PROVE IInv'
  <1> USE DEF IInv
  <1>1. CASE UNCHANGED vars
    BY <1>1 DEF vars, TypeOK, RateBound, Covered, Promised, Window, enabled, capacity
  <1>2. ASSUME NEW t \in Threads, check(t) PROVE IInv'
    <2>1. TypeOK'
      BY <1>2 DEF check, TypeOK, capacity
    <2> QED
      BY <1>2, <2>1 DEF check, RateBound, Covered, Promised, Window, enabled, capacity
  <1>3. CASE Tick
    <2>1. TypeOK'
      BY <1>3 DEF Tick, TypeOK, Instance, capacity
    <2> QED
      BY <1>3, <2>1 DEF Tick, RateBound, Covered, Promised, Window, enabled, capacity
  <1>4. ASSUME NEW t \in Threads, check_at(t) PROVE IInv'
    <2> DEFINE at == read[t]
               b == refilled(at)
    <2>1. at \in 0..MaxNow /\ read' \in [Threads -> {Nothing} \cup 0..MaxNow]
      BY <1>4 DEF check_at, TypeOK
    <2>2. CASE ~enabled
      <3>1. UNCHANGED <<now, bucket, admitted, promise, regressed>>
        BY <1>4, <2>2 DEF check_at
      <3>2. TypeOK'
        BY <2>1, <3>1 DEF TypeOK, capacity
      <3> QED
        BY <2>2, <3>1, <3>2 DEF enabled
    <2>3. CASE enabled /\ b.tokens >= Ticks
      <3>1. /\ bucket' = [b EXCEPT !.tokens = @ - Ticks] /\ admitted' = Append(admitted, at)
            /\ promise' = Nothing /\ regressed' = (regressed \/ bucket.last > at) /\ now' = now
        BY <1>4, <2>3 DEF check_at
      <3>2. b = [tokens |-> b.tokens, last |-> at] /\ b.tokens \in 0..capacity * Ticks
        BY <2>1, Refill
      <3>3. bucket' = [tokens |-> b.tokens - Ticks, last |-> at]
        BY <3>1, <3>2
      <3>4. b.tokens - Ticks \in 0..capacity * Ticks
        BY <2>3, <3>2, CapacityType DEF Instance
      <3>5. TypeOK'
        <4>1. admitted' \in Seq(0..MaxNow)
          BY <2>1, <3>1 DEF TypeOK
        <4>2. regressed' \in BOOLEAN
          BY <3>1 DEF TypeOK
        <4>3. bucket' \in [tokens : {Nothing} \cup 0..capacity * Ticks, last : 0..MaxNow]
          BY <2>1, <3>3, <3>4
        <4> QED
          BY <2>1, <3>1, <4>1, <4>2, <4>3 DEF TypeOK, capacity
      <3>6. ~regressed' => RateBound' /\ Covered'
        <4> SUFFICES ASSUME ~regressed' PROVE RateBound' /\ Covered'
          OBVIOUS
        <4>0. ~regressed /\ ~(bucket.last > at)
          BY <3>1, Zenon
        <4>1. ~regressed /\ bucket.last <= at
          BY <2>1, <4>0 DEF TypeOK, Instance
        <4> QED
          BY <2>1, <2>3, <3>1, <4>1, AdmitKeeps
      <3>7. Promised'
        BY <3>1 DEF Promised
      <3> QED
        BY <2>3, <3>5, <3>6, <3>7 DEF enabled
    <2>4. CASE enabled /\ ~(b.tokens >= Ticks)
      <3>1. /\ bucket' = b /\ admitted' = admitted
            /\ promise' = at + retry_after(b.tokens) * Ticks
            /\ regressed' = (regressed \/ bucket.last > at) /\ now' = now
        BY <1>4, <2>4 DEF check_at
      <3>2. b = [tokens |-> b.tokens, last |-> at] /\ b.tokens \in 0..capacity * Ticks
        BY <2>1, Refill
      <3>3. b.tokens < Ticks
        BY <2>4, <3>2, CapacityType DEF Instance
      <3>4. promise' \in Nat
        <4>1. b.tokens \in Nat /\ Ticks - b.tokens \in Nat
          BY <3>2, <3>3, CapacityType DEF Instance
        <4>2. requests_per_second * Ticks \in Nat \ {0}
          BY <2>4 DEF Instance, enabled
        <4> DEFINE wait == CeilDiv(Ticks - b.tokens, requests_per_second * Ticks)
        <4> HIDE DEF b
        <4>3. wait \in Nat
          BY <4>1, <4>2, CeilDivCovers
        <4>4. retry_after(b.tokens) = max(1, wait) /\ 1 \in Int /\ wait \in Int
          BY <4>3 DEF retry_after
        <4> HIDE DEF wait
        <4>5. max(1, wait) \in {1, wait}
          BY <4>4, Larger
        <4>6. retry_after(b.tokens) \in Nat
          BY <4>3, <4>4, <4>5
        <4> DEFINE k == retry_after(b.tokens)
        <4> HIDE DEF k
        <4>7. k * Ticks \in Nat
          BY <4>6 DEF Instance, k
        <4>8. promise' = at + k * Ticks
          BY <3>1 DEF k
        <4> QED
          BY <2>1, <4>7, <4>8 DEF Instance
      <3>5. TypeOK'
        <4>1. bucket' \in [tokens : {Nothing} \cup 0..capacity * Ticks, last : 0..MaxNow]
          BY <2>1, <3>1, <3>2
        <4>2. regressed' \in BOOLEAN
          BY <3>1 DEF TypeOK
        <4> QED
          BY <2>1, <3>1, <3>4, <4>1, <4>2 DEF TypeOK, capacity
      <3>6. ~regressed' => RateBound' /\ Covered' /\ Promised'
        <4> SUFFICES ASSUME ~regressed' PROVE RateBound' /\ Covered' /\ Promised'
          OBVIOUS
        <4>0. ~regressed /\ ~(bucket.last > at)
          BY <3>1, Zenon
        <4>1. ~regressed /\ bucket.last <= at
          BY <2>1, <4>0 DEF TypeOK, Instance
        <4> QED
          BY <2>1, <2>4, <3>1, <3>3, <4>1, RefuseKeeps
      <3> QED
        BY <2>4, <3>5, <3>6 DEF enabled
    <2> QED
      BY <2>2, <2>3, <2>4
  <1> QED
    BY <1>1, <1>2, <1>3, <1>4 DEF Next

\* No window of time holds more admitted requests of a key than the burst and what
\* the rate refills in it, however its threads interleave, as long as their instants
\* reach the bucket in order (check_at).
THEOREM RateLimited == ASSUME Instance PROVE Spec => []RateHolds
  <1>1. Init => IInv
    BY InitInv
  <1>2. IInv /\ [Next]_vars => IInv'
    BY NextInv
  <1>3. IInv => RateHolds
    BY DEF IInv, RateHolds
  <1> QED
    BY <1>1, <1>2, <1>3, PTL DEF Spec

\* A request that reads the clock at or after the instant its key was last told to
\* come back at is admitted (the rounding of check_at's retry_after).
THEOREM RetriesAdmitted == ASSUME Instance PROVE Spec => RetryIsHonest
  <1>1. Init => IInv
    BY InitInv
  <1>2. IInv /\ [Next]_vars => IInv'
    BY NextInv
  <1>3. IInv /\ [Next]_vars => [AdmitsTheRetry]_vars
    <2> SUFFICES ASSUME IInv, NEW t \in Threads, promise # Nothing, read[t] >= promise,
                        ~regressed, check_at(t)
                 PROVE  promise' = Nothing
      BY DEF AdmitsTheRetry
    <2> DEFINE at == read[t]
               b == refilled(at)
               rps == requests_per_second
    <2>1. CASE enabled
      <3>1. at \in 0..MaxNow /\ at \in Nat /\ promise \in Nat
        BY DEF check_at, IInv, TypeOK, Instance
      <3>2. /\ bucket.tokens # Nothing /\ bucket.last <= promise
            /\ bucket.tokens + rps * (promise - bucket.last) >= Ticks
        BY <2>1 DEF IInv, Promised
      <3>3. bucket.tokens \in Nat /\ bucket.last \in Nat
        BY <3>2, CapacityType DEF IInv, TypeOK, Nothing, Instance
      <3>4. bucket.last <= at
        BY <3>1, <3>2, <3>3
      <3>5. b.tokens = capacity * Ticks \/ b.tokens = bucket.tokens + rps * (at - bucket.last)
        BY <3>1, <3>2, <3>4, Refill DEF IInv
      <3>6. rps * (at - bucket.last) >= rps * (promise - bucket.last)
        <4>1. rps * (at - bucket.last) = rps * (promise - bucket.last) + rps * (at - promise)
          BY <3>1, <3>3 DEF Instance
        <4>2. rps * (at - promise) \in Nat /\ rps * (promise - bucket.last) \in Int
          <5>1. at - promise \in Nat /\ promise - bucket.last \in Int /\ rps \in Nat
            BY <3>1, <3>3 DEF Instance
          <5> QED
            BY <5>1
        <4> DEFINE x == rps * (at - bucket.last)
                   y == rps * (promise - bucket.last)
                   z == rps * (at - promise)
        <4>3. x = y + z /\ z \in Nat /\ y \in Int
          BY <4>1, <4>2
        <4> HIDE DEF x, y, z
        <4>4. x >= y
          BY <4>3
        <4> QED
          BY <4>4 DEF x, y
      <3>7. b.tokens >= Ticks
        <4>1. capacity * Ticks >= Ticks /\ Ticks \in Nat
          BY <2>1, CapacityType DEF Instance
        <4>2. bucket.tokens + rps * (at - bucket.last) >= Ticks
          <5> DEFINE x == rps * (at - bucket.last)
                     y == rps * (promise - bucket.last)
          <5>1. x >= y /\ bucket.tokens + y >= Ticks
            BY <3>2, <3>6
          <5>2. x \in Int /\ y \in Int
            BY <3>1, <3>3 DEF Instance
          <5> HIDE DEF x, y
          <5>3. bucket.tokens + x >= Ticks
            BY <3>3, <4>1, <5>1, <5>2
          <5> QED
            BY <5>3 DEF x
        <4> HIDE DEF b
        <4> QED
          BY <3>5, <4>1, <4>2
      <3> QED
        BY <2>1, <3>7 DEF check_at
    <2>2. CASE ~enabled
      BY <2>2 DEF IInv
    <2> QED
      BY <2>1, <2>2
  <1> QED
    BY <1>1, <1>2, <1>3, PTL DEF Spec, RetryIsHonest

-----------------------------------------------------------------------------
(* The gateway, with its own constants and state.                          *)

CONSTANTS Colls, Keys, KeyRole, KeyScope, Deployments, Providers, MaxRequests
VARIABLES mode, leader, engine, shards, req, served

G == INSTANCE Gateway

\* A key is not the empty one, and no collection has the name that stands for none.
GatewayInstance == "" \notin Keys /\ G!Anything \notin Colls

Fields == {"op", "key", "coll", "over", "phase", "effect", "reply", "record", "seen"}

Phases == {"idle", "admitted", "embedding", "running", "ran", "orphan", "done"}

GatewayInv ==
  /\ DOMAIN req = Fields
  /\ req.phase \in Phases
  /\ req.phase # "idle" => req.op \in DOMAIN G!handlers /\ req.key \in Keys /\ req.coll \in Colls
  /\ req.phase \in {"idle", "admitted", "embedding", "running", "orphan"} =>
       req.effect = "" /\ req.seen = {}
  /\ req.phase \in {"running", "orphan"} =>
       G!authorized /\ G!ensure_writable /\ G!handlers[req.op].embeds = ""
  /\ req.phase # "done" => req.reply # "forbidden"
  /\ req.phase = "orphan" => req.reply = "gone"
  /\ req.phase = "embedding" => G!handlers[req.op].embeds # ""
  /\ req.effect # "" => G!Has(req.op, "writes") /\ G!handlers[req.op].embeds = ""
  /\ G!Confined
  /\ G!Accounted

-----------------------------------------------------------------------------
\* The table of handlers: what writes is recorded, unless it goes on as another
\* operation; creating and dropping a collection are writes; what a text operation
\* becomes is an operation.
LEMMA Table ==
  /\ \A op \in DOMAIN G!handlers :
       G!Has(op, "writes") /\ G!handlers[op].embeds = "" => G!Has(op, "audited")
  /\ \A op \in DOMAIN G!handlers :
       G!handlers[op].embeds # "" => G!handlers[op].embeds \in DOMAIN G!handlers
  /\ G!Has("create_collection", "writes") /\ G!Has("delete_collection", "writes")
  <1> DEFINE Recorded(h) == "writes" \in h.flags /\ h.embeds = "" => "audited" \in h.flags
             Becomes(h) == h.embeds \in {"", "hybrid_search", "upsert"}
             All == {G!create_collection, G!get_collection, G!list_collections,
                     G!delete_collection, G!upsert, G!upsert_bulk, G!snapshot, G!delete_points,
                     G!get_points, G!search, G!hybrid_search, G!search_text, G!upsert_text, G!fetch,
                     G!upsert_documents, G!delete_documents, G!search_multi_vector,
                     G!open_replication, G!raft_add_voter, G!raft_remove_voter, G!cluster_map}
  <1>1. \A h \in All : Recorded(h) /\ Becomes(h)
    <2> DEFINE Good(h) == Recorded(h) /\ Becomes(h)
    <2>1. Good(G!create_collection) /\ Good(G!get_collection) /\ Good(G!list_collections) /\ Good(G!delete_collection)
      BY DEF G!Handler, G!create_collection, G!get_collection, G!list_collections, G!delete_collection
    <2>2. Good(G!upsert) /\ Good(G!upsert_bulk) /\ Good(G!snapshot) /\ Good(G!delete_points)
      BY DEF G!Handler, G!upsert, G!upsert_bulk, G!snapshot, G!delete_points
    <2>3. Good(G!get_points) /\ Good(G!search) /\ Good(G!hybrid_search) /\ Good(G!search_text)
      BY DEF G!Handler, G!get_points, G!search, G!hybrid_search, G!search_text
    <2>4. Good(G!upsert_text) /\ Good(G!fetch) /\ Good(G!upsert_documents) /\ Good(G!delete_documents)
      BY DEF G!Handler, G!upsert_text, G!fetch, G!upsert_documents, G!delete_documents
    <2>5. Good(G!search_multi_vector) /\ Good(G!open_replication) /\ Good(G!raft_add_voter) /\ Good(G!raft_remove_voter)
      BY DEF G!Handler, G!search_multi_vector, G!open_replication, G!raft_add_voter, G!raft_remove_voter
    <2>6. Good(G!cluster_map)
      BY DEF G!Handler, G!cluster_map
    <2> HIDE DEF Good
    <2>7. \A h \in All : Good(h)
      BY <2>1, <2>2, <2>3, <2>4, <2>5, <2>6
    <2> QED
      BY <2>7 DEF Good
  <1>2. DOMAIN G!handlers = {"create_collection", "get_collection", "list_collections",
                           "delete_collection", "upsert", "upsert_bulk", "snapshot",
                           "delete_points", "get_points", "search", "hybrid_search",
                           "search_text", "upsert_text", "fetch", "upsert_documents",
                           "delete_documents", "search_multi_vector", "replicate",
                           "raft_add_voter", "raft_remove_voter", "cluster_map"}
    BY DEF G!handlers
  <1>3. \A op \in DOMAIN G!handlers : G!handlers[op] \in All
    BY <1>2 DEF G!handlers
  <1>4. G!handlers["create_collection"] = G!create_collection /\ G!handlers["delete_collection"] = G!delete_collection
    BY DEF G!handlers
  <1>5. "writes" \in G!create_collection.flags /\ "writes" \in G!delete_collection.flags
    BY DEF G!create_collection, G!delete_collection, G!Handler
  <1>6. "upsert" \in DOMAIN G!handlers /\ "hybrid_search" \in DOMAIN G!handlers
    BY <1>2
  <1> HIDE DEF All
  <1> QED
    BY <1>1, <1>3, <1>4, <1>5, <1>6 DEF G!Has

\* Between two requests nothing is owed.
LEMMA IdleInv == ASSUME GatewayInstance, req = G!NoRequest PROVE GatewayInv
  BY DEF GatewayInv, G!NoRequest, Fields, Phases, G!Confined, G!Accounted

\* A handler that answers without calling anything.
LEMMA ReplyKeeps ==
  ASSUME GatewayInstance, GatewayInv, NEW r, r # "forbidden", G!Reply(r), req.phase \in {"admitted", "embedding"}
  PROVE  GatewayInv'
  <1>1. /\ DOMAIN req' = Fields /\ req'.phase = "done" /\ req'.reply = r /\ req'.op = req.op
        /\ req'.key = req.key /\ req'.coll = req.coll
        /\ req'.effect = req.effect /\ req'.seen = req.seen /\ req'.record = req.record
    BY DEF GatewayInv, G!Reply, Fields
  <1>2. req.effect = "" /\ req.seen = {}
    BY DEF GatewayInv
  <1> QED
    BY <1>1, <1>2 DEF GatewayInv, Phases, G!Confined, G!Accounted

\* The call, and what it leaves for the handler that waits or went away.
LEMMA CallKeeps == ASSUME GatewayInstance, GatewayInv, G!Call PROVE GatewayInv' /\ G!FollowerKeeps
  <1>1. PICK effect, ok \in BOOLEAN : G!Called(effect, ok)
    BY DEF G!Call
  <1>2. req.phase \in {"running", "orphan"} /\ mode' = mode
    BY DEF G!Call
  <1>3. /\ req.op \in DOMAIN G!handlers /\ req.key \in Keys /\ req.coll \in Colls
        /\ G!authorized /\ G!ensure_writable /\ G!handlers[req.op].embeds = ""
    BY <1>2 DEF GatewayInv
  <1>4. /\ KeyRole[req.key] >= G!handlers[req.op].role
        /\ G!Has(req.op, "global") \/ req.coll \in KeyScope[req.key]
    BY <1>3 DEF G!authorized, G!require, G!scope_matches, GatewayInstance
  <1>5. /\ DOMAIN req' = Fields
        /\ req'.op = req.op /\ req'.key = req.key /\ req'.coll = req.coll
        /\ req'.phase = (IF req.phase = "orphan" THEN "done" ELSE "ran")
        /\ req'.reply = (IF req.phase = "orphan" THEN req.reply ELSE IF ok THEN "ok" ELSE "failed")
    BY <1>1 DEF G!Called, GatewayInv, Fields
  <1>6. req'.effect # "" => G!Has(req.op, "writes")
    BY <1>1 DEF G!Called, GatewayInv, Fields
  <1>7. req'.seen \subseteq KeyScope[req.key]
    <2>1. req'.seen = IF ~ok THEN {}
                      ELSE IF req.op = "list_collections"
                      THEN {c \in G!Held : G!can_see(req.key, c)}
                      ELSE IF G!Has(req.op, "global") THEN {} ELSE {req.coll}
      BY <1>1 DEF G!Called, GatewayInv, Fields
    <2> QED
      BY <1>4, <2>1 DEF G!can_see, G!scope_matches
  <1>8. G!Confined'
    BY <1>3, <1>4, <1>5, <1>7 DEF G!Confined, GatewayInstance, G!Has
  <1>9. req.phase = "orphan" => req.reply = "gone"
    BY DEF GatewayInv
  <1>10. G!Accounted'
    BY <1>5, <1>9 DEF G!Accounted
  <1>11. G!FollowerKeeps
    <2> SUFFICES ASSUME mode = "follower" PROVE engine' = engine
      BY DEF G!FollowerKeeps
    <2>1. ~G!Has(req.op, "writes")
      BY <1>3 DEF G!ensure_writable
    <2>2. req.op # "create_collection" /\ req.op # "delete_collection"
      BY <2>1, Table
    <2>3. G!Target = "local" /\ G!Held = engine
      BY DEF G!Target, G!Held
    <2> QED
      BY <1>1, <2>2, <2>3 DEF G!Called, G!Result
  <1>12. GatewayInv'
    BY <1>2, <1>3, <1>5, <1>6, <1>8, <1>10 DEF GatewayInv, Phases, G!Has
  <1> QED
    BY <1>11, <1>12

-----------------------------------------------------------------------------
\* A request begins with what it asked for, admitted or answered already.
LEMMA ArriveKeeps == ASSUME GatewayInstance, GatewayInv, G!Arrive PROVE GatewayInv'
  <1>1. PICK op \in DOMAIN G!handlers, coll \in Colls, over \in BOOLEAN :
          G!auth(op, coll, over) \/ G!authenticate(op, coll, over)
    BY DEF G!Arrive
  <1>2. PICK key \in Keys, header \in {"none", "bearer", "bare"}, limited \in BOOLEAN,
             shown \in BOOLEAN :
          req' = [G!NoRequest EXCEPT
                    !.op = op, !.key = key, !.coll = coll, !.over = over,
                    !.phase = IF shown /\ ~limited THEN "admitted" ELSE "done",
                    !.reply = IF ~shown THEN "unauthorized" ELSE IF limited THEN "limited" ELSE ""]
    <2>1. CASE G!auth(op, coll, over)
      BY <2>1 DEF G!auth, G!rest_presented
    <2>2. CASE G!authenticate(op, coll, over)
      BY <2>2 DEF G!authenticate, G!grpc_presented
    <2> QED
      BY <1>1, <2>1, <2>2
  <1> DEFINE phase == IF shown /\ ~limited THEN "admitted" ELSE "done"
             reply == IF ~shown THEN "unauthorized" ELSE IF limited THEN "limited" ELSE ""
  <1>3. phase \in {"admitted", "done"} /\ reply \in {"unauthorized", "limited", ""}
    OBVIOUS
  <1>4. req' = [G!NoRequest EXCEPT !.op = op, !.key = key, !.coll = coll, !.over = over,
                                 !.phase = phase, !.reply = reply]
    BY <1>2
  <1> HIDE DEF phase, reply
  <1>5. /\ DOMAIN req' = Fields /\ req'.op = op /\ req'.key = key /\ req'.coll = coll
        /\ req'.phase = phase /\ req'.reply = reply /\ req'.effect = "" /\ req'.seen = {}
        /\ req'.record = ""
    BY <1>4 DEF G!NoRequest, Fields
  <1> QED
    BY <1>3, <1>5 DEF GatewayInv, Phases, G!Confined, G!Accounted

\* The handler up to its first await: it goes on only authorized and able to write.
LEMMA HandleKeeps == ASSUME GatewayInstance, GatewayInv, G!Handle PROVE GatewayInv'
  <1>0. req.phase = "admitted" /\ mode' = mode /\ req.effect = "" /\ req.seen = {}
    BY DEF G!Handle, GatewayInv
  <1>1. ASSUME NEW r \in {"read_only", "unsupported", "bad_request", "not_leader"}, G!Reply(r)
        PROVE  GatewayInv'
    BY <1>0, <1>1, ReplyKeeps
  <1>2. ASSUME ~G!authorized,
               req' = [req EXCEPT !.phase = "done", !.reply = "forbidden",
                                  !.record = IF req.op = "cluster_map" THEN @ ELSE "denied"]
        PROVE  GatewayInv'
    <2>1. /\ DOMAIN req' = Fields /\ req'.op = req.op /\ req'.key = req.key
          /\ req'.coll = req.coll /\ req'.phase = "done" /\ req'.reply = "forbidden"
          /\ req'.effect = "" /\ req'.seen = {}
          /\ req.op # "cluster_map" => req'.record = "denied"
      BY <1>0, <1>2 DEF GatewayInv, Fields
    <2> QED
      BY <1>0, <2>1 DEF GatewayInv, Phases, G!Confined, G!Accounted
  <1>3. ASSUME G!authorized, G!ensure_writable,
               req' = [req EXCEPT !.phase = IF G!handlers[req.op].embeds # "" THEN "embedding"
                                                                          ELSE "running"]
        PROVE  GatewayInv'
    <2>1. /\ DOMAIN req' = Fields /\ req'.op = req.op /\ req'.key = req.key
          /\ req'.coll = req.coll /\ req'.reply = req.reply
          /\ req'.effect = "" /\ req'.seen = {}
          /\ req'.phase = IF G!handlers[req.op].embeds # "" THEN "embedding" ELSE "running"
      BY <1>0, <1>3 DEF GatewayInv, Fields
    <2>2. G!authorized' /\ G!ensure_writable'
      BY <1>0, <1>3, <2>1 DEF G!authorized, G!ensure_writable, G!require, G!scope_matches, G!Has
    <2> QED
      BY <1>0, <2>1, <2>2 DEF GatewayInv, Phases, G!Confined, G!Accounted
  <1> QED
    BY <1>1, <1>2, <1>3 DEF G!Handle

\* The provider answers, or the client is told it failed.
LEMMA EmbedKeeps == ASSUME GatewayInstance, GatewayInv, G!Embed PROVE GatewayInv'
  <1>1. CASE G!Reply("upstream")
    BY <1>1, ReplyKeeps DEF G!Embed
  <1>2. ASSUME NEW over \in BOOLEAN,
               req' = [req EXCEPT !.op = G!handlers[@].embeds, !.over = over, !.phase = "admitted"]
        PROVE  GatewayInv'
    <2>1. req.phase = "embedding" /\ req.effect = "" /\ req.seen = {}
      BY DEF G!Embed, GatewayInv
    <2>2. /\ DOMAIN req' = Fields /\ req'.op = G!handlers[req.op].embeds /\ req'.key = req.key
          /\ req'.coll = req.coll /\ req'.reply = req.reply /\ req'.phase = "admitted"
          /\ req'.effect = "" /\ req'.seen = {}
      BY <1>2, <2>1 DEF GatewayInv, Fields
    <2>3. req'.op \in DOMAIN G!handlers
      BY <2>1, <2>2, Table DEF GatewayInv
    <2> QED
      BY <2>1, <2>2, <2>3 DEF GatewayInv, Phases, G!Confined, G!Accounted
  <1> QED
    BY <1>1, <1>2 DEF G!Embed

\* The handler resumes and records, or its client has gone.
LEMMA EndKeeps == ASSUME GatewayInstance, GatewayInv, G!Finish \/ G!Disconnect PROVE GatewayInv'
  <1>1. CASE G!Finish
    <2>1. /\ DOMAIN req' = Fields /\ req'.op = req.op /\ req'.key = req.key /\ req'.coll = req.coll
          /\ req'.phase = "done" /\ req'.reply = req.reply /\ req'.effect = req.effect
          /\ req'.seen = req.seen /\ req.phase = "ran" /\ req.reply # "forbidden"
          /\ G!Has(req.op, "audited") => req'.record # ""
      BY <1>1 DEF G!Finish, GatewayInv, Fields
    <2>2. req.effect # "" => G!Has(req.op, "audited")
      BY <2>1, Table DEF GatewayInv
    <2> QED
      BY <2>1, <2>2 DEF GatewayInv, Phases, G!Confined, G!Accounted, G!Has
  <1>2. CASE G!Disconnect
    <2>1. /\ DOMAIN req' = Fields /\ req'.op = req.op /\ req'.key = req.key /\ req'.coll = req.coll
          /\ req'.phase = (IF req.phase = "running" THEN "orphan" ELSE "done")
          /\ req'.reply = "gone" /\ req'.effect = req.effect /\ req'.seen = req.seen
          /\ req.phase \in {"embedding", "running", "ran"} /\ mode' = mode
      BY <1>2 DEF G!Disconnect, GatewayInv, Fields
    <2>2. req.phase = "running" => G!authorized' /\ G!ensure_writable'
      BY <2>1 DEF GatewayInv, G!authorized, G!ensure_writable, G!require, G!scope_matches, G!Has
    <2> QED
      BY <2>1, <2>2 DEF GatewayInv, Phases, G!Confined, G!Accounted, G!Has
  <1> QED
    BY <1>1, <1>2

\* Every step keeps the invariant and leaves a follower's collections alone.
LEMMA GatewayStep == ASSUME GatewayInstance, GatewayInv, [G!Next]_(G!vars) PROVE GatewayInv' /\ G!FollowerKeeps
  <1>1. CASE G!Call
    BY <1>1, CallKeeps
  <1>2. CASE G!Arrive \/ G!Handle \/ G!Embed \/ G!Finish \/ G!Disconnect
    BY <1>2, ArriveKeeps, HandleKeeps, EmbedKeeps, EndKeeps
       DEF G!Arrive, G!Handle, G!Embed, G!Finish, G!Disconnect, G!FollowerKeeps
  <1>3. CASE G!Close
    <2>1. req' = G!NoRequest /\ engine' = engine
      BY <1>3 DEF G!Close
    <2> QED
      BY <2>1 DEF GatewayInv, G!NoRequest, Fields, Phases, G!Confined, G!Accounted, G!FollowerKeeps, GatewayInstance
  <1>4. CASE G!ChangeLeader \/ UNCHANGED G!vars
    <2>1. req' = req /\ mode' = mode /\ engine' = engine
      BY <1>4 DEF G!ChangeLeader, G!vars
    <2> QED
      BY <2>1 DEF GatewayInv, G!Confined, G!Accounted, G!FollowerKeeps, G!authorized, G!ensure_writable, G!require,
         G!scope_matches, G!Has
  <1> QED
    BY <1>1, <1>2, <1>3, <1>4 DEF G!Next

\* What a key changes and is shown stays within its role and its scope (auth.rs).
THEOREM KeysStayConfined == ASSUME GatewayInstance PROVE G!Spec => []G!Confined
  <1>1. G!Init => GatewayInv
    BY IdleInv DEF G!Init
  <1>2. GatewayInv /\ [G!Next]_(G!vars) => GatewayInv'
    BY GatewayStep
  <1>3. GatewayInv => G!Confined
    BY DEF GatewayInv
  <1> QED
    BY <1>1, <1>2, <1>3, PTL DEF G!Spec

\* The effect or the denial of a request whose client stayed is in the audit log.
THEOREM EffectsAccounted == ASSUME GatewayInstance PROVE G!Spec => []G!Accounted
  <1>1. G!Init => GatewayInv
    BY IdleInv DEF G!Init
  <1>2. GatewayInv /\ [G!Next]_(G!vars) => GatewayInv'
    BY GatewayStep
  <1>3. GatewayInv => G!Accounted
    BY DEF GatewayInv
  <1> QED
    BY <1>1, <1>2, <1>3, PTL DEF G!Spec

\* No client request changes what a replication follower holds (ensure_writable).
THEOREM FollowersUntouched == ASSUME GatewayInstance PROVE G!Spec => G!FollowerUntouched
  <1>1. G!Init => GatewayInv
    BY IdleInv DEF G!Init
  <1>2. GatewayInv /\ [G!Next]_(G!vars) => GatewayInv'
    BY GatewayStep
  <1>3. GatewayInv /\ [G!Next]_(G!vars) => [G!FollowerKeeps]_(G!vars)
    BY GatewayStep
  <1> QED
    BY <1>1, <1>2, <1>3, PTL DEF G!Spec, G!FollowerUntouched

=============================================================================
