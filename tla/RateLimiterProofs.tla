-------------------------- MODULE RateLimiterProofs --------------------------
(***************************************************************************)
(* Proofs about RateLimiter for every rate, burst, retention time and       *)
(* number of concurrent requests, on both backends.                         *)
(***************************************************************************)
EXTENDS RateLimiter, TLAPS

-----------------------------------------------------------------------------
(* Arithmetic: products with the rate.                                      *)

\* Multiplication by the rate distributes over addition.
LEMMA TimesRateAdds ==
    ASSUME NEW a \in Int, NEW b \in Int
    PROVE  /\ a * Rate \in Int
           /\ (a + b) * Rate = a * Rate + b * Rate
  BY LimiterAssumption

\* Multiplication by the rate is monotonic.
LEMMA TimesRateMonotonic ==
    ASSUME NEW a \in Int, NEW b \in Int, a <= b
    PROVE  a * Rate <= b * Rate
  BY LimiterAssumption

\* Euclidean division by the rate.
LEMMA DivRate ==
    ASSUME NEW a \in Int
    PROVE  /\ a \div Rate \in Int
           /\ (a \div Rate) * Rate <= a
           /\ a < (a \div Rate) * Rate + Rate
  BY LimiterAssumption

\* Both backends: a refill never credits more than the elapsed time (plus the
\* epsilon) pays for, and never leaves a whole interval uncredited.
LEMMA RefillBounds ==
    ASSUME NEW e \in Int
    PROVE  /\ Refill(e) \in Int
           /\ Refill(e) >= 1 => Refill(e) * Rate <= e + Epsilon
           /\ e < Refill(e) * Rate + Rate
<1>1. CASE ~Sqlite
  BY <1>1, DivRate, LimiterAssumption DEF Refill
<1>2. CASE Sqlite /\ e + Epsilon >= 0
  <2>1. e + Epsilon \in Int /\ Refill(e) = (e + Epsilon) \div Rate
    BY <1>2, LimiterAssumption DEF Refill
  <2> QED
    BY <2>1, DivRate, LimiterAssumption
<1>3. CASE Sqlite /\ ~(e + Epsilon >= 0)
  <2> DEFINE q == (-(e + Epsilon)) \div Rate
  <2>1. -(e + Epsilon) \in Int /\ -(e + Epsilon) >= 0 /\ Refill(e) = -q
    BY <1>3, LimiterAssumption DEF Refill
  <2>2. q \in Int /\ q * Rate <= -(e + Epsilon) /\ -(e + Epsilon) < q * Rate + Rate
    BY <2>1, DivRate
  <2> HIDE DEF q
  <2>3. (-q) * Rate = -(q * Rate) /\ q * Rate \in Int
    BY <2>2, LimiterAssumption
  <2>4. q >= 0
    <3>1. CASE q <= -1
      <4>1. q * Rate <= (-1) * Rate
        BY <2>2, <3>1, TimesRateMonotonic
      <4> QED
        BY <2>1, <2>2, <4>1, LimiterAssumption
    <3> QED
      BY <2>2, <3>1
  <2> QED
    BY <2>1, <2>2, <2>3, <2>4, LimiterAssumption
<1> QED
  BY <1>1, <1>2, <1>3, LimiterAssumption

\* What one request costs: with the tokens it leaves behind it takes no more
\* than the row held plus what last_refill advanced by, and never more than
\* the burst; the row it leaves carries less than one interval.
LEMMA TakenBounds ==
    ASSUME NEW b \in Bucket, NEW now \in Int,
           NEW a \in {0, 1}, a = IF Taken(b, now).tokens < 0 THEN 0 ELSE 1
    PROVE  LET t == Taken(b, now)
           IN  /\ t \in Bucket
               /\ t.tokens < Burst
               /\ t.last_refill <= b.last_refill \/ t.last_refill <= now + Epsilon
               /\ now < t.last_refill + Rate
               /\ a + Spendable(t.tokens) <= Burst
               /\ (a + Spendable(t.tokens)) * Rate + b.last_refill
                     <= Spendable(b.tokens) * Rate + t.last_refill
<1> DEFINE k == Refill(now - b.last_refill)
           S == Spendable(b.tokens)
           t == Taken(b, now)
           c == a + Spendable(t.tokens)
<1>1. /\ b.tokens \in Int /\ b.last_refill \in Int /\ now - b.last_refill \in Int
      /\ S \in Nat
  BY DEF Bucket, Spendable
<1>2. /\ k \in Int
      /\ k >= 1 => k * Rate <= now - b.last_refill + Epsilon
      /\ now - b.last_refill < k * Rate + Rate
  BY <1>1, RefillBounds
<1>3. k * Rate \in Int /\ S * Rate \in Int
  BY <1>1, <1>2, LimiterAssumption
<1>4. t = [tokens |-> IF S + k >= 1 THEN Capped(S + k) - 1 ELSE -1,
           last_refill |-> IF k >= 1 THEN b.last_refill + k * Rate ELSE b.last_refill]
  BY DEF Taken
<1> HIDE DEF k, S
<1>5. /\ t.tokens = IF S + k >= 1 THEN Capped(S + k) - 1 ELSE -1
      /\ t.last_refill = IF k >= 1 THEN b.last_refill + k * Rate ELSE b.last_refill
  BY <1>4
<1>6. t.tokens \in Int /\ t.last_refill \in Int /\ t \in Bucket
  BY <1>1, <1>2, <1>3, <1>4, <1>5, LimiterAssumption DEF Capped, Bucket
<1>7. t.tokens < Burst
  BY <1>1, <1>2, <1>5, LimiterAssumption DEF Capped
<1>8. t.last_refill <= b.last_refill \/ t.last_refill <= now + Epsilon
  BY <1>1, <1>2, <1>3, <1>5, LimiterAssumption
<1>9. now < t.last_refill + Rate
  <2>1. CASE k >= 1
    BY <1>1, <1>2, <1>3, <1>5, <2>1, LimiterAssumption
  <2>2. CASE ~(k >= 1)
    <3>1. k * Rate <= 0 * Rate
      BY <1>2, <2>2, TimesRateMonotonic
    <3> QED
      BY <1>1, <1>2, <1>3, <1>5, <2>2, <3>1, LimiterAssumption
  <2> QED
    BY <2>1, <2>2
<1>10. c \in Nat /\ c <= Burst /\ (c <= S + k \/ c = 0)
  BY <1>1, <1>2, <1>5, <1>6, LimiterAssumption DEF Capped, Spendable
<1>11. c <= S \/ (k >= 1 /\ c <= S + k)
  BY <1>1, <1>2, <1>10
<1>12. c * Rate + b.last_refill <= S * Rate + t.last_refill
  <2>1. CASE k >= 1 /\ c <= S + k
    <3>1. c * Rate <= (S + k) * Rate
      BY <1>1, <1>2, <1>10, <2>1, TimesRateMonotonic
    <3>2. (S + k) * Rate = S * Rate + k * Rate /\ c * Rate \in Int
      BY <1>1, <1>2, <1>10, TimesRateAdds
    <3> QED
      BY <1>1, <1>3, <1>5, <2>1, <3>1, <3>2
  <2>2. CASE c <= S
    <3>1. c * Rate <= S * Rate /\ c * Rate \in Int
      BY <1>1, <1>10, <2>2, TimesRateMonotonic, TimesRateAdds
    <3>2. b.last_refill <= t.last_refill
      <4>1. CASE k >= 1
        <5>1. 0 * Rate <= k * Rate
          BY <1>2, <4>1, TimesRateMonotonic
        <5> QED
          BY <1>1, <1>3, <1>5, <4>1, <5>1, LimiterAssumption
      <4>2. CASE ~(k >= 1)
        BY <1>1, <1>5, <4>2
      <4> QED
        BY <4>1, <4>2
    <3> QED
      BY <1>1, <1>3, <1>6, <3>1, <3>2
  <2> QED
    BY <1>11, <2>1, <2>2
<1> QED
  BY <1>6, <1>7, <1>8, <1>9, <1>10, <1>12 DEF S

-----------------------------------------------------------------------------
(* LimiterInv is inductive.                                                 *)

\* Before the first request there is no row and nothing to pay for.
LEMMA InitLimiterInv == Init => LimiterInv
  BY LimiterAssumption DEF Init, LimiterInv, TypeOK, LagBounded, CreditBalance

\* The steps that do not touch the row: time, the start of a call, a failed
\* statement, and the observer.
LEMMA QuietInv ==
    ASSUME LimiterInv,
           \/ Tick \/ Observe
           \/ \E r \in Requests : Arrive(r) \/ TakeError(r)
    PROVE  LimiterInv'
<1> USE LimiterAssumption DEF LimiterInv, TypeOK, LagBounded, CreditBalance, Paid
<1>1. CASE Tick
  <2>1. admitted * Rate \in Int
    BY TimesRateAdds
  <2> QED
    BY <1>1, <2>1 DEF Tick, Bucket
<1>2. CASE Observe
  BY <1>2 DEF Observe
<1>3. ASSUME NEW r \in Requests, Arrive(r) PROVE LimiterInv'
  BY <1>3 DEF Arrive
<1>4. ASSUME NEW r \in Requests, TakeError(r) PROVE LimiterInv'
  BY <1>4 DEF TakeError
<1> QED
  BY <1>1, <1>2, <1>3, <1>4

\* Deleting the row: an idle row is only deleted when it would be full again.
LEMMA DeleteInv ==
    ASSUME LimiterInv, Cleanup \/ Clear
    PROVE  LimiterInv'
<1>1. CASE Clear
  BY <1>1, LimiterAssumption DEF Clear, LimiterInv, TypeOK, LagBounded, CreditBalance
<1>2. CASE Cleanup
  <2>1. TypeOK' /\ LagBounded'
    BY <1>2 DEF Cleanup, LimiterInv, TypeOK, LagBounded
  <2>2. ASSUME admitted > 0
        PROVE  admitted * Rate < (clock - since) + Rate
    <3>1. PICK now \in (clock - MaxLag) .. clock : bucket.last_refill < now - MaxAge
      BY <1>2 DEF Cleanup, Cutoff
    <3>2. /\ clock \in Int /\ since \in Int /\ admitted \in Int
          /\ bucket # None /\ bucket.last_refill \in Int /\ bucket.tokens \in Int
          /\ bucket.last_refill < clock - MaxAge
      BY <1>2, <3>1, LimiterAssumption DEF Cleanup, LimiterInv, TypeOK, Bucket
    <3>3. (admitted + Spendable(bucket.tokens)) * Rate
             < Burst * Rate + (bucket.last_refill - since) + MaxLag + Rate
      BY <2>2, <3>2 DEF LimiterInv, CreditBalance, Paid
    <3>4. admitted * Rate <= (admitted + Spendable(bucket.tokens)) * Rate
      <4>1. Spendable(bucket.tokens) \in Nat
        BY <3>2 DEF Spendable
      <4> QED
        BY <3>2, <4>1, TimesRateMonotonic
    <3>5. /\ admitted * Rate \in Int /\ Burst * Rate \in Int
          /\ (admitted + Spendable(bucket.tokens)) * Rate \in Int
      BY <3>2, LimiterAssumption DEF Spendable
    <3> QED
      BY <3>2, <3>3, <3>4, <3>5, LimiterAssumption
  <2>3. CreditBalance'
    BY <1>2, <2>2 DEF Cleanup, CreditBalance
  <2> QED
    BY <2>1, <2>3 DEF LimiterInv
<1> QED
  BY <1>1, <1>2

\* The upsert, whether its answer arrives (a is what it admits) or is lost
\* (a = 0): the row stays paid for.
LEMMA UpsertInv ==
    ASSUME LimiterInv, NEW r \in Requests, reqs[r] # None, Upsert(r),
           NEW a \in {0, 1}, a = 1 => bucket'.tokens >= 0,
           admitted' = admitted + a,
           reqs' = [reqs EXCEPT ![r] = None], UNCHANGED <<clock, since>>
    PROVE  LimiterInv'
<1> DEFINE now == reqs[r]
<1>1. /\ now \in Nat /\ clock \in Nat /\ since \in Nat /\ admitted \in Nat
      /\ since <= clock /\ now <= clock /\ clock <= now + MaxLag
  BY LimiterAssumption DEF LimiterInv, TypeOK, LagBounded
<1>2. reqs' \in [Requests -> Nat \cup {None}] /\ LagBounded'
  BY DEF LimiterInv, TypeOK, LagBounded
<1>3. admitted' \in Nat
  BY <1>1
<1> HIDE DEF now
<1>4. CASE bucket = None
  <2>1. /\ bucket' = [tokens |-> Burst - 1, last_refill |-> now]
        /\ born' = now /\ touched' = clock
    BY <1>4 DEF Upsert, now
  <2>2. TypeOK'
    BY <1>1, <1>2, <1>3, <2>1, LimiterAssumption DEF TypeOK, Bucket
  <2>3. bucket'.tokens = Burst - 1 /\ bucket'.last_refill = now /\ Spendable(Burst - 1) = Burst - 1
    BY <2>1, LimiterAssumption DEF Spendable
  <2>4. bucket' # None
    BY <1>1, <2>1, LimiterAssumption, NoneIsNoRow DEF Bucket
  <2>5. ASSUME admitted' > 0
        PROVE  (admitted' + (Burst - 1)) * Rate
                  < Burst * Rate + (now - since) + MaxLag + Rate
    <3>1. /\ admitted' + (Burst - 1) <= admitted + Burst
          /\ admitted' + (Burst - 1) \in Int /\ Burst \in Int
      BY <1>1, LimiterAssumption
    <3>2. (admitted' + (Burst - 1)) * Rate <= (admitted + Burst) * Rate
      BY <1>1, <3>1, TimesRateMonotonic
    <3>3. /\ (admitted + Burst) * Rate = admitted * Rate + Burst * Rate
          /\ admitted * Rate \in Int /\ Burst * Rate \in Int
          /\ (admitted' + (Burst - 1)) * Rate \in Int
      BY <1>1, <3>1, LimiterAssumption, TimesRateAdds
    <3>4. CASE admitted > 0
      <4>1. admitted * Rate < (clock - since) + Rate
        BY <1>4, <3>4 DEF LimiterInv, CreditBalance
      <4> QED
        BY <1>1, <3>2, <3>3, <4>1, LimiterAssumption
    <3>5. CASE admitted = 0
      <4>1. admitted * Rate = 0
        BY <3>5, LimiterAssumption
      <4> QED
        BY <1>1, <3>2, <3>3, <4>1, LimiterAssumption
    <3> QED
      BY <1>1, <3>4, <3>5
  <2>6. CreditBalance'
    BY <1>1, <2>3, <2>4, <2>5, LimiterAssumption DEF CreditBalance, Paid
  <2> QED
    BY <1>2, <2>2, <2>6 DEF LimiterInv
<1>5. CASE bucket # None
  <2> DEFINE S == Spendable(bucket.tokens)
             T == Spendable(bucket'.tokens)
             d == IF Taken(bucket, now).tokens < 0 THEN 0 ELSE 1
  <2>1. bucket' = Taken(bucket, now) /\ born' = born /\ touched' = clock
    BY <1>5 DEF Upsert, now
  <2>2. bucket \in Bucket /\ bucket.tokens \in Int /\ bucket.last_refill \in Int
        /\ bucket.last_refill <= clock + Epsilon /\ S \in Nat
    BY <1>5 DEF LimiterInv, TypeOK, CreditBalance, Bucket, Spendable
  <2>3. /\ bucket' \in Bucket
        /\ bucket'.tokens < Burst
        /\ bucket'.last_refill <= bucket.last_refill \/ bucket'.last_refill <= now + Epsilon
        /\ now < bucket'.last_refill + Rate
        /\ d + T <= Burst
        /\ (d + T) * Rate + bucket.last_refill <= S * Rate + bucket'.last_refill
    <3>1. d \in {0, 1} /\ now \in Int
      BY <1>1
    <3> QED
      BY <2>1, <2>2, <3>1, TakenBounds
  <2>4. /\ bucket'.tokens \in Int /\ bucket'.last_refill \in Int /\ T \in Nat
        /\ bucket' # None
    BY <2>3, NoneIsNoRow DEF Bucket, Spendable
  <2>5. a <= d /\ d \in {0, 1}
    BY <2>1, <2>4
  <2>6. TypeOK'
    BY <1>1, <1>2, <1>3, <2>1, <2>3 DEF TypeOK, LimiterInv
  <2> HIDE DEF d, S, T
  <2>7. /\ (a + T) * Rate + bucket.last_refill <= S * Rate + bucket'.last_refill
        /\ a + T <= Burst /\ a + T \in Nat
    <3>1. (a + T) * Rate <= (d + T) * Rate
      BY <2>4, <2>5, TimesRateMonotonic
    <3>2. (a + T) * Rate \in Int /\ (d + T) * Rate \in Int /\ S * Rate \in Int
      BY <2>2, <2>4, <2>5, LimiterAssumption
    <3> QED
      BY <2>2, <2>3, <2>4, <2>5, <3>1, <3>2, LimiterAssumption
  <2>8. ASSUME admitted' > 0
        PROVE  (admitted' + T) * Rate
                  < Burst * Rate + (bucket'.last_refill - since) + MaxLag + Rate
    <3>1. /\ (admitted' + T) * Rate = admitted * Rate + (a + T) * Rate
          /\ admitted * Rate \in Int /\ (a + T) * Rate \in Int
          /\ S * Rate \in Int /\ Burst * Rate \in Int
      <4>1. admitted' + T = admitted + (a + T)
        BY <1>1, <2>4
      <4> QED
        BY <1>1, <2>2, <2>7, <4>1, LimiterAssumption, TimesRateAdds
    <3>2. CASE admitted > 0
      <4>1. (admitted + S) * Rate
               < Burst * Rate + (bucket.last_refill - since) + MaxLag + Rate
        BY <1>5, <3>2 DEF LimiterInv, CreditBalance, Paid, S
      <4>2. (admitted + S) * Rate = admitted * Rate + S * Rate
        BY <1>1, <2>2, TimesRateAdds
      <4> QED
        BY <1>1, <2>2, <2>4, <2>7, <3>1, <4>1, <4>2, LimiterAssumption
    <3>3. CASE admitted = 0
      <4>1. admitted * Rate = 0
        BY <3>3, LimiterAssumption
      <4>2. (a + T) * Rate <= Burst * Rate
        BY <2>7, LimiterAssumption, TimesRateMonotonic
      <4> QED
        BY <1>1, <2>3, <2>4, <3>1, <4>1, <4>2, LimiterAssumption
    <3> QED
      BY <1>1, <3>2, <3>3
  <2>9. bucket'.last_refill <= clock + Epsilon
    BY <1>1, <2>2, <2>3, <2>4, LimiterAssumption
  <2>10. CreditBalance'
    BY <2>4, <2>8, <2>9 DEF CreditBalance, Paid, T
  <2> QED
    BY <1>2, <2>6, <2>10 DEF LimiterInv
<1> QED
  BY <1>4, <1>5

\* Every step keeps the books balanced.
LEMMA NextLimiterInv ==
    ASSUME LimiterInv, [Next]_vars
    PROVE  LimiterInv'
<1>1. CASE Tick \/ Observe \/ \E r \in Requests : Arrive(r) \/ TakeError(r)
  BY <1>1, QuietInv
<1>2. CASE Cleanup \/ Clear
  BY <1>2, DeleteInv
<1>3. ASSUME NEW r \in Requests, Take(r) PROVE LimiterInv'
  <2>1. CASE bucket'.tokens < 0
    <3>1. admitted' = admitted + 0
      BY <1>3, <2>1 DEF Take, LimiterInv, TypeOK
    <3>2. 0 \in {0, 1} /\ (0 = 1 => bucket'.tokens >= 0)
      OBVIOUS
    <3>3. /\ reqs[r] # None /\ Upsert(r)
          /\ reqs' = [reqs EXCEPT ![r] = None] /\ UNCHANGED <<clock, since>>
      BY <1>3 DEF Take
    <3> QED
      BY <3>1, <3>2, <3>3, UpsertInv
  <2>2. CASE ~(bucket'.tokens < 0)
    <3>1. bucket'.tokens \in Int
      <4>1. reqs[r] \in Nat
        BY <1>3 DEF Take, LimiterInv, TypeOK
      <4>2. CASE bucket = None
        BY <1>3, <4>2, LimiterAssumption DEF Take, Upsert
      <4>3. CASE bucket # None
        <5>1. bucket \in Bucket /\ bucket' = Taken(bucket, reqs[r])
          BY <1>3, <4>3 DEF Take, Upsert, LimiterInv, TypeOK
        <5> DEFINE d == IF Taken(bucket, reqs[r]).tokens < 0 THEN 0 ELSE 1
        <5>2. d \in {0, 1} /\ reqs[r] \in Int
          BY <4>1
        <5>3. bucket' \in Bucket
          BY <5>1, <5>2, TakenBounds
        <5> QED
          BY <5>3 DEF Bucket
      <4> QED
        BY <4>2, <4>3
    <3>2. bucket'.tokens >= 0 /\ admitted' = admitted + 1
      BY <1>3, <2>2, <3>1 DEF Take
    <3> QED
      BY <1>3, <3>2, UpsertInv DEF Take
  <2> QED
    BY <2>1, <2>2
<1>4. ASSUME NEW r \in Requests, TakeUnacknowledged(r) PROVE LimiterInv'
  <2>1. admitted' = admitted + 0
    BY <1>4 DEF TakeUnacknowledged, LimiterInv, TypeOK
  <2>2. 0 \in {0, 1} /\ (0 = 1 => bucket'.tokens >= 0)
    OBVIOUS
  <2>3. /\ reqs[r] # None /\ Upsert(r)
        /\ reqs' = [reqs EXCEPT ![r] = None] /\ UNCHANGED <<clock, since>>
    BY <1>4 DEF TakeUnacknowledged
  <2> QED
    BY <2>1, <2>2, <2>3, UpsertInv
<1>5. CASE UNCHANGED vars
  BY <1>5 DEF vars, LimiterInv, TypeOK, LagBounded, CreditBalance, Paid
<1> QED
  BY <1>1, <1>2, <1>3, <1>4, <1>5 DEF Next

\* The inductive invariant holds in every behaviour of the limiter, on both
\* backends, for every rate, burst, retention time and number of requests.
THEOREM LimiterInvHolds == Spec => []LimiterInv
  BY InitLimiterInv, NextLimiterInv, PTL DEF Spec

\* check_rate_limit and CleanupJob keep the bucket row well formed and below
\* the burst.
THEOREM LimiterTypeCorrect == Spec => []TypeOK
<1>1. LimiterInv => TypeOK
  BY DEF LimiterInv
<1> QED
  BY <1>1, LimiterInvHolds, PTL

\* The limit itself: no window of time admits more requests than burst, rate
\* and the lag of a captured clock allow, although statements arrive out of
\* order and CleanupJob deletes the row.
THEOREM LimitHolds == Spec => []WindowBound
<1>1. LimiterInv => WindowBound
  <2> SUFFICES ASSUME LimiterInv PROVE WindowBound
    OBVIOUS
  <2>1. /\ clock \in Nat /\ since \in Nat /\ admitted \in Nat /\ since <= clock
    BY DEF LimiterInv, TypeOK, LagBounded
  <2>2. /\ (Burst + 1) * Rate = Burst * Rate + Rate
        /\ Burst * Rate \in Nat /\ admitted * Rate \in Nat
    BY <2>1, LimiterAssumption
  <2>3. CASE admitted = 0
    <3>1. admitted * Rate = 0
      BY <2>3, LimiterAssumption
    <3> QED
      BY <2>1, <2>2, <3>1, LimiterAssumption DEF WindowBound
  <2>4. CASE admitted > 0 /\ bucket = None
    <3>1. admitted * Rate < (clock - since) + Rate
      BY <2>4 DEF LimiterInv, CreditBalance
    <3> QED
      BY <2>1, <2>2, <3>1, LimiterAssumption DEF WindowBound
  <2>5. CASE admitted > 0 /\ bucket # None
    <3> DEFINE S == Spendable(bucket.tokens)
    <3>1. bucket.last_refill \in Int /\ S \in Nat /\ bucket.last_refill <= clock + Epsilon
      BY <2>5 DEF LimiterInv, TypeOK, CreditBalance, Bucket, Spendable
    <3>2. (admitted + S) * Rate < Burst * Rate + (bucket.last_refill - since) + MaxLag + Rate
      BY <2>5 DEF LimiterInv, CreditBalance, Paid
    <3> HIDE DEF S
    <3>3. admitted * Rate <= (admitted + S) * Rate /\ (admitted + S) * Rate \in Int
      <4>1. admitted <= admitted + S /\ admitted \in Int /\ admitted + S \in Int
        BY <2>1, <3>1
      <4> QED
        BY <4>1, TimesRateMonotonic, LimiterAssumption
    <3> QED
      BY <2>1, <2>2, <3>1, <3>2, <3>3, LimiterAssumption DEF WindowBound
  <2> QED
    BY <2>1, <2>3, <2>4, <2>5
<1> QED
  BY <1>1, LimiterInvHolds, PTL

-----------------------------------------------------------------------------
(* The grid of refills                                                      *)

\* The row's last_refill is a whole number of intervals after the row was inserted.
OnGrid == bucket # None => born \in Nat /\ \E m \in Int : bucket.last_refill - born = m * Rate

\* A multiple of the rate leaves no remainder.
LEMMA MultipleModRate ==
    ASSUME NEW m \in Int
    PROVE  (m * Rate) % Rate = 0
<1> DEFINE a == m * Rate
           q == a \div Rate
<1>1. a \in Int
  BY LimiterAssumption
<1>2. q \in Int /\ q * Rate <= a /\ a < q * Rate + Rate
  BY <1>1, DivRate
<1>3. (q + 1) * Rate = q * Rate + Rate /\ q * Rate \in Int
  <2>1. (q + 1) * Rate = q * Rate + 1 * Rate /\ q * Rate \in Int
    BY <1>2, TimesRateAdds
  <2> QED
    BY <2>1, LimiterAssumption
<1> HIDE DEF q
<1>4. q = m
  <2>1. CASE q > m
    <3>1. (m + 1) * Rate <= q * Rate
      BY <1>2, <2>1, TimesRateMonotonic
    <3>2. (m + 1) * Rate = m * Rate + 1 * Rate
      BY TimesRateAdds
    <3> QED
      BY <1>1, <1>2, <1>3, <3>1, <3>2, LimiterAssumption
  <2>2. CASE q < m
    <3>1. (q + 1) * Rate <= a
      BY <1>2, <2>2, TimesRateMonotonic
    <3> HIDE DEF a
    <3>2. q * Rate + Rate <= a
      BY <1>3, <3>1
    <3> QED
      BY <1>1, <1>2, <1>3, <3>2, LimiterAssumption
  <2> QED
    BY <1>2, <2>1, <2>2
<1>5. a % Rate = a - q * Rate
  <2> HIDE DEF a
  <2>1. a = Rate * (a \div Rate) + (a % Rate) /\ a % Rate \in Int
    BY <1>1, LimiterAssumption
  <2>2. Rate * q = q * Rate
    BY <1>2, LimiterAssumption
  <2> QED
    BY <1>1, <1>3, <2>1, <2>2 DEF q
<1> QED
  BY <1>1, <1>4, <1>5

\* The upsert moves last_refill by whole intervals.
LEMMA TakenOnGrid ==
    ASSUME NEW b \in Bucket, NEW now \in Int, NEW from \in Nat,
           \E m \in Int : b.last_refill - from = m * Rate
    PROVE  \E m \in Int : Taken(b, now).last_refill - from = m * Rate
<1> DEFINE k == Refill(now - b.last_refill)
<1>1. b.last_refill \in Int /\ now - b.last_refill \in Int
  BY DEF Bucket
<1>2. k \in Int
  BY <1>1, RefillBounds
<1>3. Taken(b, now).last_refill = IF k >= 1 THEN b.last_refill + k * Rate ELSE b.last_refill
  BY DEF Taken
<1>4. PICK m \in Int : b.last_refill - from = m * Rate
  OBVIOUS
<1> HIDE DEF k
<1>5. (m + k) * Rate = m * Rate + k * Rate /\ m + k \in Int
  BY <1>2, TimesRateAdds
<1>6. k * Rate \in Int /\ m * Rate \in Int
  BY <1>2, LimiterAssumption
<1>7. b.last_refill + k * Rate - from = (m + k) * Rate
  BY <1>1, <1>4, <1>5, <1>6
<1>8. CASE k >= 1
  <2> DEFINE j == m + k
  <2>1. Taken(b, now).last_refill - from = j * Rate /\ j \in Int
    <3>1. Taken(b, now).last_refill = b.last_refill + k * Rate
      BY <1>3, <1>8
    <3>2. b.last_refill + k * Rate - from = j * Rate /\ j \in Int
      BY <1>5, <1>7
    <3> HIDE DEF j
    <3> QED
      BY <1>1, <1>2, <1>6, <3>1, <3>2
  <2> HIDE DEF j
  <2> QED
    BY <2>1
<1>9. CASE ~(k >= 1)
  BY <1>3, <1>4, <1>9
<1> QED
  BY <1>8, <1>9

\* Every step keeps the row on its grid.
LEMMA StepOnGrid == LimiterInv /\ OnGrid /\ [Next]_vars => OnGrid'
<1> SUFFICES ASSUME LimiterInv, OnGrid, [Next]_vars PROVE OnGrid'
  OBVIOUS
<1>1. ASSUME NEW r \in Requests, reqs[r] # None, Upsert(r)
      PROVE  OnGrid'
  <2>1. reqs[r] \in Nat
    BY <1>1 DEF LimiterInv, TypeOK
  <2>2. CASE bucket = None
    <3>1. bucket'.last_refill = reqs[r] /\ born' = reqs[r]
      BY <1>1, <2>2 DEF Upsert
    <3>2. bucket'.last_refill - born' = 0 * Rate
      BY <2>1, <3>1, LimiterAssumption
    <3> QED
      BY <2>1, <3>1, <3>2 DEF OnGrid
  <2>3. CASE bucket # None
    <3>1. bucket' = Taken(bucket, reqs[r]) /\ born' = born /\ bucket \in Bucket
      BY <1>1, <2>3 DEF Upsert, LimiterInv, TypeOK
    <3>2. born \in Nat /\ \E m \in Int : bucket.last_refill - born = m * Rate
      BY <2>3 DEF OnGrid
    <3>3. \E m \in Int : Taken(bucket, reqs[r]).last_refill - born = m * Rate
      BY <2>1, <3>1, <3>2, TakenOnGrid
    <3> QED
      BY <3>1, <3>2, <3>3 DEF OnGrid
  <2> QED
    BY <2>2, <2>3
<1>2. ASSUME NEW r \in Requests, Take(r) \/ TakeUnacknowledged(r)
      PROVE  OnGrid'
  BY <1>1, <1>2 DEF Take, TakeUnacknowledged
<1>3. CASE Cleanup \/ Clear
  BY <1>3 DEF Cleanup, Clear, OnGrid
<1>4. CASE UNCHANGED <<bucket, born>>
  BY <1>4 DEF OnGrid
<1> QED
  BY <1>2, <1>3, <1>4 DEF Next, Tick, Observe, Arrive, TakeError, vars

\* Refills stay on the grid of whole rate intervals after the row was inserted, for every
\* rate and on both backends.
THEOREM RefillsDoNotDrift == Spec => []NoDrift
<1>1. Init => OnGrid
  BY DEF Init, OnGrid
<1>2. LimiterInv /\ OnGrid => NoDrift
  BY MultipleModRate DEF OnGrid, NoDrift
<1> QED
  BY <1>1, <1>2, StepOnGrid, LimiterInvHolds, PTL DEF Spec

-----------------------------------------------------------------------------
(* Whoever waits an interval is served                                      *)

\* A refill is paid for by the elapsed time and SQLite's epsilon.
LEMMA RefillPaid ==
    ASSUME NEW e \in Int
    PROVE  /\ Refill(e) \in Int
           /\ Refill(e) >= 1 => Refill(e) * Rate <= e + Slack
<1>1. CASE Sqlite
  BY <1>1, RefillBounds DEF Slack
<1>2. CASE ~Sqlite
  BY <1>2, DivRate DEF Refill, Slack
<1> QED
  BY <1>1, <1>2

\* One interval is enough for a token.
LEMMA RefillWhenDue ==
    ASSUME NEW e \in Int, e + Slack >= Rate
    PROVE  Refill(e) \in Int /\ Refill(e) >= 1
<1> DEFINE a == e + Slack
           q == a \div Rate
<1>1. a \in Int /\ a >= Rate
  BY LimiterAssumption DEF Slack
<1>2. Refill(e) = q
  BY <1>1, LimiterAssumption DEF Refill, Slack
<1> HIDE DEF a
<1>3. q \in Int /\ a < q * Rate + Rate
  BY <1>1, DivRate
<1> HIDE DEF q
<1>4. CASE q <= 0
  <2>1. q * Rate <= 0 * Rate /\ q * Rate \in Int
    BY <1>3, <1>4, TimesRateMonotonic, TimesRateAdds
  <2> QED
    BY <1>1, <1>3, <2>1, LimiterAssumption
<1> QED
  BY <1>2, <1>3, <1>4

\* Every step keeps last_refill behind the statement that wrote it.
LEMMA StepRefilledByStatement ==
    LimiterInv /\ RefilledByStatement /\ [Next]_vars => RefilledByStatement'
<1> SUFFICES ASSUME LimiterInv, RefilledByStatement, [Next]_vars PROVE RefilledByStatement'
  OBVIOUS
<1>1. Slack \in Nat /\ clock \in Nat /\ touched \in Nat
  BY LimiterAssumption DEF Slack, LimiterInv, TypeOK
<1>2. ASSUME NEW r \in Requests, reqs[r] # None, Upsert(r), clock' = clock
      PROVE  RefilledByStatement'
  <2>1. reqs[r] \in Nat /\ reqs[r] <= clock /\ touched' = clock
    BY <1>2 DEF LimiterInv, TypeOK, LagBounded, Upsert
  <2>2. CASE bucket = None
    <3>1. bucket'.last_refill = reqs[r]
      BY <1>2, <2>2 DEF Upsert
    <3> QED
      BY <1>1, <1>2, <2>1, <3>1 DEF RefilledByStatement
  <2>3. CASE bucket # None
    <3> DEFINE last == bucket.last_refill
               k == Refill(reqs[r] - last)
    <3>1. last \in Int /\ reqs[r] - last \in Int /\ last <= touched + Slack /\ touched <= clock
      BY <2>1, <2>3 DEF LimiterInv, TypeOK, Bucket, RefilledByStatement
    <3>2. bucket'.last_refill = IF k >= 1 THEN last + k * Rate ELSE last
      BY <1>2, <2>3 DEF Upsert, Taken
    <3>3. k \in Int /\ (k >= 1 => k * Rate <= reqs[r] - last + Slack)
      BY <3>1, RefillPaid
    <3> HIDE DEF k, last
    <3>4. k * Rate \in Int
      BY <3>3, TimesRateAdds
    <3>5. bucket'.last_refill <= clock + Slack
      BY <1>1, <2>1, <3>1, <3>2, <3>3, <3>4
    <3> QED
      BY <1>1, <1>2, <2>1, <3>5 DEF RefilledByStatement
  <2> QED
    BY <2>2, <2>3
<1>3. ASSUME NEW r \in Requests, Take(r) \/ TakeUnacknowledged(r)
      PROVE  RefilledByStatement'
  BY <1>2, <1>3 DEF Take, TakeUnacknowledged
<1>4. CASE Cleanup \/ Clear
  BY <1>4 DEF Cleanup, Clear, RefilledByStatement
<1>5. CASE Tick
  BY <1>1, <1>5 DEF Tick, RefilledByStatement
<1>6. CASE UNCHANGED <<clock, bucket, touched>>
  BY <1>6 DEF RefilledByStatement, Slack
<1> QED
  BY <1>3, <1>4, <1>5, <1>6 DEF Next, Observe, Arrive, TakeError, vars

\* A refusal's Retry-After is honoured on both backends, whatever the rate, the burst and the
\* lag: last_refill is behind the last statement, so one interval later a token is due.
THEOREM RetriesAreServed == Spec => RetryAfterHonoured
<1>1. Init => RefilledByStatement
  BY DEF Init, RefilledByStatement
<1>2. ASSUME LimiterInv, RefilledByStatement, NEW r \in Requests, Take(r),
             reqs[r] >= touched + Rate
      PROVE  admitted' = admitted + 1
  <2>1. reqs[r] \in Nat /\ touched \in Nat /\ Slack \in Nat
    BY <1>2, LimiterAssumption DEF LimiterInv, TypeOK, Take, Slack
  <2>2. CASE bucket = None
    <3>1. bucket'.tokens = Burst - 1
      BY <1>2, <2>2 DEF Take, Upsert
    <3> QED
      BY <1>2, <3>1, LimiterAssumption DEF Take
  <2>3. CASE bucket # None
    <3> DEFINE k == Refill(reqs[r] - bucket.last_refill)
               S == Spendable(bucket.tokens)
    <3>1. /\ bucket.tokens \in Int /\ bucket.last_refill \in Int
          /\ bucket.last_refill <= touched + Slack
      BY <1>2, <2>3 DEF LimiterInv, TypeOK, Bucket, RefilledByStatement
    <3>2. reqs[r] - bucket.last_refill \in Int /\ reqs[r] - bucket.last_refill + Slack >= Rate
      BY <1>2, <2>1, <3>1, LimiterAssumption
    <3>3. k \in Int /\ k >= 1
      BY <3>2, RefillWhenDue
    <3>4. S \in Int /\ S >= 0
      BY <3>1 DEF Spendable
    <3>5. bucket'.tokens = IF S + k >= 1 THEN Capped(S + k) - 1 ELSE -1
      BY <1>2, <2>3 DEF Take, Upsert, Taken
    <3> HIDE DEF k, S
    <3>6. bucket'.tokens >= 0 /\ bucket'.tokens \in Int
      BY <3>3, <3>4, <3>5, LimiterAssumption DEF Capped
    <3> QED
      BY <1>2, <3>6 DEF Take
  <2> QED
    BY <2>2, <2>3
<1>3. LimiterInv /\ RefilledByStatement =>
        [\A r \in Requests :
           Take(r) /\ reqs[r] >= touched + Rate => admitted' = admitted + 1]_vars
  BY <1>2
<1> QED
  BY <1>1, <1>3, StepRefilledByStatement, LimiterInvHolds, PTL DEF Spec, RetryAfterHonoured
=============================================================================
