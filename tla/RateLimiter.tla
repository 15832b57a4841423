----------------------------- MODULE RateLimiter -----------------------------
(***************************************************************************)
(* One row of rate_limit_buckets: the token bucket of one "action:bucket_id"*)
(* key (src/rate_limiter.rs), shared by concurrent requests, and the        *)
(* CleanupJob that deletes old rows (src/worker/jobs.rs).  Every statement  *)
(* of the limiter is keyed by bucket_key, so keys do not interact.          *)
(*                                                                          *)
(* check_rate_limit reads the clock, then runs one upsert.  The two are     *)
(* separate actions: upserts of concurrent requests reach the row in any    *)
(* order, so the `now` of one may be older than the last_refill it meets.   *)
(***************************************************************************)
EXTENDS Integers

CONSTANTS
    Requests,  \* concurrent calls of check_rate_limit
    Rate,      \* RateLimiterConfig.rate, in ticks per token
    Burst,     \* RateLimiterConfig.burst
    Sqlite,    \* TRUE for SQLITE_TAKE_SQL, FALSE for POSTGRES_TAKE_SQL
    Epsilon,   \* the 0.002 s SQLITE_TAKE_SQL adds to the elapsed time
    MaxAge,    \* CleanupJob.max_age_days, in ticks
    MaxLag,    \* bound: time between reading the clock and the statement
    MaxClock,  \* bound: the run stops when the clock gets here
    None

ASSUME LimiterAssumption ==
    /\ Rate \in Nat \ {0}
    /\ Burst \in Nat \ {0}
    /\ Sqlite \in BOOLEAN
    /\ Epsilon \in Nat
    /\ MaxAge \in Nat
    /\ MaxLag \in Nat
    /\ MaxClock \in Nat
    /\ None \notin Int
    \* a bucket is kept until it would be full again
    /\ Burst * Rate + MaxLag <= MaxAge

VARIABLES
    clock,
    bucket,    \* the row, or None
    reqs,      \* per request: the `now` it captured, or None outside the call
    since,     \* history: start of the window an observer counts in
    admitted,  \* history: requests let through in that window
    born,      \* history: the last_refill the current row was inserted with
    touched    \* history: when the key's last statement ran

vars == <<clock, bucket, reqs, since, admitted, born, touched>>

\* A row of rate_limit_buckets, without its key.
Bucket == [tokens : Int, last_refill : Int]

ASSUME NoneIsNoRow == None \notin Bucket

Init ==
    /\ clock = 0
    /\ bucket = None
    /\ reqs = [r \in Requests |-> None]
    /\ since = 0
    /\ admitted = 0
    /\ born = None
    /\ touched = 0

-----------------------------------------------------------------------------
(* The arithmetic of the upsert                                             *)

\* Whole tokens accrued in `elapsed` ticks.  PostgreSQL: FLOOR(elapsed / rate).
\* SQLite: CAST((elapsed + 0.002) / rate AS INTEGER), which truncates to zero.
Refill(elapsed) ==
    IF Sqlite
    THEN IF elapsed + Epsilon >= 0
         THEN (elapsed + Epsilon) \div Rate
         ELSE -((-(elapsed + Epsilon)) \div Rate)
    ELSE elapsed \div Rate

\* Mutant: the -1 a denial leaves in the row is a debt.
SpendableWithDebt(tokens) == tokens

\* GREATEST(0, tokens)
Spendable(tokens) == IF tokens > 0 THEN tokens ELSE 0

\* LEAST(tokens, burst)
Capped(tokens) == IF tokens > Burst THEN Burst ELSE tokens

\* Mutant: every spend restarts the refill interval at `now`.
TakenResettingRefill(b, now) ==
    LET tokens == Spendable(b.tokens) + Refill(now - b.last_refill)
    IN  [tokens |-> IF tokens >= 1 THEN Capped(tokens) - 1 ELSE -1,
         last_refill |-> now]

\* ON CONFLICT (bucket_key) DO UPDATE SET tokens = ..., last_refill = ...
Taken(b, now) ==
    LET refill == Refill(now - b.last_refill)
        tokens == Spendable(b.tokens) + refill
    IN  [tokens |-> IF tokens >= 1 THEN Capped(tokens) - 1 ELSE -1,
         last_refill |-> IF refill >= 1 THEN b.last_refill + refill * Rate ELSE b.last_refill]

-----------------------------------------------------------------------------
(* check_rate_limit                                                         *)

\* The call begins: let now = (self.clock)().
Arrive(r) ==
    /\ reqs[r] = None
    /\ reqs' = [reqs EXCEPT ![r] = clock]
    /\ UNCHANGED <<clock, bucket, since, admitted, born, touched>>

\* The upsert of request r is applied: INSERT burst - 1 tokens when there is no
\* row, the UPDATE of the conflicting row otherwise.
Upsert(r) ==
    /\ touched' = clock
    /\ IF bucket = None
       THEN /\ bucket' = [tokens |-> Burst - 1, last_refill |-> reqs[r]]
            /\ born' = reqs[r]
       ELSE /\ bucket' = Taken(bucket, reqs[r])
            /\ UNCHANGED born

\* RETURNING tokens: a negative count rejects the request.
Take(r) ==
    /\ reqs[r] # None
    /\ Upsert(r)
    /\ admitted' = IF bucket'.tokens < 0 THEN admitted ELSE admitted + 1
    /\ reqs' = [reqs EXCEPT ![r] = None]
    /\ UNCHANGED <<clock, since>>

\* The upsert is applied but the answer is lost: RateLimitError, fail closed.
TakeUnacknowledged(r) ==
    /\ reqs[r] # None
    /\ Upsert(r)
    /\ reqs' = [reqs EXCEPT ![r] = None]
    /\ UNCHANGED <<clock, since, admitted>>

\* The statement fails: RateLimitError, the row is untouched.
TakeError(r) ==
    /\ reqs[r] # None
    /\ reqs' = [reqs EXCEPT ![r] = None]
    /\ UNCHANGED <<clock, bucket, since, admitted, born, touched>>

-----------------------------------------------------------------------------
(* Deletion of the row                                                      *)

\* Mutant: the cutoff is the current time (the fallback the comment of
\* cleanup_old_rate_limit_buckets warns of).
CutoffNow(now) == now

\* now - max_age_days
Cutoff(now) == now - MaxAge

\* cleanup_old_rate_limit_buckets: DELETE ... WHERE last_refill < cutoff, with a
\* cutoff computed up to MaxLag before the statement runs.
Cleanup ==
    /\ bucket # None
    /\ \E now \in (clock - MaxLag) .. clock : bucket.last_refill < Cutoff(now)
    /\ bucket' = None
    /\ born' = None
    /\ UNCHANGED <<clock, reqs, since, admitted, touched>>

\* clear_key and clear_all forget the key on purpose: the count starts again.
Clear ==
    /\ bucket # None
    /\ bucket' = None
    /\ since' = clock
    /\ admitted' = 0
    /\ born' = None
    /\ UNCHANGED <<clock, reqs, touched>>

\* Time passes, but no call outlives MaxLag.
Tick ==
    /\ clock < MaxClock
    /\ \A r \in Requests : reqs[r] # None => clock < reqs[r] + MaxLag
    /\ clock' = clock + 1
    /\ UNCHANGED <<bucket, reqs, since, admitted, born, touched>>

\* Not the program: an observer opens a new counting window now.
Observe ==
    /\ since' = clock
    /\ admitted' = 0
    /\ UNCHANGED <<clock, bucket, reqs, born, touched>>

Next ==
    \/ Tick \/ Cleanup \/ Clear \/ Observe
    \/ \E r \in Requests : Arrive(r) \/ Take(r) \/ TakeUnacknowledged(r) \/ TakeError(r)

Spec == Init /\ [][Next]_vars

-----------------------------------------------------------------------------
(* Properties                                                               *)

\* The row holds integers, and fewer than burst tokens after any upsert.
TypeOK ==
    /\ clock \in Nat
    /\ bucket = None \/ (bucket \in Bucket /\ bucket.tokens < Burst)
    /\ reqs \in [Requests -> Nat \cup {None}]
    /\ since \in Nat
    /\ admitted \in Nat
    /\ born \in Nat \cup {None}
    /\ touched \in Nat

\* The limit: in ANY window of time, fewer requests are admitted than the burst,
\* plus one per rate interval, plus one for the fraction of an interval the row
\* carries - whatever the order in which the statements of concurrent requests
\* reach the row, and although CleanupJob deletes it in between and the next
\* request starts again with a full burst.
WindowBound ==
    admitted * Rate < (Burst + 1) * Rate + (clock - since) + MaxLag + Epsilon

\* No drift: refills happen on the grid of whole rate intervals after the row
\* was inserted; spending a token or being denied never restarts the interval.
NoDrift == bucket # None => (bucket.last_refill - born) % Rate = 0

\* No starvation: retry_after, which a refusal reports, is one rate interval, and whoever
\* leaves the key alone for that long is served, on both backends: a request that reads the
\* clock that long after the key's last statement ran is admitted, whatever the statements
\* before it did - denials, bursts, clock readings older than last_refill, a row that SQLite
\* advanced past its clock, answers that were lost.
RetryAfterHonoured ==
    [][\A r \in Requests : Take(r) /\ reqs[r] >= touched + Rate => admitted' = admitted + 1]_vars

-----------------------------------------------------------------------------
(* The inductive invariant behind WindowBound                               *)

\* The window has begun, and requests in flight captured the clock at most
\* MaxLag ago.
LagBounded ==
    /\ since <= clock
    /\ \A r \in Requests : reqs[r] # None => reqs[r] <= clock /\ clock <= reqs[r] + MaxLag

\* What the window may have admitted, and the tokens on hand, are paid for by
\* the burst, by the time up to last_refill and by less than one interval
\* carried into the window.
Paid(tokens, last_refill) ==
    (admitted + Spendable(tokens)) * Rate
        < Burst * Rate + (last_refill - since) + MaxLag + Rate

\* With the row deleted, what was admitted is paid for by time alone.
CreditBalance ==
    /\ bucket # None =>
          /\ bucket.last_refill <= clock + Epsilon
          /\ admitted > 0 => Paid(bucket.tokens, bucket.last_refill)
    /\ bucket = None /\ admitted > 0 =>
          admitted * Rate < (clock - since) + Rate

\* The inductive invariant of the limiter.
LimiterInv == TypeOK /\ LagBounded /\ CreditBalance

\* What a backend may be ahead of its clock.
Slack == IF Sqlite THEN Epsilon ELSE 0

\* The invariant behind RetryAfterHonoured: no refill is later than the statement it ran in,
\* but for SQLite's epsilon.
RefilledByStatement ==
    /\ touched <= clock
    /\ bucket # None => bucket.last_refill <= touched + Slack
=============================================================================
