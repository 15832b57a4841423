--------------------------- MODULE JobQueueProofs ---------------------------
(***************************************************************************)
(* Proofs about JobQueue for every number of workers, jobs and retries,     *)
(* every visibility timeout, backoff cap and clock skew, on both backends.  *)
(***************************************************************************)
EXTENDS JobQueue, FiniteSetTheorems, TLAPS

\* compute_retry_time adds at least one second and at most the cap, for every
\* retry count that still has budget.
LEMMA RetryDelayBounds ==
    ASSUME NEW r \in Nat, r < MaxRetries
    PROVE  /\ RetryDelay(r) \in Nat
           /\ 1 <= RetryDelay(r)
           /\ RetryDelay(r) <= MaxRetryDelay
<1>1. 2^r \in Nat \ {0}
  BY PowerAssumption, QueueAssumption
<1> QED
  BY <1>1, QueueAssumption DEF RetryDelay

-----------------------------------------------------------------------------
(* IndInv is inductive: the initial states, then one lemma per action.      *)

\* An empty table and runners that have not started satisfy the invariant.
LEMMA InitIndInv == Init => IndInv
  BY QueueAssumption
  DEF Init, IndInv, TypeOK, LocalsOK, LeasePaired, ClaimIsCurrent, LeaseKept,
      RetryBudget, NoStranding, Recoverable, Executing, Lease, NoRow, Between, Row, Worker

\* Time passing can only expire leases and make rows due.
LEMMA TickInv == IndInv /\ Tick => IndInv'
  BY QueueAssumption
  DEF Tick, IndInv, TypeOK, LocalsOK, LeasePaired, ClaimIsCurrent, LeaseKept,
      RetryBudget, NoStranding, Recoverable, Executing, Lease, Row, Worker

\* A runner that returns to its loop, or stops, without touching the table.
LEMMA StepAside ==
    ASSUME IndInv, NEW w \in Workers, NEW pc \in {"top", "poll", "stopped"},
           NEW last \in Nat \cup {None},
           workers' = [workers EXCEPT ![w] = Between(pc, last)],
           UNCHANGED <<clock, rows, effects>>
    PROVE  IndInv'
  BY QueueAssumption
  DEF IndInv, TypeOK, LocalsOK, LeasePaired, ClaimIsCurrent, LeaseKept,
      RetryBudget, NoStranding, Recoverable, Executing, Lease, Row, Worker, Between

\* Start, crash, shutdown, and every error or empty poll of run_once.
LEMMA ReturnInv ==
    ASSUME IndInv, NEW w \in Workers,
           \/ Start(w) \/ Stop(w)
           \/ ReserveEmpty(w) \/ ReserveError(w) \/ FinalizeError(w)
    PROVE  IndInv'
<1>1. workers[w].last_cleanup \in Nat \cup {None}
  BY DEF IndInv, TypeOK, Worker
<1> QED
  BY <1>1, StepAside DEF Start, Stop, ReserveEmpty, ReserveError, FinalizeError

\* The insertion of a fresh row, by a producer.
LEMMA EnqueueInv ==
    ASSUME IndInv, NEW j \in Jobs, NEW p \in Priorities, enqueue_job_on_queue(j, p)
    PROVE  IndInv'
  BY QueueAssumption
  DEF enqueue_job_on_queue, Inserted, Readings,
      IndInv, TypeOK, LocalsOK, LeasePaired, ClaimIsCurrent, LeaseKept,
      RetryBudget, NoStranding, Recoverable, Executing, Lease, Row, Worker

\* The scheduler step that inserts nothing.
LEMMA SchedulerInv ==
    ASSUME IndInv, NEW w \in Workers, SkipScheduled(w) \/ EnqueueScheduledError(w)
    PROVE  IndInv'
<1>1. PICK last \in Nat \cup {None} :
        /\ \A v \in Workers \ {w} : workers'[v] = workers[v]
        /\ workers'[w] = [pc |-> "poll", now |-> workers[w].now, job |-> workers[w].job,
                          retries |-> workers[w].retries, ended |-> workers[w].ended,
                          last_cleanup |-> last]
        /\ workers' = [workers EXCEPT ![w] = workers'[w]]
  <2>1. CASE SkipScheduled(w)
    BY <2>1 DEF SkipScheduled, IndInv, TypeOK, Worker
  <2>2. CASE EnqueueScheduledError(w)
    BY <2>2 DEF EnqueueScheduledError, IndInv, TypeOK, Worker
  <2> QED
    BY <2>1, <2>2
<1>2. workers' \in [Workers -> Worker]
  BY <1>1 DEF IndInv, TypeOK, Worker
<1>3. UNCHANGED <<clock, rows, effects>> /\ workers[w].pc = "top"
  BY DEF SkipScheduled, EnqueueScheduledError
<1> QED
  BY <1>1, <1>2, <1>3, QueueAssumption
  DEF IndInv, TypeOK, LocalsOK, LeasePaired, ClaimIsCurrent, LeaseKept,
      RetryBudget, NoStranding, Recoverable, Executing, Lease

\* The scheduler step that inserts the CleanupJob.
LEMMA EnqueueScheduledInv ==
    ASSUME IndInv, NEW w \in Workers, NEW j \in Jobs, EnqueueScheduled(w, j)
    PROVE  IndInv'
<1>1. PICK last \in {clock, None} :
          workers' = [workers EXCEPT ![w].pc = "poll", ![w].last_cleanup = last]
  BY DEF EnqueueScheduled
<1>2. PICK t \in Readings : Inserted(j, 0, t)
  BY DEF EnqueueScheduled
<1>3. /\ \A v \in Workers \ {w} : workers'[v] = workers[v]
      /\ workers'[w] = [pc |-> "poll", now |-> workers[w].now, job |-> workers[w].job,
                        retries |-> workers[w].retries, ended |-> workers[w].ended,
                        last_cleanup |-> last]
      /\ workers' = [workers EXCEPT ![w] = workers'[w]]
  BY <1>1 DEF IndInv, TypeOK, Worker
<1>4. workers' \in [Workers -> Worker]
  BY <1>3, QueueAssumption DEF IndInv, TypeOK, Worker
<1>5. /\ UNCHANGED <<clock, effects>>
      /\ workers[w].pc = "top"
      /\ t \in Nat /\ t <= clock + MaxSkew
  BY QueueAssumption DEF EnqueueScheduled, Readings, IndInv, TypeOK
<1> QED
  BY <1>2, <1>3, <1>4, <1>5, QueueAssumption
  DEF Inserted, Row, IndInv, TypeOK, LocalsOK, LeasePaired, ClaimIsCurrent, LeaseKept,
      RetryBudget, NoStranding, Recoverable, Executing, Lease

\* Reading the clock at the top of run_once.
LEMMA PollInv ==
    ASSUME IndInv, NEW w \in Workers, Poll(w)
    PROVE  IndInv'
<1>1. PICK t \in Readings : workers' = [workers EXCEPT ![w].pc = "reserve", ![w].now = t]
  BY DEF Poll
<1>2. /\ \A v \in Workers \ {w} : workers'[v] = workers[v]
      /\ workers'[w] = [pc |-> "reserve", now |-> t, job |-> workers[w].job,
                        retries |-> workers[w].retries, ended |-> workers[w].ended,
                        last_cleanup |-> workers[w].last_cleanup]
      /\ workers' = [workers EXCEPT ![w] = workers'[w]]
  BY <1>1 DEF IndInv, TypeOK, Worker
<1>3. workers' \in [Workers -> Worker]
  BY <1>2, QueueAssumption DEF IndInv, TypeOK, Worker, Readings
<1>4. UNCHANGED <<clock, rows, effects>> /\ t \in Nat /\ t <= clock + MaxSkew
  BY QueueAssumption DEF Poll, Readings, IndInv, TypeOK
<1> QED
  BY <1>2, <1>3, <1>4, QueueAssumption
  DEF IndInv, TypeOK, LocalsOK, LeasePaired, ClaimIsCurrent, LeaseKept,
      RetryBudget, NoStranding, Recoverable, Executing, Lease

\* The handler returns Ok.
LEMMA HandlerOkInv ==
    ASSUME IndInv, NEW w \in Workers, HandlerOk(w)
    PROVE  IndInv'
<1>1. /\ \A v \in Workers \ {w} : workers'[v] = workers[v]
      /\ workers'[w] = [pc |-> "succeeded", now |-> workers[w].now, job |-> workers[w].job,
                        retries |-> workers[w].retries, ended |-> workers[w].ended,
                        last_cleanup |-> workers[w].last_cleanup]
      /\ workers' = [workers EXCEPT ![w] = workers'[w]]
  BY DEF HandlerOk, IndInv, TypeOK, Worker
<1>2. workers' \in [Workers -> Worker]
  BY <1>1 DEF IndInv, TypeOK, Worker
<1>3. /\ UNCHANGED <<clock, rows>>
      /\ effects' = effects \cup {workers[w].job}
      /\ workers[w].pc = "run"
  BY DEF HandlerOk
<1> QED
  BY <1>1, <1>2, <1>3, QueueAssumption
  DEF IndInv, TypeOK, LocalsOK, LeasePaired, ClaimIsCurrent, LeaseKept,
      RetryBudget, NoStranding, Recoverable, Executing, Lease

\* The handler fails.
LEMMA HandlerErrInv ==
    ASSUME IndInv, NEW w \in Workers, HandlerErr(w)
    PROVE  IndInv'
<1>1. PICK t \in Readings : workers' = [workers EXCEPT ![w].pc = "failed", ![w].ended = t]
  BY DEF HandlerErr
<1>2. /\ \A v \in Workers \ {w} : workers'[v] = workers[v]
      /\ workers'[w] = [pc |-> "failed", now |-> workers[w].now, job |-> workers[w].job,
                        retries |-> workers[w].retries, ended |-> t,
                        last_cleanup |-> workers[w].last_cleanup]
      /\ workers' = [workers EXCEPT ![w] = workers'[w]]
  BY <1>1 DEF IndInv, TypeOK, Worker
<1>3. workers' \in [Workers -> Worker]
  BY <1>2, QueueAssumption DEF IndInv, TypeOK, Worker, Readings
<1>4. /\ UNCHANGED <<clock, rows, effects>> /\ t \in Nat /\ t <= clock + MaxSkew
      /\ workers[w].pc = "run"
  BY QueueAssumption DEF HandlerErr, Readings, IndInv, TypeOK
<1> QED
  BY <1>2, <1>3, <1>4, QueueAssumption
  DEF IndInv, TypeOK, LocalsOK, LeasePaired, ClaimIsCurrent, LeaseKept,
      RetryBudget, NoStranding, Recoverable, Executing, Lease

\* Whatever rows SKIP LOCKED hides, the row that is claimed satisfies the
\* claim predicate.
LEMMA VisibleClaimable ==
    ASSUME NEW w \in Workers, NEW j \in Jobs,
           \E held \in RowLocks(w) : j \in First(Visible(w, held))
    PROVE  j \in Claimable(workers[w].now)
  BY DEF First, Visible

\* What the claim predicate says of the row, in terms of the invariant: it is
\* live with budget left, and if it is leased then that lease has run out.
LEMMA ClaimedRow ==
    ASSUME IndInv, NEW w \in Workers, NEW j \in Jobs, workers[w].pc = "reserve",
           j \in Claimable(workers[w].now)
    PROVE  /\ rows[j].status = "live"
           /\ rows[j].retries < MaxRetries
           /\ rows[j].locked_by # None => rows[j].locked_until < clock + MaxSkew
  BY QueueAssumption
  DEF Claimable, IndInv, TypeOK, LocalsOK, LeasePaired, RetryBudget, Row, Worker

\* The row after the UPDATE of the reservation.
LEMMA LeasedRow ==
    ASSUME IndInv, NEW w \in Workers, NEW j \in Jobs, Leased(w, j)
    PROVE  /\ rows' \in [Jobs -> Row]
           /\ \A i \in Jobs \ {j} : rows'[i] = rows[i]
           /\ rows'[j] = [status |-> rows[j].status, retries |-> rows[j].retries,
                          priority |-> rows[j].priority, run_at |-> rows[j].run_at,
                          created_at |-> rows[j].created_at,
                          locked_until |-> Lease(w), locked_by |-> w]
<1>1. /\ \A i \in Jobs \ {j} : rows'[i] = rows[i]
      /\ rows'[j] = [status |-> rows[j].status, retries |-> rows[j].retries,
                     priority |-> rows[j].priority, run_at |-> rows[j].run_at,
                     created_at |-> rows[j].created_at, locked_until |-> Lease(w),
                     locked_by |-> w]
      /\ rows' = [rows EXCEPT ![j] = rows'[j]]
  BY DEF Leased, IndInv, TypeOK, Row
<1>2. Lease(w) \in Nat
  BY QueueAssumption DEF Lease, IndInv, TypeOK, Worker
<1> QED
  BY <1>1, <1>2 DEF IndInv, TypeOK, Row

\* Writing the lease: an unexpired lease of another worker fails the claim
\* predicate, so the row was free or its lease has run out.
LEMMA ReserveInv ==
    ASSUME IndInv, NEW w \in Workers, NEW j \in Jobs, Reserve(w, j)
    PROVE  IndInv'
<1>1. /\ rows[j].status = "live"
      /\ rows[j].retries < MaxRetries
      /\ rows[j].locked_by # None => rows[j].locked_until < clock + MaxSkew
  BY VisibleClaimable, ClaimedRow DEF Reserve
<1>2. /\ \A v \in Workers \ {w} : workers'[v] = workers[v]
      /\ workers'[w] = [pc |-> "run", now |-> workers[w].now, job |-> j,
                        retries |-> rows[j].retries, ended |-> workers[w].ended,
                        last_cleanup |-> workers[w].last_cleanup]
      /\ workers' = [workers EXCEPT ![w] = workers'[w]]
  BY DEF Reserve, IndInv, TypeOK, Worker
<1>3. workers' \in [Workers -> Worker]
  BY <1>2 DEF IndInv, TypeOK, Worker, Row
<1>4. /\ rows' \in [Jobs -> Row]
      /\ \A i \in Jobs \ {j} : rows'[i] = rows[i]
      /\ rows'[j] = [status |-> rows[j].status, retries |-> rows[j].retries,
                     priority |-> rows[j].priority, run_at |-> rows[j].run_at,
                     created_at |-> rows[j].created_at,
                     locked_until |-> Lease(w), locked_by |-> w]
  BY LeasedRow DEF Reserve
<1>5. UNCHANGED <<clock, effects>> /\ workers[w].pc = "reserve"
  BY DEF Reserve
<1>6. TypeOK'
  BY <1>3, <1>4, <1>5 DEF IndInv, TypeOK
<1>7. /\ LocalsOK'
      /\ LeasePaired' /\ RetryBudget'
      /\ NoStranding'
  <2>1. LocalsOK'
    BY <1>1, <1>2, <1>4, <1>5 DEF IndInv, LocalsOK, Executing
  <2>2. Lease(w) \in Nat /\ Lease(w) <= clock + MaxSkew + Visibility
    BY <1>5, QueueAssumption DEF IndInv, TypeOK, LocalsOK, Lease, Worker
  <2>3. LeasePaired' /\ RetryBudget'
    BY <1>1, <1>4, <1>6, <2>2, QueueAssumption DEF IndInv, TypeOK, LeasePaired, RetryBudget
  <2>4. NoStranding'
    <3> SUFFICES ASSUME NEW i \in Jobs, rows'[i].status = "live"
                 PROVE  Recoverable(i)'
      BY DEF NoStranding
    <3>1. CASE i = j
      BY <1>4, <1>5, <1>6, <2>2, <3>1, QueueAssumption DEF Recoverable
    <3>2. CASE i # j
      BY <1>4, <1>5, <1>6, <3>2, QueueAssumption DEF IndInv, NoStranding, Recoverable
    <3> QED
      BY <3>1, <3>2
  <2> QED
    BY <2>1, <2>3, <2>4
<1>8. ClaimIsCurrent'
  <2> SUFFICES ASSUME NEW v \in Workers, Executing(v)',
                      rows'[workers'[v].job].locked_by = v
               PROVE  /\ rows'[workers'[v].job].locked_until = Lease(v)'
                      /\ rows'[workers'[v].job].retries = workers'[v].retries
    BY DEF ClaimIsCurrent
  <2>1. CASE v = w
    BY <1>2, <1>4, <2>1 DEF Lease
  <2>2. CASE v # w
    BY <1>2, <1>4, <2>2 DEF IndInv, LocalsOK, ClaimIsCurrent, Executing, Lease
  <2> QED
    BY <2>1, <2>2
<1>9. LeaseKept'
  BY <1>1, <1>2, <1>4, <1>5, QueueAssumption
  DEF IndInv, TypeOK, LocalsOK, ClaimIsCurrent, LeaseKept, Executing, Lease, Worker, Row
<1> QED
  BY <1>6, <1>7, <1>8, <1>9 DEF IndInv

\* The same reservation when its acknowledgement is lost.
LEMMA ReserveUnacknowledgedInv ==
    ASSUME IndInv, NEW w \in Workers, NEW j \in Jobs, ReserveUnacknowledged(w, j)
    PROVE  IndInv'
<1>1. /\ rows[j].status = "live"
      /\ rows[j].retries < MaxRetries
      /\ rows[j].locked_by # None => rows[j].locked_until < clock + MaxSkew
  BY VisibleClaimable, ClaimedRow DEF ReserveUnacknowledged
<1>2. workers' = [workers EXCEPT ![w] = Between("top", workers[w].last_cleanup)]
  BY DEF ReserveUnacknowledged
<1>3. /\ rows' \in [Jobs -> Row]
      /\ \A i \in Jobs \ {j} : rows'[i] = rows[i]
      /\ rows'[j] = [status |-> rows[j].status, retries |-> rows[j].retries,
                     priority |-> rows[j].priority, run_at |-> rows[j].run_at,
                     created_at |-> rows[j].created_at,
                     locked_until |-> Lease(w), locked_by |-> w]
  BY LeasedRow DEF ReserveUnacknowledged
<1>4. UNCHANGED <<clock, effects>> /\ workers[w].pc = "reserve"
  BY DEF ReserveUnacknowledged
<1>5. TypeOK'
  BY <1>2, <1>3, <1>4, QueueAssumption DEF IndInv, TypeOK, Between, Worker
<1>6. /\ LocalsOK'
      /\ LeasePaired' /\ RetryBudget'
      /\ NoStranding'
  <2>1. LocalsOK'
    BY <1>1, <1>2, <1>3, <1>4 DEF IndInv, TypeOK, LocalsOK, Executing, Between
  <2>2. Lease(w) \in Nat /\ Lease(w) <= clock + MaxSkew + Visibility
    BY <1>4, QueueAssumption DEF IndInv, TypeOK, LocalsOK, Lease, Worker
  <2>3. LeasePaired' /\ RetryBudget'
    BY <1>1, <1>3, <1>5, <2>2, QueueAssumption DEF IndInv, TypeOK, LeasePaired, RetryBudget
  <2>4. NoStranding'
    <3> SUFFICES ASSUME NEW i \in Jobs, rows'[i].status = "live"
                 PROVE  Recoverable(i)'
      BY DEF NoStranding
    <3>1. CASE i = j
      BY <1>3, <1>4, <1>5, <2>2, <3>1, QueueAssumption DEF Recoverable
    <3>2. CASE i # j
      BY <1>3, <1>4, <1>5, <3>2, QueueAssumption DEF IndInv, NoStranding, Recoverable
    <3> QED
      BY <3>1, <3>2
  <2> QED
    BY <2>1, <2>3, <2>4
<1>7. ClaimIsCurrent' /\ LeaseKept'
  BY <1>1, <1>2, <1>3, <1>4, QueueAssumption
  DEF IndInv, TypeOK, LocalsOK, ClaimIsCurrent, LeaseKept, Executing, Lease, Between, Worker, Row
<1> QED
  BY <1>5, <1>6, <1>7 DEF IndInv

\* A finalizing statement that matches no row changes nothing but the runner.
LEMMA FinalizeMiss ==
    ASSUME IndInv, NEW w \in Workers, Finalize(w), ~StillMine(w)
    PROVE  IndInv'
<1>1. workers[w].last_cleanup \in Nat \cup {None}
  BY DEF IndInv, TypeOK, Worker
<1>2. UNCHANGED rows
  BY DEF Finalize, delete_job, mark_job_dead, update_job
<1> QED
  BY <1>1, <1>2, StepAside DEF Finalize

\* The row after a finalizing statement that matched it: gone, or live or dead
\* with one more failure counted and no lease, and in any case recoverable.
LEMMA FinalizedRow ==
    ASSUME IndInv, NEW w \in Workers, Finalize(w), StillMine(w)
    PROVE  LET j == workers[w].job
           IN  /\ j \in Jobs
               /\ rows' \in [Jobs -> Row]
               /\ \A i \in Jobs \ {j} : rows'[i] = rows[i]
               /\ rows'[j].locked_by = None /\ rows'[j].locked_until = None
               /\ \/ rows'[j].status = "gone"
                  \/ rows'[j].status = "dead" /\ rows'[j].retries = MaxRetries
                  \/ /\ rows'[j].status = "live"
                     /\ rows'[j].retries < MaxRetries
                     /\ rows'[j].run_at <= clock + MaxSkew + MaxRetryDelay
<1> DEFINE j == workers[w].job
<1>1. /\ j \in Jobs /\ rows[j] \in Row /\ workers[w].retries \in Nat
      /\ workers[w].ended \in Nat /\ clock \in Nat
      /\ rows[j].status = "live"
      /\ rows[j].retries = workers[w].retries /\ rows[j].retries < MaxRetries
  BY QueueAssumption
  DEF Finalize, StillMine, IndInv, TypeOK, LocalsOK, LeasePaired, ClaimIsCurrent,
      RetryBudget, Executing, Worker
<1>2. CASE workers[w].pc = "succeeded" /\ delete_job(w)
  BY <1>1, <1>2 DEF delete_job, StillMine, NoRow, IndInv, TypeOK, Row
<1>3. CASE workers[w].pc = "failed" /\ Exhausted(w) /\ mark_job_dead(w)
  <2>1. rows' = [rows EXCEPT ![j].status = "dead", ![j].retries = @ + 1,
                             ![j].locked_until = None, ![j].locked_by = None]
    BY <1>3 DEF mark_job_dead, StillMine
  <2>2. /\ \A i \in Jobs \ {j} : rows'[i] = rows[i]
        /\ rows'[j] = [status |-> "dead", retries |-> rows[j].retries + 1,
                       priority |-> rows[j].priority, run_at |-> rows[j].run_at,
                       created_at |-> rows[j].created_at,
                       locked_until |-> None, locked_by |-> None]
        /\ rows' = [rows EXCEPT ![j] = rows'[j]]
    BY <1>1, <2>1 DEF IndInv, TypeOK, Row
  <2>3. rows[j].retries + 1 = MaxRetries
    BY <1>1, <1>3, QueueAssumption DEF Exhausted
  <2> QED
    BY <1>1, <2>2, <2>3, QueueAssumption DEF IndInv, TypeOK, Row
<1>4. CASE workers[w].pc = "failed" /\ ~Exhausted(w) /\ update_job(w)
  <2> DEFINE t == compute_retry_time(workers[w].ended, workers[w].retries)
  <2>1. t \in Nat /\ t <= clock + MaxSkew + MaxRetryDelay
    <3>1. /\ RetryDelay(workers[w].retries) \in Nat
          /\ RetryDelay(workers[w].retries) <= MaxRetryDelay
      BY <1>1, RetryDelayBounds
    <3>2. workers[w].ended <= clock + MaxSkew
      BY <1>4 DEF IndInv, LocalsOK
    <3> QED
      BY <1>1, <3>1, <3>2, QueueAssumption DEF compute_retry_time
  <2>2. rows' = [rows EXCEPT ![j].retries = @ + 1, ![j].run_at = t,
                             ![j].locked_until = None, ![j].locked_by = None]
    BY <1>4 DEF update_job, StillMine
  <2> HIDE DEF t
  <2>3. /\ \A i \in Jobs \ {j} : rows'[i] = rows[i]
        /\ rows'[j] = [status |-> rows[j].status, retries |-> rows[j].retries + 1,
                       priority |-> rows[j].priority, run_at |-> t,
                       created_at |-> rows[j].created_at,
                       locked_until |-> None, locked_by |-> None]
        /\ rows' = [rows EXCEPT ![j] = rows'[j]]
    BY <1>1, <2>2 DEF IndInv, TypeOK, Row
  <2>4. rows[j].retries + 1 < MaxRetries
    BY <1>1, <1>4, QueueAssumption DEF Exhausted
  <2> QED
    BY <1>1, <2>1, <2>3, <2>4, QueueAssumption DEF IndInv, TypeOK, Row
<1> QED
  BY <1>2, <1>3, <1>4 DEF Finalize

\* Finalization: guarded by locked_by, it changes the row only while the claim
\* is current, so the snapshot of retries it decides on is the row's.
LEMMA FinalizeInv ==
    ASSUME IndInv, NEW w \in Workers, Finalize(w)
    PROVE  IndInv'
<1>1. CASE ~StillMine(w)
  BY <1>1, FinalizeMiss
<1>2. CASE StillMine(w)
  <2> DEFINE j == workers[w].job
  <2>1. /\ j \in Jobs
        /\ rows' \in [Jobs -> Row]
        /\ \A i \in Jobs \ {j} : rows'[i] = rows[i]
        /\ rows'[j].locked_by = None /\ rows'[j].locked_until = None
        /\ \/ rows'[j].status = "gone"
           \/ rows'[j].status = "dead" /\ rows'[j].retries = MaxRetries
           \/ /\ rows'[j].status = "live"
              /\ rows'[j].retries < MaxRetries
              /\ rows'[j].run_at <= clock + MaxSkew + MaxRetryDelay
    BY <1>2, FinalizedRow
  <2>2. rows[j].locked_by = w
    BY <1>2 DEF StillMine
  <2> HIDE DEF j
  <2>3. workers' = [workers EXCEPT ![w] = Between("top", workers[w].last_cleanup)]
    BY DEF Finalize
  <2>4. UNCHANGED <<clock, effects>>
    BY DEF Finalize
  <2>5. TypeOK'
    BY <2>1, <2>3, <2>4, QueueAssumption DEF IndInv, TypeOK, Between, Worker
  <2>6. LocalsOK'
    BY <2>1, <2>3, <2>4 DEF IndInv, TypeOK, LocalsOK, Executing, Between
  <2>7. LeasePaired' /\ RetryBudget'
    BY <2>1 DEF IndInv, LeasePaired, RetryBudget
  <2>8. ClaimIsCurrent' /\ LeaseKept'
    BY <2>1, <2>2, <2>3, <2>4, QueueAssumption
    DEF IndInv, TypeOK, LocalsOK, ClaimIsCurrent, LeaseKept, Executing, Lease, Between
  <2>9. NoStranding'
    BY <2>1, <2>4 DEF IndInv, NoStranding, Recoverable
  <2> QED
    BY <2>5, <2>6, <2>7, <2>8, <2>9 DEF IndInv
<1> QED
  BY <1>1, <1>2

\* Every step of the queue, and every stuttering step, keeps the invariant.
LEMMA NextIndInv == IndInv /\ [Next]_vars => IndInv'
<1> SUFFICES ASSUME IndInv, [Next]_vars
             PROVE  IndInv'
  OBVIOUS
<1>1. CASE UNCHANGED vars
  BY <1>1
  DEF vars, IndInv, TypeOK, LocalsOK, LeasePaired, ClaimIsCurrent, LeaseKept,
      RetryBudget, NoStranding, Recoverable, Executing, Lease
<1>2. CASE Tick
  BY <1>2, TickInv
<1>3. CASE \E j \in Jobs, p \in Priorities : enqueue_job_on_queue(j, p)
  BY <1>3, EnqueueInv
<1>4. ASSUME NEW w \in Workers,
             \/ Start(w) \/ Stop(w)
             \/ ReserveEmpty(w) \/ ReserveError(w) \/ FinalizeError(w)
      PROVE  IndInv'
  BY <1>4, ReturnInv
<1>5. ASSUME NEW w \in Workers, SkipScheduled(w) \/ EnqueueScheduledError(w)
      PROVE  IndInv'
  BY <1>5, SchedulerInv
<1>6. ASSUME NEW w \in Workers, Poll(w) \/ HandlerOk(w) \/ HandlerErr(w) \/ Finalize(w)
      PROVE  IndInv'
  BY <1>6, PollInv, HandlerOkInv, HandlerErrInv, FinalizeInv
<1>7. ASSUME NEW w \in Workers, NEW j \in Jobs,
             EnqueueScheduled(w, j) \/ Reserve(w, j) \/ ReserveUnacknowledged(w, j)
      PROVE  IndInv'
  BY <1>7, EnqueueScheduledInv, ReserveInv, ReserveUnacknowledgedInv
<1> QED
  BY <1>1, <1>2, <1>3, <1>4, <1>5, <1>6, <1>7 DEF Next

-----------------------------------------------------------------------------
(* The theorems                                                             *)

\* The inductive invariant holds in every reachable state.
THEOREM IndInvHolds == Spec => []IndInv
  BY InitIndInv, NextIndInv, PTL DEF Spec

\* Every column of background_jobs and every local of a runner keeps its type.
THEOREM TypeCorrect == Spec => []TypeOK
  BY IndInvHolds, PTL DEF IndInv

\* An unexpired lease is never lost: runner.rs claims, finalizes, crashes and
\* errors of other workers leave the row with the worker that leased it.
THEOREM LeasesAreHonored == Spec => []LeaseHonored
<1>1. IndInv => LeaseHonored
  BY QueueAssumption
  DEF IndInv, TypeOK, LocalsOK, LeasePaired, ClaimIsCurrent, LeaseKept, LeaseHonored
<1> QED
  BY <1>1, IndInvHolds, PTL

\* The dead-or-reschedule decision of run_once spends the retry budget exactly,
\* although it is taken on the retries read at claim time.
THEOREM RetryBudgetIsExact == Spec => []RetryBudget
  BY IndInvHolds, PTL DEF IndInv

\* Whatever crashes or fails between claim and finalization, a live row becomes
\* claimable again within one visibility timeout or one capped backoff.
THEOREM NothingIsStranded == Spec => []NoStranding
  BY IndInvHolds, PTL DEF IndInv

-----------------------------------------------------------------------------
(* What a step may do to the table                                          *)

\* How one step changes one row: not at all, an insertion, a lease on a live
\* row, or a finalization by the worker the row is leased to.
RowStep(j) ==
    \/ rows'[j] = rows[j]
    \/ /\ rows[j].status = "unborn" /\ rows[j].retries = 0
       /\ rows'[j].status = "live" /\ rows'[j].retries = 0
    \/ /\ rows[j].status = "live"
       /\ rows'[j].status = "live" /\ rows'[j].retries = rows[j].retries
    \/ /\ rows[j].status = "live" /\ j \in effects
       /\ rows'[j].status = "gone" /\ rows'[j].retries = 0
    \/ /\ rows[j].status = "live" /\ rows[j].retries + 1 = MaxRetries
       /\ rows'[j].status = "dead" /\ rows'[j].retries = MaxRetries
    \/ /\ rows[j].status = "live" /\ rows[j].retries + 1 < MaxRetries
       /\ rows'[j].status = "live" /\ rows'[j].retries = rows[j].retries + 1

\* An insertion changes one fresh row.
LEMMA InsertedStep ==
    ASSUME IndInv, NEW j \in Jobs, NEW p, NEW t, Inserted(j, p, t)
    PROVE  RowStep(j) /\ \A i \in Jobs \ {j} : rows'[i] = rows[i]
  BY DEF Inserted, RowStep, IndInv, TypeOK, LeasePaired

\* A reservation changes only the lease of one live row.
LEMMA ReservedStep ==
    ASSUME IndInv, NEW w \in Workers, NEW j \in Jobs,
           Reserve(w, j) \/ ReserveUnacknowledged(w, j)
    PROVE  RowStep(j) /\ \A i \in Jobs \ {j} : rows'[i] = rows[i]
<1>1. j \in Claimable(workers[w].now) /\ Leased(w, j)
  BY VisibleClaimable DEF Reserve, ReserveUnacknowledged
<1>2. /\ \A i \in Jobs \ {j} : rows'[i] = rows[i]
      /\ rows'[j] = [status |-> rows[j].status, retries |-> rows[j].retries,
                     priority |-> rows[j].priority, run_at |-> rows[j].run_at,
                     created_at |-> rows[j].created_at,
                     locked_until |-> Lease(w), locked_by |-> w]
  BY <1>1, LeasedRow
<1>3. rows[j].status = "live"
  BY <1>1 DEF Claimable
<1> QED
  BY <1>2, <1>3 DEF RowStep

\* A finalization changes at most the row of the claim, and counts exactly.
LEMMA FinalizedStep ==
    ASSUME IndInv, NEW w \in Workers, Finalize(w)
    PROVE  LET j == workers[w].job
           IN  j \in Jobs /\ RowStep(j) /\ \A i \in Jobs \ {j} : rows'[i] = rows[i]
<1> DEFINE j == workers[w].job
<1>1. j \in Jobs
  BY DEF Finalize, IndInv, LocalsOK, Executing
<1>2. CASE ~StillMine(w)
  BY <1>1, <1>2 DEF Finalize, delete_job, mark_job_dead, update_job, RowStep
<1>3. CASE StillMine(w)
  <2>1. /\ rows[j] \in Row /\ workers[w].retries \in Nat
        /\ rows[j].status = "live"
        /\ rows[j].retries = workers[w].retries /\ rows[j].retries < MaxRetries
        /\ workers[w].pc = "succeeded" => j \in effects
    BY <1>1, <1>3, QueueAssumption
    DEF Finalize, StillMine, IndInv, TypeOK, LocalsOK, LeasePaired, ClaimIsCurrent,
        RetryBudget, Executing, Worker
  <2>2. CASE workers[w].pc = "succeeded" /\ delete_job(w)
    BY <1>1, <1>3, <2>1, <2>2 DEF delete_job, NoRow, RowStep, IndInv, TypeOK
  <2>3. CASE workers[w].pc = "failed" /\ Exhausted(w) /\ mark_job_dead(w)
    <3>1. rows' = [rows EXCEPT ![j].status = "dead", ![j].retries = @ + 1,
                               ![j].locked_until = None, ![j].locked_by = None]
      BY <1>3, <2>3 DEF mark_job_dead
    <3>2. /\ \A i \in Jobs \ {j} : rows'[i] = rows[i]
          /\ rows'[j].status = "dead" /\ rows'[j].retries = rows[j].retries + 1
      BY <1>1, <3>1 DEF IndInv, TypeOK, Row
    <3>3. rows[j].retries + 1 = MaxRetries
      BY <2>1, <2>3, QueueAssumption DEF Exhausted
    <3> QED
      BY <1>1, <2>1, <3>2, <3>3 DEF RowStep
  <2>4. CASE workers[w].pc = "failed" /\ ~Exhausted(w) /\ update_job(w)
    <3> DEFINE t == compute_retry_time(workers[w].ended, workers[w].retries)
    <3>1. rows' = [rows EXCEPT ![j].retries = @ + 1, ![j].run_at = t,
                               ![j].locked_until = None, ![j].locked_by = None]
      BY <1>3, <2>4 DEF update_job
    <3> HIDE DEF t
    <3>2. /\ \A i \in Jobs \ {j} : rows'[i] = rows[i]
          /\ rows'[j].status = rows[j].status /\ rows'[j].retries = rows[j].retries + 1
      BY <1>1, <3>1 DEF IndInv, TypeOK, Row
    <3>3. rows[j].retries + 1 < MaxRetries
      BY <2>1, <2>4, QueueAssumption DEF Exhausted
    <3> QED
      BY <1>1, <2>1, <3>2, <3>3 DEF RowStep
  <2> QED
    BY <2>2, <2>3, <2>4 DEF Finalize
<1> QED
  BY <1>1, <1>2, <1>3

\* Every step changes at most one row, in one of the ways of RowStep, and adds
\* to the effects only when it leaves the table alone.
LEMMA TableStep ==
    ASSUME IndInv, [Next]_vars
    PROVE  \/ UNCHANGED <<rows, effects>>
           \/ UNCHANGED rows /\ \E w \in Workers : HandlerOk(w)
           \/ /\ UNCHANGED effects
              /\ \E j \in Jobs : RowStep(j) /\ \A i \in Jobs \ {j} : rows'[i] = rows[i]
<1>1. CASE UNCHANGED vars
  BY <1>1 DEF vars
<1>2. CASE Tick
  BY <1>2 DEF Tick
<1>3. ASSUME NEW j \in Jobs, NEW p \in Priorities, enqueue_job_on_queue(j, p)
      PROVE  /\ UNCHANGED effects
             /\ RowStep(j) /\ \A i \in Jobs \ {j} : rows'[i] = rows[i]
  BY <1>3, InsertedStep DEF enqueue_job_on_queue
<1>4. ASSUME NEW w \in Workers, NEW j \in Jobs, EnqueueScheduled(w, j)
      PROVE  /\ UNCHANGED effects
             /\ RowStep(j) /\ \A i \in Jobs \ {j} : rows'[i] = rows[i]
  BY <1>4, InsertedStep DEF EnqueueScheduled
<1>5. ASSUME NEW w \in Workers, NEW j \in Jobs,
             Reserve(w, j) \/ ReserveUnacknowledged(w, j)
      PROVE  /\ UNCHANGED effects
             /\ RowStep(j) /\ \A i \in Jobs \ {j} : rows'[i] = rows[i]
  BY <1>5, ReservedStep DEF Reserve, ReserveUnacknowledged
<1>6. ASSUME NEW w \in Workers, Finalize(w)
      PROVE  /\ UNCHANGED effects
             /\ \E j \in Jobs : RowStep(j) /\ \A i \in Jobs \ {j} : rows'[i] = rows[i]
  BY <1>6, FinalizedStep DEF Finalize
<1>7. ASSUME NEW w \in Workers,
             \/ Start(w) \/ SkipScheduled(w) \/ EnqueueScheduledError(w)
             \/ Poll(w) \/ ReserveEmpty(w) \/ ReserveError(w)
             \/ HandlerErr(w) \/ FinalizeError(w) \/ Stop(w)
      PROVE  UNCHANGED <<rows, effects>>
  BY <1>7
  DEF Start, SkipScheduled, EnqueueScheduledError, Poll, ReserveEmpty, ReserveError,
      HandlerErr, FinalizeError, Stop
<1>8. ASSUME NEW w \in Workers, HandlerOk(w)
      PROVE  UNCHANGED rows
  BY <1>8 DEF HandlerOk
<1> QED
  BY <1>1, <1>2, <1>3, <1>4, <1>5, <1>6, <1>7, <1>8 DEF Next

\* A dead or deleted row is never changed again, whoever still runs an older
\* claim on it.
THEOREM SettledRowsStay == Spec => SettledForever
<1>1. IndInv /\ [Next]_vars =>
        [\A j \in Jobs : rows[j].status \in {"dead", "gone"} => rows'[j] = rows[j]]_vars
  BY TableStep DEF RowStep
<1> QED
  BY <1>1, IndInvHolds, PTL DEF Spec, SettledForever

\* runner.rs implements at-least-once delivery with an exact failure count: each
\* step of the queue is a step of the ledger or leaves it unchanged.
THEOREM QueueImplementsLedger == Spec => AtLeastOnce
<1> DEFINE led == [j \in Jobs |-> [status |-> rows[j].status, failures |-> rows[j].retries]]
<1>1. Init => Ledger!Init
  BY DEF Init, NoRow, Ledger!Init, Ledger!Entry
<1>2. IndInv /\ [Next]_vars => [Ledger!Next]_<<led, effects>>
  <2> SUFFICES ASSUME IndInv, [Next]_vars
               PROVE  Ledger!Next \/ UNCHANGED <<led, effects>>
    OBVIOUS
  <2>1. CASE UNCHANGED <<rows, effects>>
    BY <2>1
  <2>2. CASE UNCHANGED rows /\ \E w \in Workers : HandlerOk(w)
    <3>1. PICK w \in Workers : HandlerOk(w)
      BY <2>2
    <3>2. workers[w].job \in Jobs /\ rows[workers[w].job].status # "unborn"
      BY <3>1 DEF HandlerOk, IndInv, LocalsOK, Executing
    <3>3. Ledger!Deliver(workers[w].job)
      BY <2>2, <3>1, <3>2 DEF HandlerOk, Ledger!Deliver
    <3> QED
      BY <3>2, <3>3 DEF Ledger!Next
  <2>3. ASSUME UNCHANGED effects, NEW j \in Jobs, RowStep(j),
               \A i \in Jobs \ {j} : rows'[i] = rows[i]
        PROVE  Ledger!Next \/ UNCHANGED <<led, effects>>
    <3>1. led' = [led EXCEPT ![j] = [status |-> rows'[j].status, failures |-> rows'[j].retries]]
      BY <2>3
    <3>2. led[j] = [status |-> rows[j].status, failures |-> rows[j].retries]
      OBVIOUS
    <3>3. CASE rows'[j].status = rows[j].status /\ rows'[j].retries = rows[j].retries
      BY <2>3, <3>1, <3>2, <3>3
    <3> HIDE DEF led
    <3>4. CASE rows[j].status = "unborn" /\ rows[j].retries = 0
                 /\ rows'[j].status = "live" /\ rows'[j].retries = 0
      BY <2>3, <3>1, <3>2, <3>4 DEF Ledger!Next, Ledger!Enqueue, Ledger!Entry, led
    <3>5. CASE rows[j].status = "live" /\ j \in effects
                 /\ rows'[j].status = "gone" /\ rows'[j].retries = 0
      BY <2>3, <3>1, <3>2, <3>5 DEF Ledger!Next, Ledger!Complete, Ledger!Entry, led
    <3>6. CASE rows[j].status = "live" /\ rows[j].retries + 1 = MaxRetries
                 /\ rows'[j].status = "dead" /\ rows'[j].retries = MaxRetries
      BY <2>3, <3>1, <3>2, <3>6 DEF Ledger!Next, Ledger!Bury, Ledger!Entry, led
    <3>7. CASE rows[j].status = "live" /\ rows[j].retries + 1 < MaxRetries
                 /\ rows'[j].status = "live" /\ rows'[j].retries = rows[j].retries + 1
      BY <2>3, <3>1, <3>2, <3>7 DEF Ledger!Next, Ledger!CountFailure, Ledger!Entry, led
    <3> QED
      BY <2>3, <3>3, <3>4, <3>5, <3>6, <3>7 DEF RowStep
  <2> QED
    BY <2>1, <2>2, <2>3, TableStep
<1> QED
  BY <1>1, <1>2, IndInvHolds, PTL DEF Spec, AtLeastOnce, Ledger!Spec

-----------------------------------------------------------------------------
(* The backoff.  TotalBackoff is defined by recursion, so that it is what    *)
(* its definition says is proved first, by induction up to MaxRetries.      *)

\* Induction up to N: a set with 0 and the successors of its members misses none.  The
\* members below one that is missing would be as many as those of them that are not 0.
LEMMA UpTo ==
    ASSUME NEW N \in Nat, NEW S, 0 \in S, \A n \in 0 .. N - 1 : n \in S => n + 1 \in S
    PROVE  0 .. N \subseteq S
<1> SUFFICES ASSUME NEW m \in 0 .. N, m \notin S PROVE FALSE
  OBVIOUS
<1> DEFINE T == {i \in 0 .. m : i \in S}
           f == [i \in T |-> i + 1]
<1>1. m \in Nat /\ m <= N /\ m # 0
  OBVIOUS
<1>2. IsFiniteSet(T) /\ Cardinality(T) \in Nat
  <2>1. IsFiniteSet(0 .. m)
    BY <1>1, FS_Interval
  <2> QED
    BY <2>1, FS_Subset, FS_CardinalityType
<1>3. 0 \in T
  BY <1>1
<1>4. IsFiniteSet(T \ {0}) /\ Cardinality(T \ {0}) = Cardinality(T) - 1
  BY <1>2, <1>3, FS_RemoveElement
<1>5. \A i \in T : i + 1 \in T \ {0}
  BY <1>1
<1>6. f \in Injection(T, T \ {0})
  <2>1. f \in [T -> T \ {0}]
    BY <1>5
  <2>2. \A i, k \in T : f[i] = f[k] => i = k
    OBVIOUS
  <2> QED
    BY <2>1, <2>2 DEF Injection, IsInjective
<1> HIDE DEF T, f
<1>7. Cardinality(T) <= Cardinality(T \ {0})
  BY <1>4, <1>6, FS_Injection
<1> QED
  BY <1>2, <1>4, <1>7

\* f is the sum up to n.
SumsTo(f, n) == f = [r \in 0 .. n |-> IF r = 0 THEN 0 ELSE f[r - 1] + RetryDelay(r - 1)]

\* There is one.
LEMMA SumExists == \E f : SumsTo(f, MaxRetries)
<1> DEFINE S == {n \in 0 .. MaxRetries : \E f : SumsTo(f, n)}
<1>1. 0 \in S
  <2>1. SumsTo([r \in 0 .. 0 |-> 0], 0)
    BY DEF SumsTo
  <2> QED
    BY <2>1, QueueAssumption
<1>2. ASSUME NEW n \in 0 .. MaxRetries - 1, n \in S PROVE n + 1 \in S
  <2>1. PICK f : SumsTo(f, n)
    BY <1>2
  <2> DEFINE g == [r \in 0 .. n + 1 |-> IF r <= n THEN f[r] ELSE f[n] + RetryDelay(n)]
  <2>2. n \in Nat /\ n + 1 \in 0 .. MaxRetries
    BY QueueAssumption
  <2>3. ASSUME NEW r \in 0 .. n + 1
        PROVE  g[r] = IF r = 0 THEN 0 ELSE g[r - 1] + RetryDelay(r - 1)
    <3>1. CASE r = 0
      <4>1. g[r] = f[0] /\ f[0] = 0
        BY <2>1, <2>2, <3>1 DEF SumsTo
      <4> QED
        BY <3>1, <4>1
    <3>2. CASE r # 0 /\ r <= n
      <4>1. g[r] = f[r] /\ g[r - 1] = f[r - 1]
        BY <2>2, <3>2
      <4>2. f[r] = f[r - 1] + RetryDelay(r - 1)
        BY <2>1, <2>2, <3>2 DEF SumsTo
      <4> QED
        BY <3>2, <4>1, <4>2
    <3>3. CASE r = n + 1
      <4>1. r - 1 = n /\ r # 0 /\ g[r] = f[n] + RetryDelay(n) /\ g[n] = f[n]
        BY <2>2, <3>3
      <4> QED
        BY <4>1
    <3> QED
      BY <2>2, <3>1, <3>2, <3>3
  <2>4. SumsTo(g, n + 1)
    <3> HIDE DEF g
    <3>1. g = [r \in 0 .. n + 1 |-> g[r]]
      BY DEF g
    <3> QED
      BY <2>3, <3>1 DEF SumsTo
  <2> QED
    BY <2>2, <2>4
<1> HIDE DEF S
<1>3. 0 .. MaxRetries \subseteq S
  BY <1>1, <1>2, UpTo, QueueAssumption
<1>4. MaxRetries \in S
  BY <1>3, QueueAssumption
<1> QED
  BY <1>4 DEF S

\* So the total is what its definition says.
LEMMA TotalBackoffDef ==
    /\ TotalBackoff[0] = 0
    /\ \A r \in 0 .. MaxRetries - 1 : TotalBackoff[r + 1] = TotalBackoff[r] + RetryDelay(r)
<1>1. TotalBackoff = CHOOSE f : SumsTo(f, MaxRetries)
  BY DEF TotalBackoff, SumsTo
<1>2. SumsTo(TotalBackoff, MaxRetries)
  BY <1>1, SumExists
<1> QED
  BY <1>2, QueueAssumption DEF SumsTo

\* The total is a number of seconds.
LEMMA TotalBackoffType == \A r \in 0 .. MaxRetries : TotalBackoff[r] \in Nat
<1> DEFINE S == {r \in 0 .. MaxRetries : TotalBackoff[r] \in Nat}
<1>1. 0 \in S
  BY TotalBackoffDef, QueueAssumption
<1>2. ASSUME NEW n \in 0 .. MaxRetries - 1, n \in S PROVE n + 1 \in S
  <2>1. RetryDelay(n) \in Nat
    BY RetryDelayBounds, QueueAssumption
  <2> QED
    BY <1>2, <2>1, TotalBackoffDef, QueueAssumption
<1> HIDE DEF S
<1>3. 0 .. MaxRetries \subseteq S
  BY <1>1, <1>2, UpTo, QueueAssumption
<1> QED
  BY <1>3 DEF S

-----------------------------------------------------------------------------
(* PacingInv is inductive relative to IndInv.                               *)

\* Nothing is leased and nobody has failed at the start.
LEMMA InitPacing == Init => PacingInv
  BY QueueAssumption DEF Init, NoRow, Between, PacingInv, ExponentialPacing, LeasedWhenDue, EndsAfterPoll

\* What the pacing says of one row.
Paced(row) ==
    /\ row.status = "live" =>
          row.run_at >= row.created_at + TotalBackoff[row.retries] - row.retries * MaxSkew
    /\ row.locked_until # None => row.locked_until >= row.run_at + Visibility

\* And of one runner.
Timed(worker) == worker.pc = "failed" => worker.ended + MaxSkew >= worker.now

\* It is enough to look at the row and the runner a step changes.
LEMMA PacedRows ==
    /\ PacingInv <=> (\A j \in Jobs : Paced(rows[j])) /\ (\A w \in Workers : Timed(workers[w]))
    /\ PacingInv' <=> (\A j \in Jobs : Paced(rows'[j])) /\ (\A w \in Workers : Timed(workers'[w]))
  BY DEF PacingInv, ExponentialPacing, LeasedWhenDue, EndsAfterPoll, Paced, Timed

\* A new row is due at once, and has not failed yet.
LEMMA InsertedPaced ==
    ASSUME IndInv, PacingInv, NEW j \in Jobs, NEW p, NEW t \in Readings, Inserted(j, p, t)
    PROVE  \A i \in Jobs : Paced(rows'[i])
<1>1. \A i \in Jobs \ {j} : rows'[i] = rows[i]
  BY DEF Inserted
<1>2. /\ rows'[j].run_at = t /\ rows'[j].created_at = t /\ rows'[j].retries = 0
      /\ rows'[j].locked_until = None
  BY DEF Inserted, IndInv, TypeOK
<1>3. t \in Nat
  BY QueueAssumption DEF IndInv, TypeOK, Readings
<1>4. Paced(rows'[j])
  BY <1>2, <1>3, TotalBackoffDef, QueueAssumption DEF Paced
<1> QED
  BY <1>1, <1>4, PacedRows

\* A row is leased when it is due, or when a lease that was taken when it was due is over.
LEMMA LeasedPaced ==
    ASSUME IndInv, PacingInv, NEW w \in Workers, NEW j \in Jobs,
           Reserve(w, j) \/ ReserveUnacknowledged(w, j)
    PROVE  \A i \in Jobs : Paced(rows'[i])
<1>1. j \in Claimable(workers[w].now) /\ Leased(w, j)
  BY VisibleClaimable DEF Reserve, ReserveUnacknowledged
<1>2. /\ \A i \in Jobs \ {j} : rows'[i] = rows[i]
      /\ rows'[j] = [status |-> rows[j].status, retries |-> rows[j].retries,
                     priority |-> rows[j].priority, run_at |-> rows[j].run_at,
                     created_at |-> rows[j].created_at,
                     locked_until |-> Lease(w), locked_by |-> w]
  BY <1>1, LeasedRow
<1>3. rows[j] \in Row /\ workers[w].now \in Nat
  BY DEF IndInv, TypeOK, Worker
<1>4. workers[w].now >= rows[j].run_at
  <2>1. CASE rows[j].locked_until # None
    <3>1. rows[j].locked_until \in Nat /\ rows[j].locked_until >= rows[j].run_at + Visibility
      BY <1>3, <2>1 DEF PacingInv, LeasedWhenDue, Row
    <3>2. rows[j].locked_until < workers[w].now
      BY <1>1, <2>1 DEF Claimable
    <3> QED
      BY <1>3, <3>1, <3>2, QueueAssumption DEF Row
  <2>2. CASE rows[j].locked_until = None
    BY <1>1, <1>3, <2>2 DEF Claimable, Row
  <2> QED
    BY <2>1, <2>2
<1>5. Paced(rows[j])
  BY PacedRows
<1>6. Paced(rows'[j])
  BY <1>2, <1>3, <1>4, <1>5, QueueAssumption DEF Paced, Lease, Row
<1> QED
  BY <1>2, <1>6, PacedRows

\* A failure that is counted pushes the row on by its delay, from a moment that is no
\* earlier, up to the skew, than the row was due.
LEMMA FinalizedPaced ==
    ASSUME IndInv, PacingInv, NEW w \in Workers, Finalize(w)
    PROVE  \A i \in Jobs : Paced(rows'[i])
<1> DEFINE j == workers[w].job
           r == rows[j].retries
<1>1. CASE ~StillMine(w)
  <2>1. rows' = rows
    BY <1>1 DEF Finalize, delete_job, mark_job_dead, update_job
  <2> QED
    BY <2>1, PacedRows
<1>2. CASE StillMine(w)
  <2>1. /\ j \in Jobs /\ rows[j] \in Row /\ workers[w] \in Worker
        /\ rows[j].status = "live"
        /\ r = workers[w].retries /\ r \in Nat /\ r < MaxRetries
        /\ rows[j].locked_until = Lease(w)
    BY <1>2, QueueAssumption
    DEF Finalize, StillMine, IndInv, TypeOK, LocalsOK, LeasePaired, ClaimIsCurrent,
        RetryBudget, Executing, Worker, Row
  <2>2. /\ \A i \in Jobs \ {j} : rows'[i] = rows[i]
        /\ rows'[j].locked_until = None
    BY <1>2, FinalizedRow
  <2>3. CASE workers[w].pc = "succeeded" /\ delete_job(w)
    <3>1. rows'[j].status = "gone"
      BY <1>2, <2>1, <2>3 DEF delete_job, NoRow, IndInv, TypeOK
    <3> QED
      BY <2>2, <3>1, PacedRows DEF Paced
  <2>4. CASE workers[w].pc = "failed" /\ Exhausted(w) /\ mark_job_dead(w)
    <3>1. rows'[j].status = "dead"
      BY <1>2, <2>1, <2>4 DEF mark_job_dead, IndInv, TypeOK, Row
    <3> QED
      BY <2>2, <3>1, PacedRows DEF Paced
  <2>5. CASE workers[w].pc = "failed" /\ ~Exhausted(w) /\ update_job(w)
    <3> DEFINE d == RetryDelay(r)
               T == TotalBackoff[r]
               U == TotalBackoff[r + 1]
               ended == workers[w].ended
               created == rows[j].created_at
               due == rows[j].run_at
    <3>1. /\ rows'[j].run_at = ended + d /\ rows'[j].retries = r + 1
          /\ rows'[j].created_at = created
      BY <1>2, <2>1, <2>5 DEF update_job, compute_retry_time, IndInv, TypeOK, Row
    <3>2. /\ d \in Nat /\ T \in Nat /\ U = T + d /\ ended \in Nat /\ created \in Nat /\ due \in Nat
          /\ workers[w].now \in Nat /\ r * MaxSkew \in Nat
      BY <2>1, RetryDelayBounds, TotalBackoffDef, TotalBackoffType, QueueAssumption DEF Row, Worker
    <3>3. ended + MaxSkew >= workers[w].now
      BY <2>5 DEF PacingInv, EndsAfterPoll
    <3>4. workers[w].now + Visibility >= due + Visibility
      <4>1. Lease(w) \in Nat /\ Lease(w) # None
        BY <3>2, QueueAssumption DEF Lease
      <4> QED
        BY <2>1, <4>1 DEF PacingInv, LeasedWhenDue, Lease
    <3>5. due >= created + T - r * MaxSkew
      BY <2>1 DEF PacingInv, ExponentialPacing
    <3>6. (r + 1) * MaxSkew = r * MaxSkew + MaxSkew
      BY <2>1, QueueAssumption
    <3> HIDE DEF d, T, U, ended, created, due, r
    <3>7. ended + d >= created + U - (r + 1) * MaxSkew
      BY <3>2, <3>3, <3>4, <3>5, <3>6, QueueAssumption
    <3>8. Paced(rows'[j])
      BY <2>2, <3>1, <3>7 DEF Paced, U
    <3> QED
      BY <2>2, <3>8, PacedRows
  <2> QED
    BY <2>3, <2>4, <2>5 DEF Finalize
<1> QED
  BY <1>1, <1>2

\* The backoff is anchored after the handler, when no clock can be further behind the poll
\* than the skew.
LEMMA RunnersTimed ==
    ASSUME IndInv, PacingInv, [Next]_vars
    PROVE  \A w \in Workers : Timed(workers'[w])
<1>1. ASSUME NEW w \in Workers, NEW v \in Workers, HandlerErr(w) PROVE Timed(workers'[v])
  <2>1. PICK t \in Readings : workers' = [workers EXCEPT ![w].pc = "failed", ![w].ended = t]
    BY <1>1 DEF HandlerErr
  <2>2. t \in Nat /\ t >= clock /\ clock \in Nat
    BY QueueAssumption DEF Readings, IndInv, TypeOK
  <2>3. workers[w].now \in Nat /\ workers[w].now <= clock + MaxSkew
    BY <1>1 DEF HandlerErr, IndInv, TypeOK, LocalsOK, Worker
  <2>4. workers'[w].now = workers[w].now /\ workers'[w].ended = t /\ (v # w => workers'[v] = workers[v])
    BY <2>1 DEF IndInv, TypeOK, Worker
  <2>5. Timed(workers[v])
    BY PacedRows
  <2> QED
    BY <2>2, <2>3, <2>4, <2>5, QueueAssumption DEF Timed
<1>2. ASSUME NEW w \in Workers, NEW v \in Workers,
             \/ Start(w) \/ SkipScheduled(w) \/ EnqueueScheduledError(w)
             \/ Poll(w) \/ ReserveEmpty(w) \/ ReserveError(w)
             \/ HandlerOk(w) \/ Finalize(w) \/ FinalizeError(w) \/ Stop(w)
             \/ \E j \in Jobs : EnqueueScheduled(w, j) \/ Reserve(w, j) \/ ReserveUnacknowledged(w, j)
      PROVE  Timed(workers'[v])
  <2>1. workers'[v] = workers[v] \/ workers'[v].pc # "failed"
    <3>1. workers \in [Workers -> Worker]
      BY DEF IndInv, TypeOK
    <3>2. CASE SkipScheduled(w) \/ EnqueueScheduledError(w) \/ Poll(w) \/ HandlerOk(w)
      BY <3>1, <3>2 DEF SkipScheduled, EnqueueScheduledError, Poll, HandlerOk, Worker
    <3>3. CASE Start(w) \/ ReserveEmpty(w) \/ ReserveError(w) \/ Finalize(w) \/ FinalizeError(w) \/ Stop(w)
      BY <3>1, <3>3 DEF Start, ReserveEmpty, ReserveError, Finalize, FinalizeError, Stop, Between
    <3>4. ASSUME NEW j \in Jobs, EnqueueScheduled(w, j) \/ Reserve(w, j) \/ ReserveUnacknowledged(w, j)
          PROVE  workers'[v] = workers[v] \/ workers'[v].pc # "failed"
      BY <3>1, <3>4 DEF EnqueueScheduled, Reserve, ReserveUnacknowledged, Between, Worker
    <3> QED
      BY <1>2, <3>2, <3>3, <3>4
  <2>2. Timed(workers[v])
    BY PacedRows
  <2> QED
    BY <2>1, <2>2 DEF Timed
<1>3. ASSUME UNCHANGED workers PROVE \A w \in Workers : Timed(workers'[w])
  BY <1>3, PacedRows
<1> QED
  BY <1>1, <1>2, <1>3 DEF Next, vars, Tick, enqueue_job_on_queue

\* Every step keeps the pacing.
LEMMA NextPacing == IndInv /\ PacingInv /\ [Next]_vars => PacingInv'
<1> SUFFICES ASSUME IndInv, PacingInv, [Next]_vars PROVE \A i \in Jobs : Paced(rows'[i])
  BY RunnersTimed, PacedRows
<1>1. ASSUME UNCHANGED rows PROVE \A i \in Jobs : Paced(rows'[i])
  BY <1>1, PacedRows
<1>2. ASSUME NEW j \in Jobs, NEW p \in Priorities, enqueue_job_on_queue(j, p)
      PROVE  \A i \in Jobs : Paced(rows'[i])
  BY <1>2, InsertedPaced DEF enqueue_job_on_queue
<1>3. ASSUME NEW w \in Workers, NEW j \in Jobs, EnqueueScheduled(w, j)
      PROVE  \A i \in Jobs : Paced(rows'[i])
  BY <1>3, InsertedPaced DEF EnqueueScheduled
<1>4. ASSUME NEW w \in Workers, NEW j \in Jobs, Reserve(w, j) \/ ReserveUnacknowledged(w, j)
      PROVE  \A i \in Jobs : Paced(rows'[i])
  BY <1>4, LeasedPaced
<1>5. ASSUME NEW w \in Workers, Finalize(w)
      PROVE  \A i \in Jobs : Paced(rows'[i])
  BY <1>5, FinalizedPaced
<1>6. ASSUME NEW w \in Workers,
             \/ Start(w) \/ SkipScheduled(w) \/ EnqueueScheduledError(w)
             \/ Poll(w) \/ ReserveEmpty(w) \/ ReserveError(w)
             \/ HandlerOk(w) \/ HandlerErr(w) \/ FinalizeError(w) \/ Stop(w)
      PROVE  UNCHANGED rows
  BY <1>6
  DEF Start, SkipScheduled, EnqueueScheduledError, Poll, ReserveEmpty, ReserveError,
      HandlerOk, HandlerErr, FinalizeError, Stop
<1> QED
  BY <1>1, <1>2, <1>3, <1>4, <1>5, <1>6 DEF Next, vars, Tick

\* However its attempts are spread over workers that crash, are slow or compete, a job that
\* has failed r times is not due before the first r delays of compute_retry_time have
\* passed since it was enqueued, less r times the skew of the clocks.
THEOREM RetriesAreSpaced == Spec => []ExponentialPacing
  BY InitPacing, NextPacing, IndInvHolds, PTL DEF Spec, PacingInv
=============================================================================
