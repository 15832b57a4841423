------------------------------ MODULE JobQueue ------------------------------
(***************************************************************************)
(* The background-job queue: the table background_jobs and the worker loops *)
(* that poll it (src/worker/runner.rs), with the producers that insert rows *)
(* (src/app.rs).                                                            *)
(*                                                                          *)
(* A worker claims a row by writing a lease (locked_until, locked_by), runs *)
(* the handler outside any transaction, and finalizes in a second one.      *)
(* Every database transaction is one action; everything the runner holds    *)
(* across an await (the captured `now`, the claimed row, the result) is     *)
(* state of the worker, so other workers, time, crashes and database errors *)
(* come between.                                                            *)
(*                                                                          *)
(* A worker is one Runner INSTANCE: Runner::new draws a fresh UUID, so a    *)
(* process that restarts is a different element of Workers.                 *)
(***************************************************************************)
EXTENDS Integers

CONSTANTS
    Workers,          \* runner instances (worker_id UUIDs)
    Jobs,             \* row ids; AUTOINCREMENT never reuses one
    Priorities,       \* values of the priority column
    Visibility,       \* Runner.visibility_timeout
    MaxRetries,       \* Runner.max_retries
    MaxRetryDelay,    \* MAX_RETRY_DELAY
    CleanupInterval,  \* Runner.cleanup_interval
    SkipLocked,       \* TRUE on PostgreSQL (FOR UPDATE SKIP LOCKED)
    MaxSkew,          \* how far a host's clock may run ahead of the slowest one
    MaxClock,         \* bound: the run stops when the clock gets here
    None              \* SQL NULL, Option::None

ASSUME QueueAssumption ==
    /\ Priorities \subseteq Int
    /\ 0 \in Priorities          \* the priority of the scheduled CleanupJob
    /\ Visibility \in Nat
    /\ MaxRetries \in Nat \ {0}
    /\ MaxRetryDelay \in Nat \ {0}
    /\ CleanupInterval \in Nat
    /\ SkipLocked \in BOOLEAN
    /\ MaxSkew \in Nat
    /\ MaxClock \in Nat
    /\ None \notin Nat
    /\ None \notin Workers
    /\ None \notin Jobs

\* The arithmetic fact about powers of two that the backoff relies on.
ASSUME PowerAssumption == \A n \in 0..MaxRetries : 2^n \in Nat \ {0}

VARIABLES
    clock,    \* time of the slowest host, in ticks
    rows,     \* the table background_jobs
    workers,  \* the locals of every runner
    effects   \* the outside world: jobs whose handler has returned Ok

vars == <<clock, rows, workers, effects>>

-----------------------------------------------------------------------------
(* The table.  status folds the existence of the row and failed_at:         *)
(* "unborn" ids are not allocated yet, "live" is failed_at IS NULL, "dead"  *)
(* is failed_at set, "gone" is deleted.                                     *)

Row == [status       : {"unborn", "live", "dead", "gone"},
        retries      : Nat,
        priority     : Priorities \cup {None},
        run_at       : Nat,
        created_at   : Nat,
        locked_until : Nat \cup {None},
        locked_by    : Workers \cup {None}]

NoRow(status) == [status |-> status, retries |-> 0, priority |-> None,
                  run_at |-> 0, created_at |-> 0,
                  locked_until |-> None, locked_by |-> None]

\* The locals of `run` and `run_once`.  `now` is the timestamp read at the top
\* of run_once, `ended` the one read for the backoff after the handler failed;
\* job and retries are the ClaimedJob.  pc "succeeded" and "failed" are the two
\* results of the handler, before the finalization.
Worker == [pc           : {"off", "top", "poll", "reserve", "run", "succeeded", "failed", "stopped"},
           now          : Nat,
           job          : Jobs \cup {None},
           retries      : Nat,
           ended        : Nat,
           last_cleanup : Nat \cup {None}]

\* A runner outside run_once: the locals are gone, last_cleanup_enqueue stays.
Between(pc, last) == [pc |-> pc, now |-> 0, job |-> None, retries |-> 0,
                      ended |-> 0, last_cleanup |-> last]

\* Between the reservation and the end of the finalization.
Executing(w) == workers[w].pc \in {"run", "succeeded", "failed"}

\* lease_until, fixed together with `now`.
Lease(w) == workers[w].now + Visibility

\* What jiff::Timestamp::now() may return on some host.
Readings == clock .. (clock + MaxSkew)

Init ==
    /\ clock = 0
    /\ rows = [j \in Jobs |-> NoRow("unborn")]
    /\ workers = [w \in Workers |-> Between("off", None)]
    /\ effects = {}

-----------------------------------------------------------------------------
(* SQL predicates and pure helpers                                          *)

\* Mutant: a row that is due may be claimed although another worker leases it.
ClaimableIgnoringLease(now) ==
    {j \in Jobs : /\ rows[j].status = "live"
                  /\ \/ rows[j].run_at <= now
                     \/ rows[j].locked_until # None /\ rows[j].locked_until < now}

\* failed_at IS NULL AND (locked_until < now OR (locked_until IS NULL AND run_at <= now))
Claimable(now) ==
    {j \in Jobs : /\ rows[j].status = "live"
                  /\ IF rows[j].locked_until # None
                     THEN rows[j].locked_until < now
                     ELSE rows[j].run_at <= now}

\* ORDER BY priority DESC, run_at ASC, created_at ASC: i sorts strictly before j.
Before(i, j) ==
    \/ rows[i].priority > rows[j].priority
    \/ /\ rows[i].priority = rows[j].priority
       /\ \/ rows[i].run_at < rows[j].run_at
          \/ /\ rows[i].run_at = rows[j].run_at
             /\ rows[i].created_at < rows[j].created_at

First(S) == {j \in S : \A i \in S : ~Before(i, j)}

\* The row locks the open transactions of the other workers may hold: one
\* claimable row for a reservation in flight, its own row for a finalization.
\* SQLite has none: its reservation is one statement in an IMMEDIATE transaction.
RowLocks(w) ==
    {held \in [Workers \ {w} -> Jobs \cup {None}] :
        \A v \in Workers \ {w} :
            held[v] # None =>
                /\ SkipLocked
                /\ \/ workers[v].pc = "reserve" /\ held[v] \in Claimable(workers[v].now)
                   \/ /\ workers[v].pc \in {"succeeded", "failed"}
                      /\ held[v] = workers[v].job
                      /\ rows[held[v]].locked_by = v}

\* Rows the SELECT of w can see, given which of them others have locked.
Visible(w, held) == Claimable(workers[w].now) \ {held[v] : v \in Workers \ {w}}

\* Mutant: the cap on the delay is missing.
RetryDelayUncapped(retries) == 2^retries

\* 2^retries seconds, capped.
RetryDelay(retries) == IF 2^retries <= MaxRetryDelay THEN 2^retries ELSE MaxRetryDelay

compute_retry_time(now, retries) == now + RetryDelay(retries)

-----------------------------------------------------------------------------
(* Producers: App::enqueue_job, enqueue_job_with_priority,                  *)
(* enqueue_job_on_queue.                                                    *)

\* The INSERT of a row with a fresh id, stamped with some host's clock (the two
\* consecutive readings for run_at and created_at are one).
Inserted(j, p, t) ==
    /\ rows[j].status = "unborn"
    /\ rows' = [rows EXCEPT ![j] = [status |-> "live", retries |-> 0, priority |-> p,
                                    run_at |-> t, created_at |-> t,
                                    locked_until |-> None, locked_by |-> None]]

enqueue_job_on_queue(j, p) ==
    /\ \E t \in Readings : Inserted(j, p, t)
    /\ UNCHANGED <<clock, workers, effects>>

-----------------------------------------------------------------------------
(* The worker loop                                                          *)

\* Runner::new and the start of `run`: the cleanup job is due at once.
Start(w) ==
    /\ workers[w].pc = "off"
    /\ workers' = [workers EXCEPT ![w] = Between("top", None)]
    /\ UNCHANGED <<clock, rows, effects>>

CleanupDue(w) ==
    LET last == workers[w].last_cleanup
    IN  last = None \/ (last # None /\ clock - last >= CleanupInterval)

\* enqueue_scheduled_jobs, nothing due.
SkipScheduled(w) ==
    /\ workers[w].pc = "top"
    /\ ~CleanupDue(w)
    /\ workers' = [workers EXCEPT ![w].pc = "poll"]
    /\ UNCHANGED <<clock, rows, effects>>

\* enqueue_scheduled_jobs, the CleanupJob is inserted (priority 0).  The
\* INSERT can also be applied and its acknowledgement lost: then the runner
\* takes the error path, forgets the timestamp and will insert another one.
EnqueueScheduled(w, j) ==
    /\ workers[w].pc = "top"
    /\ CleanupDue(w)
    /\ \E t \in Readings : Inserted(j, 0, t)
    /\ \E last \in {clock, None} :
          workers' = [workers EXCEPT ![w].pc = "poll", ![w].last_cleanup = last]
    /\ UNCHANGED <<clock, effects>>

\* enqueue_scheduled_jobs, the INSERT fails.
EnqueueScheduledError(w) ==
    /\ workers[w].pc = "top"
    /\ CleanupDue(w)
    /\ workers' = [workers EXCEPT ![w].pc = "poll", ![w].last_cleanup = None]
    /\ UNCHANGED <<clock, rows, effects>>

\* run_once up to the reservation: `now` and lease_until are fixed before the
\* transaction is even opened.
Poll(w) ==
    /\ workers[w].pc = "poll"
    /\ \E t \in Readings :
          workers' = [workers EXCEPT ![w].pc = "reserve", ![w].now = t]
    /\ UNCHANGED <<clock, rows, effects>>

\* SET locked_until = lease_until, locked_by = worker_id
Leased(w, j) ==
    rows' = [rows EXCEPT ![j].locked_until = Lease(w), ![j].locked_by = w]

\* reserve_next returns a row and the reservation commits.
Reserve(w, j) ==
    /\ workers[w].pc = "reserve"
    /\ \E held \in RowLocks(w) : j \in First(Visible(w, held))
    /\ Leased(w, j)
    /\ workers' = [workers EXCEPT ![w].pc = "run",
                                  ![w].job = j,
                                  ![w].retries = rows[j].retries]
    /\ UNCHANGED <<clock, effects>>

\* The reservation is applied but its COMMIT reports an error: run_once
\* returns Err and the row stays leased to a worker that is not running it.
ReserveUnacknowledged(w, j) ==
    /\ workers[w].pc = "reserve"
    /\ \E held \in RowLocks(w) : j \in First(Visible(w, held))
    /\ Leased(w, j)
    /\ workers' = [workers EXCEPT ![w] = Between("top", workers[w].last_cleanup)]
    /\ UNCHANGED <<clock, effects>>

\* reserve_next finds no row (Ok(false)).
ReserveEmpty(w) ==
    /\ workers[w].pc = "reserve"
    /\ \E held \in RowLocks(w) : Visible(w, held) = {}
    /\ workers' = [workers EXCEPT ![w] = Between("top", workers[w].last_cleanup)]
    /\ UNCHANGED <<clock, rows, effects>>

\* Any error before the reservation is applied: begin, select, update, rollback.
ReserveError(w) ==
    /\ workers[w].pc = "reserve"
    /\ workers' = [workers EXCEPT ![w] = Between("top", workers[w].last_cleanup)]
    /\ UNCHANGED <<clock, rows, effects>>

\* The handler returns Ok.
HandlerOk(w) ==
    /\ workers[w].pc = "run"
    /\ workers' = [workers EXCEPT ![w].pc = "succeeded"]
    /\ effects' = effects \cup {workers[w].job}
    /\ UNCHANGED <<clock, rows>>

\* The handler fails, the payload does not deserialize, or no handler is
\* registered for the job type.  The backoff is anchored to the time of this
\* step, not to the `now` of the poll.
HandlerErr(w) ==
    /\ workers[w].pc = "run"
    /\ \E t \in Readings :
          workers' = [workers EXCEPT ![w].pc = "failed", ![w].ended = t]
    /\ UNCHANGED <<clock, rows, effects>>

\* Mutant: the finalizing statements select by id alone.
StillThere(w) == rows[workers[w].job].status \in {"live", "dead"}

\* WHERE id = job AND locked_by = worker_id, of all three finalizing statements.
StillMine(w) == rows[workers[w].job].locked_by = w

\* DELETE ... WHERE id = ? AND locked_by = ?
delete_job(w) ==
    rows' = IF StillMine(w) THEN [rows EXCEPT ![workers[w].job] = NoRow("gone")] ELSE rows

\* Mutant: the rescheduling statement forgets run_at.
update_job_in_place(w) ==
    rows' = IF StillMine(w)
            THEN [rows EXCEPT ![workers[w].job].retries = @ + 1,
                              ![workers[w].job].locked_until = None,
                              ![workers[w].job].locked_by = None]
            ELSE rows

\* SET retries = retries + 1, run_at = ?, locked_until = NULL, locked_by = NULL
update_job(w) ==
    rows' = IF StillMine(w)
            THEN [rows EXCEPT
                    ![workers[w].job].retries = @ + 1,
                    ![workers[w].job].run_at =
                        compute_retry_time(workers[w].ended, workers[w].retries),
                    ![workers[w].job].locked_until = None,
                    ![workers[w].job].locked_by = None]
            ELSE rows

\* SET retries = retries + 1, failed_at = ?, locked_until = NULL, locked_by = NULL
mark_job_dead(w) ==
    rows' = IF StillMine(w)
            THEN [rows EXCEPT ![workers[w].job].status = "dead",
                              ![workers[w].job].retries = @ + 1,
                              ![workers[w].job].locked_until = None,
                              ![workers[w].job].locked_by = None]
            ELSE rows

\* The branch run_once takes: on the snapshot of `retries` the claim returned.
Exhausted(w) == workers[w].retries + 1 >= MaxRetries

\* The finalization transaction commits (whether or not the acknowledgement
\* arrives: both ways the next step is the top of the loop).
Finalize(w) ==
    /\ \/ workers[w].pc = "succeeded" /\ delete_job(w)
       \/ workers[w].pc = "failed" /\ Exhausted(w)  /\ mark_job_dead(w)
       \/ workers[w].pc = "failed" /\ ~Exhausted(w) /\ update_job(w)
    /\ workers' = [workers EXCEPT ![w] = Between("top", workers[w].last_cleanup)]
    /\ UNCHANGED <<clock, effects>>

\* Any error of the finalization transaction: nothing is applied, the lease
\* stays until it expires.
FinalizeError(w) ==
    /\ workers[w].pc \in {"succeeded", "failed"}
    /\ workers' = [workers EXCEPT ![w] = Between("top", workers[w].last_cleanup)]
    /\ UNCHANGED <<clock, rows, effects>>

\* A crash at any point, or the shutdown branch of a select! that drops
\* run_once where it stands.
Stop(w) ==
    /\ workers[w].pc \notin {"off", "stopped"}
    /\ workers' = [workers EXCEPT ![w] = Between("stopped", None)]
    /\ UNCHANGED <<clock, rows, effects>>

Tick ==
    /\ clock < MaxClock
    /\ clock' = clock + 1
    /\ UNCHANGED <<rows, workers, effects>>

Next ==
    \/ Tick
    \/ \E j \in Jobs, p \in Priorities : enqueue_job_on_queue(j, p)
    \/ \E w \in Workers :
          \/ Start(w) \/ SkipScheduled(w) \/ EnqueueScheduledError(w)
          \/ Poll(w) \/ ReserveEmpty(w) \/ ReserveError(w)
          \/ HandlerOk(w) \/ HandlerErr(w) \/ Finalize(w) \/ FinalizeError(w)
          \/ Stop(w)
          \/ \E j \in Jobs : \/ EnqueueScheduled(w, j)
                             \/ Reserve(w, j)
                             \/ ReserveUnacknowledged(w, j)

Spec == Init /\ [][Next]_vars

-----------------------------------------------------------------------------
(* Properties                                                               *)

\* Every column and every local has its type.
TypeOK ==
    /\ clock \in Nat
    /\ rows \in [Jobs -> Row]
    /\ workers \in [Workers -> Worker]
    /\ effects \subseteq Jobs

\* The lease keeps its promise: while a worker is between its reservation and
\* the end of its finalization and its lease cannot have expired on any host's
\* clock, the row is still there, live and leased to it - no reservation,
\* finalization, crash or error of another worker took it away.  Hence no two
\* workers run a job inside their leases at the same time.
LeaseHonored ==
    \A w \in Workers :
        Executing(w) /\ clock + MaxSkew <= Lease(w) =>
            /\ rows[workers[w].job].status = "live"
            /\ rows[workers[w].job].locked_by = w
            /\ rows[workers[w].job].locked_until = Lease(w)

\* The retry budget is exact although the dead-or-reschedule decision is taken
\* on a snapshot of `retries` read before the handler ran: a live row has
\* budget left, a dead row has used all of it and no more.
RetryBudget ==
    \A j \in Jobs :
        /\ rows[j].status = "live" => rows[j].retries < MaxRetries
        /\ rows[j].status = "dead" => rows[j].retries = MaxRetries

\* The row carries a complete lease that expires within one visibility timeout,
\* or no lease at all and is due within the longest backoff.
Recoverable(j) ==
    \/ /\ rows[j].locked_by # None
       /\ rows[j].locked_until # None
       /\ rows[j].locked_until <= clock + MaxSkew + Visibility
    \/ /\ rows[j].locked_by = None
       /\ rows[j].locked_until = None
       /\ rows[j].run_at <= clock + MaxSkew + MaxRetryDelay

\* No live row is stranded, whatever crashed, failed or lost its
\* acknowledgement: every one becomes claimable by the passing of time alone.
NoStranding == \A j \in Jobs : rows[j].status = "live" => Recoverable(j)

\* The least time r counted failures take: the sum of their backoff delays.
TotalBackoff[r \in 0 .. MaxRetries] ==
    IF r = 0 THEN 0 ELSE TotalBackoff[r - 1] + RetryDelay(r - 1)

\* No hot retry loop: a job with r counted failures is not due before the sum
\* of its first r backoff delays has passed since it was created, however its
\* attempts were spread over crashed, slow and competing workers.  Each failure may
\* gain what the clocks differ by.
ExponentialPacing ==
    \A j \in Jobs :
        rows[j].status = "live" =>
            rows[j].run_at >= rows[j].created_at + TotalBackoff[rows[j].retries] - rows[j].retries * MaxSkew

\* A settled job stays settled: once a row is dead or deleted, no reservation
\* and no finalization of a worker that still runs an older claim changes it.
SettledForever ==
    [][\A j \in Jobs : rows[j].status \in {"dead", "gone"} => rows'[j] = rows[j]]_vars

\* The queue implements at-least-once delivery with an exact failure count:
\* leases, crashes, lost acknowledgements and stale finalizers are invisible in
\* the ledger of settled jobs.
Ledger == INSTANCE AtLeastOnceQueue WITH
    ledger <- [j \in Jobs |-> [status |-> rows[j].status, failures |-> rows[j].retries]]

\* Every step of the queue is a step of that ledger, or leaves it alone.
AtLeastOnce == Ledger!Spec

-----------------------------------------------------------------------------
(* The inductive invariant behind the properties above                      *)

\* What a runner's locals say about the clock and about the row they came from.
LocalsOK ==
    \A w \in Workers :
        /\ workers[w].pc \in {"reserve", "run", "succeeded", "failed"} =>
              workers[w].now <= clock + MaxSkew
        /\ Executing(w) =>
              /\ workers[w].job \in Jobs
              /\ workers[w].retries < MaxRetries
              /\ rows[workers[w].job].status # "unborn"
        /\ workers[w].pc = "failed" => workers[w].ended <= clock + MaxSkew
        /\ workers[w].pc = "succeeded" => workers[w].job \in effects

\* The two lease columns are set and cleared together, and only on live rows.
LeasePaired ==
    \A j \in Jobs :
        /\ rows[j].locked_by = None <=> rows[j].locked_until = None
        /\ rows[j].locked_by # None => rows[j].status = "live"
        /\ rows[j].status = "unborn" => rows[j].retries = 0

\* A worker that finds its own id in locked_by finds the very claim it made:
\* its lease, and the retries it read.
ClaimIsCurrent ==
    \A w \in Workers :
        Executing(w) /\ rows[workers[w].job].locked_by = w =>
            /\ rows[workers[w].job].locked_until = Lease(w)
            /\ rows[workers[w].job].retries = workers[w].retries

\* An unexpired lease has not been taken over.
LeaseKept ==
    \A w \in Workers :
        Executing(w) /\ clock + MaxSkew <= Lease(w) =>
            rows[workers[w].job].locked_by = w

\* The inductive invariant: the row and the locals of whoever claimed it agree
\* for as long as locked_by says so.
IndInv ==
    /\ TypeOK
    /\ LocalsOK
    /\ LeasePaired
    /\ ClaimIsCurrent
    /\ LeaseKept
    /\ RetryBudget
    /\ NoStranding

\* What the pacing rests on besides: no worker leases a row before its run_at, although
\* the lease alone decides once there has been one,
LeasedWhenDue ==
    \A j \in Jobs : rows[j].locked_until # None => rows[j].locked_until >= rows[j].run_at + Visibility

\* and a handler ends, on any clock, no earlier than the skew before its poll.
EndsAfterPoll ==
    \A w \in Workers : workers[w].pc = "failed" => workers[w].ended + MaxSkew >= workers[w].now

\* The inductive invariant of the backoff, on top of IndInv.
PacingInv == ExponentialPacing /\ LeasedWhenDue /\ EndsAfterPoll
=============================================================================
