---------------------------- MODULE QueueProgress ----------------------------
(***************************************************************************)
(* Does every background job end?  The worker loop of src/worker/runner.rs  *)
(* with time counted down instead of up, so that it never runs out: a row   *)
(* holds what is left of its lease and of its backoff.                      *)
(*                                                                          *)
(* Coarser than JobQueue in one respect: reading the clock and reserving    *)
(* are one step.  An error of the reservation changes nothing and is a      *)
(* stutter here; an error of the finalization leaves the lease.             *)
(***************************************************************************)
EXTENDS Integers

CONSTANTS
    Workers,        \* runner processes
    Jobs,           \* row ids
    Urgent,         \* the jobs enqueued with the higher of two priorities
    Visibility,     \* Runner.visibility_timeout
    MaxRetries,     \* Runner.max_retries
    MaxRetryDelay,  \* MAX_RETRY_DELAY
    MaxCrashes,     \* bound: how often a runner dies and is started again
    JobsFit,        \* TRUE if no job takes longer than the lease lasts
    None

ASSUME ProgressAssumption ==
    /\ Urgent \subseteq Jobs
    /\ Visibility \in Nat /\ MaxRetries \in Nat \ {0} /\ MaxRetryDelay \in Nat \ {0}
    /\ MaxCrashes \in Nat /\ JobsFit \in BOOLEAN
    /\ None \notin Workers \cup Jobs

VARIABLES
    rows,      \* background_jobs
    workers,   \* the runners
    crashes    \* crashes so far

vars == <<rows, workers, crashes>>

\* lease: locked_until - now, -1 once it is past, None for NULL; wait: run_at - now, at least 0
NoRow(status) == [status |-> status, retries |-> 0, wait |-> 0, lease |-> None, locked_by |-> None]
Idle == [pc |-> "poll", job |-> None, retries |-> 0]

Init ==
    /\ rows = [j \in Jobs |-> NoRow("unborn")]
    /\ workers = [w \in Workers |-> Idle]
    /\ crashes = 0

Enqueue(j) ==
    /\ rows[j].status = "unborn"
    /\ rows' = [rows EXCEPT ![j] = NoRow("live")]
    /\ UNCHANGED <<workers, crashes>>

\* Mutant: a row that is leased is left to its owner.
ClaimableUnlocked ==
    {j \in Jobs : rows[j].status = "live" /\ rows[j].lease = None /\ rows[j].wait = 0}

\* failed_at IS NULL AND (locked_until < now OR (locked_until IS NULL AND run_at <= now))
Claimable ==
    {j \in Jobs : /\ rows[j].status = "live"
                  /\ IF rows[j].lease # None THEN rows[j].lease < 0 ELSE rows[j].wait = 0}

\* ORDER BY priority DESC; among rows of one priority any may be the oldest
First == IF Claimable \cap Urgent # {} THEN Claimable \cap Urgent ELSE Claimable

Reserve(w) ==
    /\ workers[w].pc = "poll"
    /\ \E j \in First :
          /\ rows' = [rows EXCEPT ![j].lease = Visibility, ![j].locked_by = w]
          /\ workers' = [workers EXCEPT ![w] = [pc |-> "run", job |-> j, retries |-> rows[j].retries]]
    /\ UNCHANGED crashes

\* The handler returns.
Handle(w) ==
    /\ workers[w].pc = "run"
    /\ \E result \in {"succeeded", "failed"} : workers' = [workers EXCEPT ![w].pc = result]
    /\ UNCHANGED <<rows, crashes>>

Backoff(retries) == IF 2^retries <= MaxRetryDelay THEN 2^retries ELSE MaxRetryDelay

Exhausted(w) == workers[w].retries + 1 >= MaxRetries

\* The row after delete_job, mark_job_dead or update_job
Finalized(w) ==
    LET row == rows[workers[w].job] IN
    CASE workers[w].pc = "succeeded" -> NoRow("gone")
      [] workers[w].pc = "failed" /\ Exhausted(w) -> NoRow("dead")
      [] OTHER -> [row EXCEPT !.retries = @ + 1, !.wait = Backoff(workers[w].retries),
                              !.lease = None, !.locked_by = None]

\* The finalization commits, on a row the worker still owns.
Finalize(w) ==
    /\ workers[w].pc \in {"succeeded", "failed"}
    /\ rows' = IF rows[workers[w].job].locked_by = w
               THEN [rows EXCEPT ![workers[w].job] = Finalized(w)] ELSE rows
    /\ workers' = [workers EXCEPT ![w] = Idle]
    /\ UNCHANGED crashes

\* It fails.
FinalizeError(w) ==
    /\ workers[w].pc \in {"succeeded", "failed"}
    /\ workers' = [workers EXCEPT ![w] = Idle]
    /\ UNCHANGED <<rows, crashes>>

\* The process dies, or is told to stop while a job runs, and is started again; the new
\* Runner has another worker_id, so the row it owned is nobody's.
Crash(w) ==
    /\ crashes < MaxCrashes
    /\ crashes' = crashes + 1
    /\ workers' = [workers EXCEPT ![w] = Idle]
    /\ rows' = [j \in Jobs |-> IF rows[j].locked_by = w THEN [rows[j] EXCEPT !.locked_by = None] ELSE rows[j]]

\* A job whose handler still runs must fit in its lease, if JobsFit.
MayPass(w) == JobsFit /\ workers[w].job # None => rows[workers[w].job].lease > 0

Tick ==
    /\ \A w \in Workers : MayPass(w)
    /\ rows' = [j \in Jobs |->
                  [rows[j] EXCEPT !.wait = IF @ > 0 THEN @ - 1 ELSE 0,
                                  !.lease = IF @ # None /\ @ >= 0 THEN @ - 1 ELSE @]]
    /\ UNCHANGED <<workers, crashes>>

Next ==
    \/ \E j \in Jobs : Enqueue(j)
    \/ \E w \in Workers : Reserve(w) \/ Handle(w) \/ Finalize(w) \/ FinalizeError(w) \/ Crash(w)
    \/ Tick

\* Time passes; a runner that is up polls again and its handlers return; and a
\* finalization that is tried again and again is not refused every time.
Fairness ==
    /\ WF_vars(Tick)
    /\ \A w \in Workers : /\ WF_vars(Reserve(w)) /\ WF_vars(Handle(w))
                          /\ SF_vars(Finalize(w))

Spec == Init /\ [][Next]_vars /\ Fairness

-----------------------------------------------------------------------------
(* Properties                                                               *)

\* Every job that is enqueued is in the end deleted or marked dead: no crash, lost
\* finalization, expired lease or run of failures leaves it behind, and no job is tried
\* for ever.
Settled == \A j \in Jobs : rows[j].status = "live" ~> rows[j].status \in {"gone", "dead"}
=============================================================================
