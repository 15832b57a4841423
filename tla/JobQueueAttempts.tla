-------------------------- MODULE JobQueueAttempts --------------------------
(***************************************************************************)
(* JobQueue with a history variable that counts, for every job, how often   *)
(* a worker began to run its handler.                                       *)
(***************************************************************************)
EXTENDS JobQueue

VARIABLE attempts

Began(j) ==
    \E w \in Workers : /\ workers[w].pc = "reserve"
                       /\ workers'[w].pc = "run"
                       /\ workers'[w].job = j

CountedInit == Init /\ attempts = [j \in Jobs |-> 0]

CountedNext ==
    /\ Next
    /\ attempts' = [j \in Jobs |-> IF Began(j) THEN attempts[j] + 1 ELSE attempts[j]]

CountedSpec == CountedInit /\ [][CountedNext]_<<vars, attempts>>

\* "once it has been attempted `max_retries` times it is marked dead": a job
\* is never attempted more than max_retries times.  The runner counts reported
\* failures, not attempts: one that ends in a crash, in a shutdown or after the
\* lease was lost leaves `retries` as it was.
AttemptsBounded == \A j \in Jobs : attempts[j] <= MaxRetries
=============================================================================
