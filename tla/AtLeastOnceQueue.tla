--------------------------- MODULE AtLeastOnceQueue ---------------------------
(***************************************************************************)
(* What the background-job queue promises to the code that enqueues jobs,   *)
(* with no leases, workers or clocks: a job leaves the queue only after its *)
(* handler has returned Ok at least once, or is parked as dead after        *)
(* exactly MaxRetries counted failures; a parked or finished job is never   *)
(* touched again.                                                           *)
(***************************************************************************)
EXTENDS Integers

CONSTANTS Jobs, MaxRetries

VARIABLES
    ledger,   \* per job: its status and the failures counted against it
    effects   \* jobs whose handler has returned Ok at least once

Entry(status, failures) == [status |-> status, failures |-> failures]

Init ==
    /\ ledger = [j \in Jobs |-> Entry("unborn", 0)]
    /\ effects = {}

Enqueue(j) ==
    /\ ledger[j] = Entry("unborn", 0)
    /\ ledger' = [ledger EXCEPT ![j] = Entry("live", 0)]
    /\ UNCHANGED effects

\* Delivery is at least once: a handler may succeed again, even after the job
\* was settled by another delivery.
Deliver(j) ==
    /\ ledger[j].status # "unborn"
    /\ effects' = effects \cup {j}
    /\ UNCHANGED ledger

Complete(j) ==
    /\ ledger[j].status = "live"
    /\ j \in effects
    /\ ledger' = [ledger EXCEPT ![j] = Entry("gone", 0)]
    /\ UNCHANGED effects

CountFailure(j) ==
    /\ ledger[j].status = "live"
    /\ ledger[j].failures + 1 < MaxRetries
    /\ ledger' = [ledger EXCEPT ![j] = Entry("live", ledger[j].failures + 1)]
    /\ UNCHANGED effects

Bury(j) ==
    /\ ledger[j].status = "live"
    /\ ledger[j].failures + 1 = MaxRetries
    /\ ledger' = [ledger EXCEPT ![j] = Entry("dead", MaxRetries)]
    /\ UNCHANGED effects

Next == \E j \in Jobs :
    Enqueue(j) \/ Deliver(j) \/ Complete(j) \/ CountFailure(j) \/ Bury(j)

Spec == Init /\ [][Next]_<<ledger, effects>>
=============================================================================
