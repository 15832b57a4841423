----------------------------- MODULE MCJobQueue -----------------------------
(* A small instance of JobQueue for TLC. *)
EXTENDS JobQueue, FiniteSets, TLC

Symmetry == Permutations(Workers) \cup Permutations(Jobs)

\* One job is watched for MaxClock ticks, with runners on clocks that agree: all of them
\* for BusyClock ticks, two from then on.
\* Two jobs, of different priorities perhaps, meet two runners whose clocks may differ,
\* for ShortClock ticks and one attempt each.
CONSTANTS BusyClock, ShortClock

Running == {w \in Workers : workers[w].pc \notin {"off", "stopped"}}

OneJob ==
    /\ Cardinality({j \in Jobs : rows[j].status # "unborn"}) <= 1
    /\ \A j \in Jobs : rows[j].priority \in {None, 0}
    /\ \A w \in Workers : workers[w].now <= clock /\ workers[w].ended <= clock
    /\ clock <= BusyClock \/ Cardinality(Running) <= 2

TwoJobs ==
    /\ clock <= ShortClock
    /\ Cardinality({w \in Workers : workers[w].pc # "off"}) <= 2
    /\ \A j \in Jobs : rows[j].retries = 0

MCNext == Next /\ (OneJob \/ TwoJobs)'

MCSpec == Init /\ [][MCNext]_vars
=============================================================================
