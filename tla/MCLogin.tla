------------------------------- MODULE MCLogin -------------------------------
(* A small instance of Login for TLC. *)
EXTENDS Login, Naturals, FiniteSets, TLC

Symmetry ==
    Permutations(Browsers) \cup Permutations(Requests) \cup Permutations(Flows) \cup Permutations(Tokens)

Involved(b) ==
    \/ cookies[b] # None \/ \E r \in Requests : reqs[r].browser = b
    \/ \E f \in Flows : flows[f] # None /\ flows[f].browser = b

\* Requests overlap while only one browser, one provider and one kind of sanction are
\* involved and no redirect is asked for; once there is more, they come one at a time.
Focus ==
    \/ Cardinality({r \in Requests : reqs[r].pc # "idle"}) <= 1
    \/ /\ Cardinality({b \in Browsers : Involved(b)}) <= 1
       /\ \A f \in Flows : flows[f] # None => flows[f].provider \notin Pkce /\ ~flows[f].wanted
       /\ \A u \in Users : users[u] # "inactive"

MCNext == Next /\ Focus'

MCSpec == Init /\ [][MCNext]_vars
=============================================================================
