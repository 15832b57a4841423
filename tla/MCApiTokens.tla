------------------------------ MODULE MCApiTokens ------------------------------
(* A small instance of ApiTokens for TLC. *)
EXTENDS ApiTokens, FiniteSets, TLC

MCResource == <<"t", "o">>

\* Unrestricted; every action on resources "t..."; reading only; a pattern that
\* does not validate.
Unscoped == [action_scopes |-> None, resource_scopes |-> None]
MCAsked ==
    {Unscoped,
     [action_scopes |-> {"create", "delete"}, resource_scopes |-> {<<"t", "*">>}],
     [action_scopes |-> {"read"}, resource_scopes |-> None],
     [action_scopes |-> {"admin"}, resource_scopes |-> {<<"*", "t">>}]}

Symmetry == Permutations(Users) \cup Permutations(Tokens) \cup Permutations(Requests)

Involved ==
    {u \in Users : \/ users[u] # "active" \/ \E r \in Requests : u \in {reqs[r].cookie, reqs[r].user}
                   \/ \E t \in Tokens : tokens[t] # None /\ tokens[t].user_id = u}

\* Requests overlap, and time passes, while one user has one unscoped token and shows
\* either its cookie or the token; users and tokens of several kinds, without expiry, and
\* deleted users meet in single requests, with both credentials perhaps, at one instant.
\* The owner is barred, and reinstated, while the clock stands still.
Overlapping ==
    /\ Cardinality({t \in Tokens : tokens[t] # None}) <= 1
    /\ \A t \in Tokens : tokens[t] # None =>
          tokens[t].scopes = Unscoped /\ tokens[t].expired_at \in {None, MaxClock - 1}
    /\ \A r \in Requests :
          /\ reqs[r].op # "list" /\ (reqs[r].csrf <=> reqs[r].cookie # None)
          /\ reqs[r].bearer # "bogus" /\ (reqs[r].bearer = None \/ reqs[r].cookie = None)
          /\ reqs[r].target # None => tokens[reqs[r].target] # None
    /\ Cardinality(Involved) <= 1 /\ \A u \in Users : users[u] = "active" \/ (users[u] = "barred" /\ clock = 0)

Mixed ==
    /\ clock = 0 /\ Cardinality({r \in Requests : reqs[r].pc # "idle"}) <= 1
    /\ \A t \in Tokens : tokens[t] # None => tokens[t].expired_at = None
    /\ \A r \in Requests : reqs[r].bearer # None => (reqs[r].csrf <=> reqs[r].cookie # None)
    /\ \A u \in Users : users[u] # "barred"
    /\ Cardinality({u \in Users : users[u] = "gone"}) <= 1

MCNext == Next /\ (Mixed \/ Overlapping)'

MCSpec == Init /\ [][MCNext]_vars
=============================================================================
