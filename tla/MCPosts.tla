-------------------------------- MODULE MCPosts --------------------------------
(* A small instance of Posts for TLC. *)
EXTENDS Posts, TLC

CONSTANTS u1, a    \* one of the users, one of the texts

Symmetry == Permutations(Requests)

\* Changes overlap on one post that nobody reads; or one user's posts are read while they
\* are created, published and deleted one request at a time.  A walk that is done is looked
\* at once.
Changing == clock = 0 /\ reader.pc = "idle" /\ \A id \in Ids \ {1} : posts[id] = None

Reading ==
    /\ Cardinality({r \in Requests : reqs[r].pc # "idle"}) <= IF reader.pc = "done" THEN 0 ELSE 1
    /\ \A r \in Requests : reqs[r].user \in {u1, None} /\ reqs[r].op # "update"
    /\ \A id \in Ids : Exists(id) => posts[id].user_id = u1 /\ posts[id].text = a

MCNext == Next /\ (Changing \/ Reading)'

MCSpec == Init /\ [][MCNext]_vars
=============================================================================
