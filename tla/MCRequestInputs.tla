--------------------------- MODULE MCRequestInputs ---------------------------
(***************************************************************************)
(* How the server reads what a request brings: its forwarding headers       *)
(* (ClientAddress), its path (NormalizePath), its session cookie            *)
(* (SessionCodec) and the scopes of its token (ScopeChecks).  The readings   *)
(* share no state, so TLC looks at one of them at a time.                   *)
(***************************************************************************)
EXTENDS ClientAddress, NormalizePath, SessionCodec, ScopeChecks

CONSTANTS c1, c2, p1

\* Lists of up to two entries, on one line or two.
FirstEntries == {Entry(ip, f, 1) : ip \in {c2, p1}, f \in Forms}
MCClientLists ==
    {<<>>} \cup {<<e>> : e \in FirstEntries}
    \cup {<<e, Entry(c1, "plain", l)>> : e \in FirstEntries, l \in {1, 2}}

VARIABLE reading    \* which of them

NoHeaders ==
    /\ client = c1 /\ how = "xff" /\ peer = c1 /\ hops = 0 /\ xff = <<>> /\ forwarded = <<>>
    /\ opaque = [xff |-> {}, forwarded |-> {}] /\ kept = TRUE /\ sent = {} /\ real_ip = NoAddress
Root == path = <<"", "">> /\ next = 1 /\ stack = <<>> /\ outcome = "walking"
NoToken == /\ endpoint = new /\ verdict = "pending"
           /\ columns = [action_scopes |-> None, resource_scopes |-> None]

MCInit ==
    \/ reading = "address" /\ Init /\ Root /\ CodecInit /\ NoToken
    \/ reading = "path"    /\ NoHeaders /\ PathInit /\ CodecInit /\ NoToken
    \/ reading = "session" /\ NoHeaders /\ Root /\ CodecInit /\ NoToken
    \/ reading = "scopes"  /\ NoHeaders /\ Root /\ CodecInit /\ ScopeInit

MCNext ==
    /\ UNCHANGED reading
    /\ \/ reading = "address" /\ Next /\ UNCHANGED <<pathVars, codecVars, scopeVars>>
       \/ reading = "path" /\ PathNext /\ UNCHANGED <<vars, codecVars, scopeVars>>
       \/ reading = "session" /\ StoreSession /\ UNCHANGED <<vars, pathVars, scopeVars>>
       \/ reading = "scopes" /\ ScopeNext /\ UNCHANGED <<vars, pathVars, codecVars>>

MCSpec == MCInit /\ [][MCNext]_<<reading, vars, pathVars, codecVars, scopeVars>>
=============================================================================
