------------------------------ MODULE ScopeChecks ------------------------------
(* AuthCheck over every small combination of an endpoint's demands and a        *)
(* token's scope columns, damaged columns included.                             *)
EXTENDS Scopes, FiniteSets, TLC

CONSTANTS
    MaxName,   \* bound: length of names and patterns
    MaxList    \* bound: entries of a column

ASSUME ScopeChecksAssumption == MaxName \in Nat /\ MaxList \in Nat

VARIABLES endpoint, columns, verdict

scopeVars == <<endpoint, columns, verdict>>

Words(alphabet) == UNION {[1 .. n -> alphabet] : n \in 0 .. MaxName}

ResourceNames == Words(Letters) \ {<< >>}

\* Short lists; "unknown" and misplaced stars do not parse.
ActionColumns == {None} \cup {S \in SUBSET (ActionScope \cup {"unknown"}) : Cardinality(S) <= MaxList}
ResourceColumns == {None} \cup {S \in SUBSET Words(Letters \cup {"*"}) : Cardinality(S) <= MaxList}
Columns == [action_scopes : ActionColumns, resource_scopes : ResourceColumns]

\* The checks the builder can put together.
Bases == {new, only_cookie}
Scoped == Bases \cup {with_action_scope(c, s) : c \in Bases, s \in {"read", "delete"}}
Endpoints == Scoped \cup {for_crate(c, n) : c \in Scoped, n \in ResourceNames}
                    \cup {allow_any_crate_scope(c) : c \in Scoped}

ScopeInit == endpoint \in Endpoints /\ columns \in Columns /\ verdict = "pending"

\* AuthCheck::check of a token-authenticated request.
check ==
    /\ verdict = "pending"
    /\ verdict' = IF TokenPasses(endpoint, columns) THEN "ok" ELSE "forbidden"
    /\ UNCHANGED <<endpoint, columns>>

ScopeNext == check

ScopeSpec == ScopeInit /\ [][ScopeNext]_scopeVars

-----------------------------------------------------------------------------
\* What an entry stands for, by the documentation of the scopes: admin is every
\* action, a trailing star every continuation, an entry that is neither nothing.
Actions(entry) == IF entry = "admin" THEN ActionScope ELSE {entry}
Covered(entry) ==
    {n \in ResourceNames : \E stem \in Words(Letters) :
        (entry = stem /\ n = stem) \/ (entry = Append(stem, "*") /\ IsPrefix(stem, n))}

\* Entries of one column are within those of another; None is everything, and a
\* column with an entry that does not parse is nothing.
Within(a, b, Meaning(_), Parses(_)) ==
    \/ b = None
    \/ a # None /\ \E e \in a : ~Parses(e)
    \/ /\ a # None /\ b # None /\ \A e \in b : Parses(e)
       /\ UNION {Meaning(e) : e \in a} \subseteq UNION {Meaning(e) : e \in b}

IsAction(entry) == entry \in ActionScope
IsPattern(entry) ==
    entry # << >> /\ \E stem \in Words(Letters) : entry = stem \/ entry = Append(stem, "*")

\* The one-column neighbours of the token.
Wider ==
    {[columns EXCEPT !.action_scopes = a] :
        a \in {a \in ActionColumns : Within(columns.action_scopes, a, Actions, IsAction)}}
    \cup {[columns EXCEPT !.resource_scopes = p] :
        p \in {p \in ResourceColumns : Within(columns.resource_scopes, p, Covered, IsPattern)}}

\* Restricting a token never gains it anything: what a token may do, every token
\* with wider columns may do.  An empty or a damaged list (parse_action_scopes,
\* parse_resource_scopes) is the narrowest of all, not the same as no list.
NarrowerNeverGains ==
    verdict = "ok" => \A wider \in Wider : TokenPasses(endpoint, wider)

\* A token whose list does not parse passes no check that looks at that list.
DamageFailsClosed ==
    verdict = "ok" =>
      /\ columns.action_scopes # None => \A e \in columns.action_scopes : IsAction(e)
      /\ columns.resource_scopes # None /\ endpoint.crate_name # None
           => \A e \in columns.resource_scopes : IsPattern(e)

\* Lists only ever restrict: narrowing, emptying or damaging a token's columns takes
\* rights away and never gives any, at every endpoint of controllers/token.rs.
ScopesOnlyRestrict == NarrowerNeverGains /\ DamageFailsClosed
=============================================================================
