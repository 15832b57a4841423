-------------------------------- MODULE Scopes --------------------------------
(***************************************************************************)
(* What an API token may do: ActionScope and ResourceScope                  *)
(* (src/models/token.rs) and the AuthCheck an endpoint makes                *)
(* (src/util/auth.rs).                                                      *)
(*                                                                          *)
(* A scope column is None (SQL NULL, a legacy token) or the set of entries  *)
(* of its JSON list.  Names and patterns are sequences of characters,       *)
(* because the meaning of a pattern is a matter of prefixes.                *)
(***************************************************************************)
EXTENDS Sequences, SequencesExt

CONSTANTS
    Letters,   \* characters is_valid_pattern accepts in a name
    None

ASSUME ScopesAssumption ==
    "*" \notin Letters /\ None \notin {"*"} \cup Letters /\ None # {}

ActionScope == {"read", "create", "update", "delete", "admin"}

-----------------------------------------------------------------------------
(* Patterns                                                                 *)

EndsInStar(pattern) == pattern # << >> /\ Last(pattern) = "*"

\* strip_suffix('*').unwrap_or(pattern)
Stem(pattern) == IF EndsInStar(pattern) THEN Front(pattern) ELSE pattern

is_valid_pattern(pattern) ==
    pattern # << >> /\ \A i \in DOMAIN Stem(pattern) : Stem(pattern)[i] \in Letters

\* ResourceScope::matches
matches(pattern, name) ==
    IF EndsInStar(pattern) THEN IsPrefix(Stem(pattern), name) ELSE name = pattern

\* can_perform
can_perform(scope, action) == scope = "admin" \/ scope = action

-----------------------------------------------------------------------------
(* The columns of a token                                                   *)

\* One entry serde rejects loses the whole list, and the list left is empty.
parse_action_scopes(column) ==
    IF column = None THEN None ELSE IF column \subseteq ActionScope THEN column ELSE {}

\* Mutant: the entries that do parse are kept.
SkipsBadEntries(column) ==
    IF column = None THEN None ELSE {p \in column : is_valid_pattern(p)}

parse_resource_scopes(column) ==
    IF column = None THEN None
    ELSE IF \A p \in column : is_valid_pattern(p) THEN column ELSE {}

-----------------------------------------------------------------------------
(* AuthCheck                                                                *)

AuthCheck == [allow_token : BOOLEAN, action_scope : ActionScope \cup {None},
              crate_name : Seq(Letters) \cup {None}, allow_any_crate_scope : BOOLEAN]

new == [allow_token |-> TRUE, action_scope |-> None, crate_name |-> None,
        allow_any_crate_scope |-> FALSE]

only_cookie == [new EXCEPT !.allow_token = FALSE]

with_action_scope(c, scope) == [c EXCEPT !.action_scope = scope]

for_crate(c, name) == [c EXCEPT !.crate_name = name]

allow_any_crate_scope(c) == [c EXCEPT !.allow_any_crate_scope = TRUE]

\* Mutant: an empty list counts as no restriction.
EmptyIsLegacy(c, scopes) ==
    \/ scopes = None \/ scopes = {}
    \/ \E s \in scopes : can_perform(s, IF c.action_scope = None THEN "admin" ELSE c.action_scope)

\* An endpoint that declares no scope is for admin tokens.
action_scope_matches(c, scopes) ==
    \/ scopes = None
    \/ /\ scopes # None
       /\ \E s \in scopes : can_perform(s, IF c.action_scope = None THEN "admin" ELSE c.action_scope)

\* An endpoint without a resource is open to a restricted token only if it says so.
resource_scope_matches(c, scopes) ==
    \/ scopes = None
    \/ /\ scopes # None
       /\ IF c.crate_name = None THEN c.allow_any_crate_scope
          ELSE \E p \in scopes : matches(p, c.crate_name)

\* check, for a token with these columns.
TokenPasses(c, token) ==
    /\ c.allow_token
    /\ action_scope_matches(c, parse_action_scopes(token.action_scopes))
    /\ resource_scope_matches(c, parse_resource_scopes(token.resource_scopes))
=============================================================================
