------------------------------- MODULE ApiTokens -------------------------------
(***************************************************************************)
(* API tokens at work: authenticate, validate_token and                     *)
(* enforce_authentication (src/middleware/auth.rs) in front of create_token,*)
(* list_tokens and revoke_token (src/controllers/token.rs).                 *)
(*                                                                          *)
(* A request is a sequence of statements with awaits between them, and keeps*)
(* the row it read at the first one: the token may be revoked or expire and *)
(* its owner may be deactivated or locked at every await.  A bearer string  *)
(* stands for the row whose hash it has, so no two rows share one.          *)
(***************************************************************************)
EXTENDS Integers, Scopes

CONSTANTS
    Users,
    Tokens,      \* rows of api_tokens, named by their bearer strings
    Requests,    \* requests in flight
    Ops,         \* the endpoints clients call
    Resource,    \* the resource name the three endpoints check, "tokens"
    Asked,       \* scope columns a creation may ask for, valid or not
    Hour,        \* from_hours(1), in ticks of the clock
    MaxLag,      \* what TimeoutLayer leaves a request, in ticks
    MaxClock

ASSUME TokensAssumption ==
    /\ Hour \in Nat \ {0} /\ MaxLag \in 0 .. Hour /\ MaxClock \in Nat
    /\ Ops \subseteq {"create", "list", "revoke"}
    /\ Resource \in Seq(Letters) /\ None \notin Users \cup Tokens
    /\ "bogus" \notin Tokens /\ Users \cap Tokens = {}

VARIABLES
    clock,
    users,     \* "active", "barred" (inactive or locked) or "gone"
    tokens,    \* the table api_tokens; None is a row not yet inserted
    reqs,
    doomed,    \* history: why a request's credential was void ever since it was sent
    used       \* history: when a token was last accepted, or None

vars == <<clock, users, tokens, reqs, doomed, used>>

Time == 0 .. MaxClock

\* A row.  made_by and ended_by are history: the credential that created and
\* revoked it, a token or the user whose session cookie it was.
ApiToken == [user_id : Users, revoked : BOOLEAN, expired_at : Time \cup {None},
             last_used_at : Time \cup {None}, scopes : Asked,
             made_by : Tokens \cup Users, ended_by : Tokens \cup Users \cup {None}]

\* SQL NULL is no value of any column.
ASSUME NullAssumption == None \notin ApiToken \cup Nat \cup {"bogus"}

\* A request: the user_id of its session cookie, its bearer string, whether it
\* brings the CSRF token of its session, the row it read (a snapshot), the user
\* and kind of Authentication, and the instant it read the clock.
Request == [pc      : {"idle", "token", "owner", "touch", "enforce", "guard", "act", "write", "reply"},
            op      : Ops \cup {None},
            cookie  : Users \cup {None},
            bearer  : Tokens \cup {"bogus", None},
            csrf    : BOOLEAN,
            target  : Tokens \cup {None},
            row     : ApiToken \cup {None},
            auth    : {"none", "cookie", "token"},
            user    : Users \cup {None},
            since   : Time,
            now     : Time,
            shown   : SUBSET Tokens]

Idle == [pc |-> "idle", op |-> None, cookie |-> None, bearer |-> None, csrf |-> FALSE,
         target |-> None, row |-> None, auth |-> "none", user |-> None, since |-> 0, now |-> 0,
         shown |-> {}]

Init ==
    /\ clock = 0
    /\ users = [u \in Users |-> "active"]
    /\ tokens = [t \in Tokens |-> None]
    /\ reqs = [r \in Requests |-> Idle]
    /\ doomed = [r \in Requests |-> "no"]
    /\ used = [t \in Tokens |-> None]

\* The request is answered, or dropped by the timeout or a closed connection.
Finish(r) ==
    /\ reqs' = [reqs EXCEPT ![r] = Idle]
    /\ doomed' = [doomed EXCEPT ![r] = "no"]

Reject(r) == Finish(r) /\ UNCHANGED <<clock, users, tokens, used>>

-----------------------------------------------------------------------------
(* Credentials                                                              *)

\* Mutant: the final instant still counts.
ValidThroughExpiry(row) ==
    ~row.revoked /\ (row.expired_at # None => row.expired_at >= clock)

\* api_token.revoked || !api_token.is_valid()
is_valid(row) == ~row.revoked /\ (row.expired_at # None => row.expired_at > clock)

\* is_active and not locked
InGoodStanding(u) == users[u] = "active"

\* The bearer string is no row's, or its row will never be valid again.
Dead(bearer) ==
    bearer = "bogus" \/ tokens[bearer].revoked
    \/ (tokens[bearer].expired_at # None /\ tokens[bearer].expired_at <= clock)

\* Why a credential is void, whoever looks at it: for good, or while its user is barred.
Void(bearer, cookie) ==
    IF (bearer # None /\ Dead(bearer)) \/ (bearer = None /\ cookie = None) THEN "dead"
    ELSE IF ~InGoodStanding(IF bearer # None THEN tokens[bearer].user_id ELSE cookie) THEN "barred"
    ELSE "no"

\* authenticate: the claim of the session cookie, replaced by a bearer token if
\* the request has one.  Bearer strings are random: before create_token returns one
\* nobody sends it, and any other string is "bogus".
Send(r) ==
    /\ reqs[r].pc = "idle"
    /\ \E op \in Ops, cookie \in Users \cup {None}, csrf \in BOOLEAN,
          bearer \in {t \in Tokens : tokens[t] # None} \cup {"bogus", None} :
         \E target \in IF op = "revoke" THEN Tokens ELSE {None} :
           /\ csrf => cookie # None
           /\ reqs' = [reqs EXCEPT ![r] =
                [Idle EXCEPT !.pc = IF bearer # None THEN "token" ELSE "enforce",
                             !.op = op, !.cookie = cookie, !.bearer = bearer, !.csrf = csrf,
                             !.target = target, !.user = cookie, !.since = clock,
                             !.auth = IF cookie = None THEN "none" ELSE "cookie"]]
           /\ doomed' = [doomed EXCEPT ![r] = Void(bearer, cookie)]
    /\ UNCHANGED <<clock, users, tokens, used>>

\* A row by the hash of the bearer string.
Row(bearer) == IF bearer = "bogus" THEN None ELSE tokens[bearer]

\* Mutant: a token that is refused leaves the request with its cookie.
LookupOrFallBack(r) ==
    LET q == reqs[r] row == Row(q.bearer) IN
    /\ q.pc = "token"
    /\ reqs' = [reqs EXCEPT ![r] =
         IF row # None /\ is_valid(row) THEN [q EXCEPT !.pc = "owner", !.row = row]
                                        ELSE [q EXCEPT !.pc = "enforce"]]
    /\ UNCHANGED <<clock, users, tokens, doomed, used>>

\* validate_token up to the checks of the row.
LookupToken(r) ==
    LET q == reqs[r] row == Row(q.bearer) IN
    /\ q.pc = "token"
    /\ \/ /\ row # None /\ is_valid(row)
          /\ reqs' = [reqs EXCEPT ![r] = [q EXCEPT !.pc = "owner", !.row = row]]
          /\ UNCHANGED <<clock, users, tokens, doomed, used>>
       \/ ~(row # None /\ is_valid(row)) /\ Reject(r)

\* Mutant: the Authentication of the cookie stays in place.
AcceptedAsCookie(q, pc) == [q EXCEPT !.pc = pc, !.user = q.row.user_id, !.now = clock]

\* The token is accepted as of `now`.
Accepted(q, pc) == [q EXCEPT !.pc = pc, !.auth = "token", !.user = q.row.user_id, !.now = clock]

Use(t, now) == [used EXCEPT ![t] = IF @ = None \/ @ < now THEN now ELSE @]

\* Mutant: any age is recent enough.
NeverStale(row, now) == row.last_used_at = None

\* last_used_at of the row as it was read
Stale(row, now) == row.last_used_at = None \/ row.last_used_at < now - Hour

\* The owner of the token, then the decision whether to refresh last_used_at.
LoadOwner(r) ==
    LET q == reqs[r] IN
    /\ q.pc = "owner"
    /\ \/ /\ InGoodStanding(q.row.user_id)
          /\ reqs' = [reqs EXCEPT ![r] = Accepted(q, IF Stale(q.row, clock) THEN "touch" ELSE "guard")]
          /\ used' = IF Stale(q.row, clock) THEN used ELSE Use(q.bearer, clock)
          /\ UNCHANGED <<clock, users, tokens, doomed>>
       \/ ~InGoodStanding(q.row.user_id) /\ Reject(r)

\* Mutant: the row is written back as it was read.
TouchWholeRow(r) ==
    LET q == reqs[r] IN
    /\ q.pc = "touch"
    /\ tokens' = [tokens EXCEPT ![q.bearer] = [q.row EXCEPT !.last_used_at = q.now]]
    /\ reqs' = [reqs EXCEPT ![r] = [q EXCEPT !.pc = "guard"]]
    /\ used' = Use(q.bearer, q.now)
    /\ UNCHANGED <<clock, users, doomed>>

\* update!(api_token { last_used_at }) writes one column, with the earlier clock.
Touch(r) ==
    LET q == reqs[r] IN
    /\ q.pc = "touch"
    /\ tokens' = [tokens EXCEPT ![q.bearer].last_used_at = q.now]
    /\ reqs' = [reqs EXCEPT ![r] = [q EXCEPT !.pc = "guard"]]
    /\ used' = Use(q.bearer, q.now)
    /\ UNCHANGED <<clock, users, doomed>>

\* require_auth for a cookie session: token requests were checked already.
enforce_authentication(r) ==
    LET q == reqs[r] IN
    /\ q.pc = "enforce"
    /\ \/ /\ q.user # None /\ InGoodStanding(q.user)
          /\ reqs' = [reqs EXCEPT ![r] = [q EXCEPT !.pc = "guard"]]
          /\ UNCHANGED <<clock, users, tokens, doomed, used>>
       \/ ~(q.user # None /\ InGoodStanding(q.user)) /\ Reject(r)

Unsafe(op) == op # "list"

\* enforce_csrf: a token-authenticated request or a safe method needs no CSRF token.
PassesCsrf(q) == q.auth = "token" \/ ~Unsafe(q.op) \/ q.csrf

\* csrf_protect, then rate_limit, which may answer 429.
protect(r) ==
    LET q == reqs[r] IN
    /\ q.pc = "guard"
    /\ \/ /\ PassesCsrf(q)
          /\ reqs' = [reqs EXCEPT ![r] = [q EXCEPT !.pc = "act"]]
          /\ UNCHANGED <<clock, users, tokens, doomed, used>>
       \/ Reject(r)

-----------------------------------------------------------------------------
(* The endpoints                                                            *)

Required == [create |-> "create", list |-> "read", revoke |-> "delete"]

CheckOf(op) == for_crate(with_action_scope(new, Required[op]), Resource)

\* AuthCheck::check
check(q) == q.auth = "token" => TokenPasses(CheckOf(q.op), q.row.scopes)

\* The credential a request acts with: its token, or the user its cookie names.
By(q) == IF q.auth = "token" THEN q.bearer ELSE q.cookie

\* Forbidden by AuthCheck.
Forbidden(r) == reqs[r].pc = "act" /\ ~check(reqs[r]) /\ Reject(r)

\* CreateTokenRequest::validate; a name out of bounds is one more bad request.
ValidRequest(asked, expires_at) ==
    /\ asked.action_scopes # None => asked.action_scopes \subseteq ActionScope
    /\ asked.resource_scopes # None => \A p \in asked.resource_scopes : is_valid_pattern(p)
    /\ expires_at # None => expires_at > clock

create_token(r) ==
    LET q == reqs[r] IN
    /\ q.pc = "act" /\ q.op = "create" /\ check(q)
    /\ \E asked \in Asked, expires_at \in Time \cup {None}, t \in Tokens :
         /\ ValidRequest(asked, expires_at)
         /\ tokens[t] = None
         /\ tokens' = [tokens EXCEPT ![t] =
              [user_id |-> q.user, revoked |-> FALSE, expired_at |-> expires_at,
               last_used_at |-> None, scopes |-> asked, made_by |-> By(q), ended_by |-> None]]
    /\ Finish(r)
    /\ UNCHANGED <<clock, users, used>>

\* A body that does not validate.
BadRequest(r) ==
    /\ reqs[r].pc = "act" /\ reqs[r].op = "create" /\ check(reqs[r])
    /\ \E asked \in Asked, expires_at \in Time \cup {None} : ~ValidRequest(asked, expires_at)
    /\ Reject(r)

\* Some page, of at most MAX_TOKEN_PER_PAGE rows and in no stated order, of the
\* user's tokens, revoked and expired ones included.
list_tokens(r) ==
    LET q == reqs[r] IN
    /\ q.pc = "act" /\ q.op = "list" /\ check(q)
    /\ \E page \in SUBSET {t \in Tokens : tokens[t] # None /\ tokens[t].user_id = q.user} :
         reqs' = [reqs EXCEPT ![r] = [q EXCEPT !.pc = "reply", !.shown = page]]
    /\ UNCHANGED <<clock, users, tokens, doomed, used>>

Deliver(r) == reqs[r].pc = "reply" /\ Reject(r)

\* Mutant: for a session the row is looked up by its id alone.
FindAnyones(r) ==
    LET q == reqs[r]
        found == tokens[q.target] # None /\ (q.auth = "token" => tokens[q.target].user_id = q.user)
    IN
    /\ q.pc = "act" /\ q.op = "revoke" /\ check(q)
    /\ \/ /\ found
          /\ reqs' = [reqs EXCEPT ![r] = [q EXCEPT !.pc = "write"]]
          /\ UNCHANGED <<clock, users, tokens, doomed, used>>
       \/ ~found /\ Reject(r)

\* revoke_token looks the row up by id and owner, or answers 404.
FindOwn(r) ==
    LET q == reqs[r] own == tokens[q.target] # None /\ tokens[q.target].user_id = q.user IN
    /\ q.pc = "act" /\ q.op = "revoke" /\ check(q)
    /\ \/ /\ own
          /\ reqs' = [reqs EXCEPT ![r] = [q EXCEPT !.pc = "write"]]
          /\ UNCHANGED <<clock, users, tokens, doomed, used>>
       \/ ~own /\ Reject(r)

\* update!(token { revoked: true })
Revoke(r) ==
    LET q == reqs[r] IN
    /\ q.pc = "write"
    /\ tokens' = [tokens EXCEPT ![q.target].revoked = TRUE,
                                ![q.target].ended_by = IF @ = None THEN By(q) ELSE @]
    /\ Finish(r)
    /\ UNCHANGED <<clock, users, used>>

-----------------------------------------------------------------------------
(* The environment                                                          *)

\* A statement fails, the timeout fires or the client goes away.
Lose(r) == reqs[r].pc # "idle" /\ Reject(r)

\* The user a request would act for.
Principal(q) == IF q.bearer # None THEN tokens[q.bearer].user_id ELSE q.cookie

\* An account is deactivated, locked, deleted or (not after that) reinstated.
Sanction(u) ==
    \E s \in {"active", "barred", "gone"} \ {users[u]} :
      /\ users[u] # "gone"
      /\ users' = [users EXCEPT ![u] = s]
      /\ doomed' = [r \in Requests |->
           IF s = "active" /\ doomed[r] = "barred" /\ Principal(reqs[r]) = u THEN "no" ELSE doomed[r]]
      /\ UNCHANGED <<clock, tokens, reqs, used>>

\* No request outlives the TimeoutLayer.
Tick ==
    /\ clock < MaxClock
    /\ \A r \in Requests : reqs[r].pc # "idle" => clock < reqs[r].since + MaxLag
    /\ clock' = clock + 1
    /\ UNCHANGED <<users, tokens, reqs, doomed, used>>

Next ==
    \/ \E r \in Requests :
         \/ Send(r) \/ LookupToken(r) \/ LoadOwner(r) \/ Touch(r) \/ enforce_authentication(r)
         \/ protect(r) \/ Forbidden(r) \/ create_token(r) \/ BadRequest(r)
         \/ list_tokens(r) \/ Deliver(r) \/ FindOwn(r) \/ Revoke(r) \/ Lose(r)
    \/ \E u \in Users : Sanction(u)
    \/ Tick

Spec == Init /\ [][Next]_vars

-----------------------------------------------------------------------------
(* Properties                                                               *)

Acting(r) == reqs[r].pc \in {"act", "write", "reply"}

\* Type correctness.  A request has a row exactly while a token vouches for it.
TypeOK ==
    /\ clock \in Time
    /\ users \in [Users -> {"active", "barred", "gone"}]
    /\ tokens \in [Tokens -> ApiToken \cup {None}]
    /\ reqs \in [Requests -> Request]
    /\ \A r \in Requests : (reqs[r].row # None) <=> (reqs[r].pc = "owner" \/ reqs[r].auth = "token")
    /\ doomed \in [Requests -> {"no", "dead", "barred"}]
    /\ used \in [Tokens -> Time \cup {None}]

\* A revocation or an expiry takes effect for every request sent after it, and so
\* does a sanction of the owner or of the cookie's user until it is lifted: such a
\* request never reaches a handler, however its statements interleave with other
\* requests.  (One that is already past validate_token goes on.)
DeadOnArrival == \A r \in Requests : doomed[r] # "no" => ~Acting(r)

\* A request that presents a bearer token acts for that token's owner or not at
\* all, whatever cookie it also carries; one without acts for its cookie's user,
\* and changes something only with the CSRF token of that session.
OneIdentity ==
    \A r \in Requests :
      Acting(r) =>
        LET q == reqs[r] IN
        IF q.bearer # None
        THEN q.bearer \in Tokens /\ q.auth = "token" /\ q.user = tokens[q.bearer].user_id
        ELSE q.auth = "cookie" /\ q.user = q.cookie /\ (Unsafe(q.op) => q.csrf)

\* The credential `by` covers op on rows of user u, by what the table says now: it is
\* the session of u, or a token of u with the scopes.
Covers(by, op, u) ==
    by = u \/ (by \in Tokens /\ tokens[by].user_id = u /\ TokenPasses(CheckOf(op), tokens[by].scopes))

\* Rows are created, revoked and shown only for their owner: through a session of the
\* owner's, or through a token of the owner's whose scopes, as stored, cover it.
WithinRights ==
    /\ \A t \in Tokens : tokens[t] # None =>
         /\ Covers(tokens[t].made_by, "create", tokens[t].user_id)
         /\ tokens[t].revoked <=> tokens[t].ended_by # None
         /\ tokens[t].revoked => Covers(tokens[t].ended_by, "revoke", tokens[t].user_id)
    /\ \A r \in Requests : \A t \in reqs[r].shown :
         Covers(By(reqs[r]), "list", tokens[t].user_id) /\ tokens[t].user_id = reqs[r].user

\* Whatever credentials a request mixes, authenticate gives it one identity, and the
\* handlers of controllers/token.rs do for it what that identity may do, no more.
ActsAsItself == OneIdentity /\ WithinRights

\* Revocation is final: no late write of a request that read the row before
\* brings the token back, moves its expiry or widens its scopes.
RevocationSticks ==
    [][\A t \in Tokens : tokens[t] # None =>
         /\ tokens'[t] # None
         /\ tokens[t].revoked => tokens'[t].revoked
         /\ tokens'[t].scopes = tokens[t].scopes /\ tokens'[t].expired_at = tokens[t].expired_at
         /\ tokens'[t].user_id = tokens[t].user_id]_vars

\* last_used_at is never more than an hour and one request's lifetime behind the
\* last use of the token, although it is written only when stale, and by a request
\* with an older clock possibly after one with a newer.
LastUsedIsRecent ==
    \A t \in Tokens : used[t] # None =>
      tokens[t].last_used_at # None /\ tokens[t].last_used_at + Hour + MaxLag >= used[t]
=============================================================================
