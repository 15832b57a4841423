-------------------------------- MODULE Login --------------------------------
(***************************************************************************)
(* Signing in and out: the session cookie (src/middleware/session.rs), the  *)
(* OAuth handlers (src/controllers/auth.rs), the CSRF token                 *)
(* (src/middleware/csrf.rs, PageContext of src/router.rs) and the check of  *)
(* the user behind a cookie session (src/middleware/auth.rs).               *)
(*                                                                          *)
(* The server keeps no session.  A request carries the browser's cookie, the*)
(* handler works on a private copy of it, and a response that touched the   *)
(* copy writes ALL of it back.  Requests of one browser overlap, and their  *)
(* responses arrive in any order or not at all.  What a handler does to its *)
(* private copy between two awaits is one action.                           *)
(*                                                                          *)
(* state and code_verifier are drawn together by oauth_authorize and stand  *)
(* for one sign-in attempt, a flow: both are represented by the flow.       *)
(***************************************************************************)
CONSTANTS
    Browsers,
    Requests,   \* requests that may be in flight at once
    Providers,  \* configured OAuth providers
    Pkce,       \* the providers that insist on the code_verifier
    Accounts,   \* accounts people have with a provider
    Flows,      \* sign-in attempts
    Tokens,     \* CSRF tokens generate_token may draw
    None

\* What oauth_authorize was asked for when it started a flow.
Attempt == [browser : Browsers, provider : Providers, wanted : BOOLEAN]

ASSUME LoginAssumption ==
    /\ Pkce \subseteq Providers
    /\ None \notin Attempt
    /\ None \notin Browsers \cup Providers \cup Accounts \cup Flows \cup Tokens
    /\ None \notin Providers \X Accounts

VARIABLES
    cookies,   \* per browser: the session its cookie holds, or None
    pages,     \* per browser: the CSRF tokens shown on its open pages
    reqs,      \* requests in flight
    flows,     \* per flow: what oauth_authorize was asked for, or None
    users,     \* the table users
    minted,    \* history: the login a CSRF token was generated for, or None
    offered,   \* provider: flows whose authorization page a browser was sent to
    approved,  \* provider: per flow the account that authorized it, or None
    spent,     \* provider: flows whose code has been exchanged
    barred     \* history: requests whose user was refused ever since they were sent

vars == <<cookies, pages, reqs, flows, users, minted, offered, approved, spent, barred>>

-----------------------------------------------------------------------------
(* The session                                                              *)

\* A row of users is identified by (provider, provider_user_id).
Users == Providers \X Accounts

\* The keys of the session; None is a missing key.  redirect_to is the flow that
\* stored the path; `by` is history: the flow that put user_id there.
Session == [oauth_state         : Flows \cup {None},
            oauth_pkce_verifier : Flows \cup {None},
            oauth_provider      : Providers \cup {None},
            redirect_to         : Flows \cup {None},
            user_id             : Users \cup {None},
            csrf_token          : Tokens \cup {None},
            by                  : Flows \cup {None}]

Empty == [oauth_state |-> None, oauth_pkce_verifier |-> None, oauth_provider |-> None,
          redirect_to |-> None, user_id |-> None, csrf_token |-> None, by |-> None]

\* jar.get(COOKIE_NAME).map(decode).unwrap_or_default()
Decoded(b) == IF cookies[b] = None THEN Empty ELSE cookies[b]

\* A request as the server sees it: its copy of the session, whether it brought
\* a cookie, the flow named by a callback and the verifier taken for it, the user
\* it acts for (for a callback the server learns that from the userinfo answer),
\* the CSRF token it submits or renders, whether its handler succeeded, and the
\* redirect it was given.
Request == [pc       : {"idle", "exchange", "lookup", "update", "create", "auth", "reply"},
            kind     : {"none", "page", "authorize", "callback", "logout"},
            browser  : Browsers \cup {None},
            session  : Session,
            cookie   : BOOLEAN,
            dirty    : BOOLEAN,
            flow     : Flows \cup {None},
            verifier : Flows \cup {None},
            user     : Users \cup {None},
            token    : Tokens \cup {None},
            done     : BOOLEAN,
            landing  : Flows \cup {None}]

Idle == [pc |-> "idle", kind |-> "none", browser |-> None, session |-> Empty,
         cookie |-> FALSE, dirty |-> FALSE, flow |-> None, verifier |-> None, user |-> None,
         token |-> None, done |-> FALSE, landing |-> None]

\* A request of browser b, with its copy of the session.
Sent(b, kind) == [Idle EXCEPT !.kind = kind, !.browser = b,
                              !.session = Decoded(b), !.cookie = cookies[b] # None]

Init ==
    /\ cookies = [b \in Browsers |-> None]
    /\ pages = [b \in Browsers |-> {}]
    /\ reqs = [r \in Requests |-> Idle]
    /\ flows = [f \in Flows |-> None]
    /\ users = [u \in Users |-> "absent"]
    /\ minted = [t \in Tokens |-> None]
    /\ offered = {}
    /\ approved = [f \in Flows |-> None]
    /\ spent = {}
    /\ barred = {}

-----------------------------------------------------------------------------
(* Pages and the CSRF token                                                 *)

\* session_has_csrf_state
HasCsrfState(s) == s.user_id # None \/ s.csrf_token # None

\* generate_token: random, so never one drawn before.
Fresh == {t \in Tokens : minted[t] = None}

\* Mutant: every page draws a new token.
AlwaysCreate(s) == Fresh

\* get_or_create_csrf_token: the tokens it may return for session s.
GetOrCreate(s) == IF s.csrf_token # None THEN {s.csrf_token} ELSE Fresh

\* A page that uses PageContext.  Without state worth protecting there is no
\* token and the session stays clean.
Page(r, b) ==
    LET s == Decoded(b)
    IN  /\ reqs[r] = Idle
        /\ \/ /\ ~HasCsrfState(s)
              /\ reqs' = [reqs EXCEPT ![r] = [Sent(b, "page") EXCEPT !.pc = "reply", !.done = TRUE]]
              /\ UNCHANGED minted
           \/ /\ HasCsrfState(s)
              /\ \E t \in GetOrCreate(s) :
                    /\ reqs' = [reqs EXCEPT ![r] =
                          [Sent(b, "page") EXCEPT !.pc = "reply", !.done = TRUE, !.token = t,
                                                  !.session = [s EXCEPT !.csrf_token = t],
                                                  !.dirty = t # s.csrf_token]]
                    /\ minted' = IF t = s.csrf_token THEN minted ELSE [minted EXCEPT ![t] = s.by]
        /\ UNCHANGED <<cookies, pages, flows, users, offered, approved, spent, barred>>

-----------------------------------------------------------------------------
(* Signing in                                                               *)

\* Mutant: a verifier left behind by an earlier flow is kept.
StartedKeepingVerifier(s, f, p, wanted) ==
    [s EXCEPT !.oauth_state = f, !.oauth_provider = p,
              !.oauth_pkce_verifier = IF @ = None THEN f ELSE @,
              !.redirect_to = IF wanted THEN f ELSE @]

\* The inserts of oauth_authorize.  redirect_to is only written when the query
\* has a valid one; what an earlier flow left there stays otherwise.
Started(s, f, p, wanted) ==
    [s EXCEPT !.oauth_state = f, !.oauth_provider = p, !.oauth_pkce_verifier = f,
              !.redirect_to = IF wanted THEN f ELSE @]

oauth_authorize(r, b, p, f, wanted) ==
    /\ reqs[r] = Idle
    /\ flows[f] = None
    /\ flows' = [flows EXCEPT ![f] = [browser |-> b, provider |-> p, wanted |-> wanted]]
    /\ reqs' = [reqs EXCEPT ![r] =
          [Sent(b, "authorize") EXCEPT !.pc = "reply", !.done = TRUE, !.flow = f, !.dirty = TRUE,
                                       !.session = Started(Decoded(b), f, p, wanted)]]
    /\ UNCHANGED <<cookies, pages, users, minted, offered, approved, spent, barred>>

\* The provider (external): somebody authorizes flow f with account a, and the
\* browser is sent to the callback of that provider with a code and the state.
Approve(f, a) ==
    /\ f \in offered
    /\ approved[f] = None
    /\ approved' = [approved EXCEPT ![f] = a]
    /\ UNCHANGED <<cookies, pages, reqs, flows, users, minted, offered, spent, barred>>

\* The callback URL carries ?error=... or lacks a parameter.
CallbackDeclined(r, b) ==
    /\ reqs[r] = Idle
    /\ reqs' = [reqs EXCEPT ![r] = [Sent(b, "callback") EXCEPT !.pc = "reply"]]
    /\ UNCHANGED <<cookies, pages, flows, users, minted, offered, approved, spent, barred>>

\* Mutant: any flow in progress will do.
StatePresent(s, f) == s.oauth_state # None

\* session_state.ct_eq(csrf_state)
StateMatches(s, f) == s.oauth_state = f

Accepted(s, f, p) ==
    /\ s.oauth_provider = p
    /\ StateMatches(s, f)
    /\ s.oauth_pkce_verifier # None

\* The session after the checks: each key is removed before it is looked at, and
\* a failed check keeps the keys that were not reached.
Consumed(s, f, p) ==
    IF s.oauth_provider # p
    THEN [s EXCEPT !.oauth_provider = None]
    ELSE [s EXCEPT !.oauth_provider = None, !.oauth_state = None,
                   !.oauth_pkce_verifier = IF StateMatches(s, f) THEN None ELSE @]

\* oauth_callback up to the token request.  Any browser may be pointed at the
\* callback URL, any number of times.
Callback(r, b, f) ==
    LET s == Decoded(b)
        p == flows[f].provider
        u == <<p, approved[f]>>
    IN  /\ reqs[r] = Idle
        /\ approved[f] # None
        /\ reqs' = [reqs EXCEPT ![r] =
              [Sent(b, "callback") EXCEPT
                  !.pc = IF Accepted(s, f, p) THEN "exchange" ELSE "reply",
                  !.flow = f, !.dirty = TRUE, !.user = u,
                  !.verifier = s.oauth_pkce_verifier,
                  !.session = Consumed(s, f, p)]]
        /\ barred' = IF users[u] \in {"inactive", "locked"} THEN barred \cup {r} ELSE barred
        /\ UNCHANGED <<cookies, pages, flows, users, minted, offered, approved, spent>>

\* The code is exchanged and the profile fetched.  The provider takes a code
\* once, and one that insists on PKCE only with the verifier of its flow.
Exchange(r) ==
    LET q == reqs[r]
    IN  /\ q.pc = "exchange"
        /\ q.flow \notin spent
        /\ flows[q.flow].provider \in Pkce => q.verifier = q.flow
        /\ spent' = spent \cup {q.flow}
        /\ reqs' = [reqs EXCEPT ![r].pc = "lookup"]
        /\ UNCHANGED <<cookies, pages, flows, users, minted, offered, approved, barred>>

\* The exchange is refused or fails, before or after the provider took the code,
\* or the profile cannot be fetched: a 500 that still writes the session back.
ExchangeError(r) ==
    /\ reqs[r].pc = "exchange"
    /\ spent' \in {spent, spent \cup {reqs[r].flow}}
    /\ reqs' = [reqs EXCEPT ![r].pc = "reply"]
    /\ UNCHANGED <<cookies, pages, flows, users, minted, offered, approved, barred>>

\* Mutant: a locked account may log in.
MayLogIn(status) == status \in {"active", "locked"}

\* is_active and not is_locked
InGoodStanding(status) == status = "active"

\* User::get_by_provider_and_provider_user_id and the branch on its result.
LookupUser(r) ==
    LET status == users[reqs[r].user]
    IN  /\ reqs[r].pc = "lookup"
        /\ reqs' = [reqs EXCEPT ![r].pc = IF status = "absent" THEN "create"
                                          ELSE IF InGoodStanding(status) THEN "update"
                                          ELSE "reply"]
        /\ UNCHANGED <<cookies, pages, flows, users, minted, offered, approved, spent, barred>>

\* Mutant: a token of the session before the login survives it.
LoggedInKeepingToken(q, t) ==
    [Empty EXCEPT !.user_id = q.user, !.by = q.flow,
                  !.csrf_token = IF q.session.csrf_token = None THEN t ELSE q.session.csrf_token]

\* The session a login leaves: every transient key removed, the user and a fresh
\* CSRF token inserted.
LoggedIn(q, t) == [Empty EXCEPT !.user_id = q.user, !.by = q.flow, !.csrf_token = t]

\* The end of oauth_callback, after the user row was written.
Complete(r) ==
    \E t \in Fresh :
        /\ minted' = [minted EXCEPT ![t] = reqs[r].flow]
        /\ reqs' = [reqs EXCEPT ![r] = [reqs[r] EXCEPT !.pc = "reply", !.done = TRUE,
                                                       !.session = LoggedIn(reqs[r], t),
                                                       !.landing = reqs[r].session.redirect_to]]
        /\ UNCHANGED <<cookies, pages, flows, offered, approved, spent, barred>>

\* The profile of an existing user is updated; is_active and the lock are not
\* among the columns it touches.
UpdateUser(r) ==
    /\ reqs[r].pc = "update"
    /\ Complete(r)
    /\ UNCHANGED users

\* A new user is inserted; UNIQUE (provider, provider_user_id) lets one of two
\* first logins through.
CreateUser(r) ==
    /\ reqs[r].pc = "create"
    /\ users[reqs[r].user] = "absent"
    /\ Complete(r)
    /\ users' = [users EXCEPT ![reqs[r].user] = "active"]

\* A statement fails (also: the unique constraint), or the rate limiter refuses
\* the logout: the answer is an error, with the session as it is.
DbError(r) ==
    /\ reqs[r].pc \in {"lookup", "update", "create", "auth"}
    /\ reqs' = [reqs EXCEPT ![r].pc = "reply"]
    /\ UNCHANGED <<cookies, pages, flows, users, minted, offered, approved, spent, barred>>

-----------------------------------------------------------------------------
(* Signing out: POST /logout and /api/v1/auth/logout, behind require_auth,  *)
(* csrf_protect and rate_limit.                                             *)

\* A page of the browser submits the form, with the token it shows if any.
SubmitLogout(r, b, t) ==
    LET s == Decoded(b)
    IN  /\ reqs[r] = Idle
        /\ reqs' = [reqs EXCEPT ![r] = [Sent(b, "logout") EXCEPT !.pc = "auth", !.token = t,
                                                                 !.user = s.user_id]]
        /\ barred' = IF s.user_id # None /\ users[s.user_id] \in {"inactive", "locked"}
                     THEN barred \cup {r} ELSE barred
        /\ UNCHANGED <<cookies, pages, flows, users, minted, offered, approved, spent>>

\* enforce_authentication for a cookie session.
Authenticated(q) == q.user # None /\ InGoodStanding(users[q.user])

\* enforce_csrf for a session with state worth protecting.
CsrfValid(q) == q.token # None /\ q.token = q.session.csrf_token

\* require_auth and csrf_protect pass, the rate limiter lets the request through
\* and the handler clears the session.
logout(r) ==
    /\ reqs[r].pc = "auth"
    /\ Authenticated(reqs[r])
    /\ CsrfValid(reqs[r])
    /\ reqs' = [reqs EXCEPT ![r] = [reqs[r] EXCEPT !.pc = "reply", !.done = TRUE, !.dirty = TRUE,
                                                   !.session = Empty]]
    /\ UNCHANGED <<cookies, pages, flows, users, minted, offered, approved, spent, barred>>

\* 401, 403 or 400.
LogoutRefused(r) ==
    /\ reqs[r].pc = "auth"
    /\ ~Authenticated(reqs[r]) \/ ~CsrfValid(reqs[r])
    /\ reqs' = [reqs EXCEPT ![r].pc = "reply"]
    /\ UNCHANGED <<cookies, pages, flows, users, minted, offered, approved, spent, barred>>

-----------------------------------------------------------------------------
(* The response                                                             *)

\* A dirty session is written back, an empty one as a removal; the jar emits a
\* removal only for a cookie the request brought.
Written(q) ==
    IF ~q.dirty \/ (q.session = Empty /\ ~q.cookie) THEN cookies[q.browser]
    ELSE IF q.session = Empty THEN None
    ELSE q.session

\* The browser receives the response: it stores the cookie, shows the page, or
\* follows the redirect to the provider.
Deliver(r) ==
    LET q == reqs[r]
    IN  /\ q.pc = "reply"
        /\ cookies' = [cookies EXCEPT ![q.browser] = Written(q)]
        /\ pages' = IF q.kind = "page" /\ q.token # None
                    THEN [pages EXCEPT ![q.browser] = @ \cup {q.token}] ELSE pages
        /\ offered' = IF q.kind = "authorize" THEN offered \cup {q.flow} ELSE offered
        /\ reqs' = [reqs EXCEPT ![r] = Idle]
        /\ barred' = barred \ {r}
        /\ UNCHANGED <<flows, users, minted, approved, spent>>

\* The response never arrives: TimeoutLayer drops the handler where it stands
\* and answers without a cookie, the server crashes, the connection breaks.
Lose(r) ==
    /\ reqs[r].pc # "idle"
    /\ reqs' = [reqs EXCEPT ![r] = Idle]
    /\ barred' = barred \ {r}
    /\ UNCHANGED <<cookies, pages, flows, users, minted, offered, approved, spent>>

\* The browser forgets the cookie (max_age, or the user deletes it).
Expire(b) ==
    /\ cookies[b] # None
    /\ cookies' = [cookies EXCEPT ![b] = None]
    /\ UNCHANGED <<pages, reqs, flows, users, minted, offered, approved, spent, barred>>

\* An administrator, or a lock that runs out (external).
Sanction(u, status) ==
    /\ users[u] \notin {"absent", status}
    /\ users' = [users EXCEPT ![u] = status]
    /\ barred' = IF status = "active" THEN {r \in barred : reqs[r].user # u} ELSE barred
    /\ UNCHANGED <<cookies, pages, reqs, flows, minted, offered, approved, spent>>

Next ==
    \/ \E f \in Flows, a \in Accounts : Approve(f, a)
    \/ \E u \in Users, status \in {"active", "inactive", "locked"} : Sanction(u, status)
    \/ \E b \in Browsers : Expire(b)
    \/ \E r \in Requests :
          \/ \E b \in Browsers :
                \/ Page(r, b)
                \/ CallbackDeclined(r, b)
                \/ \E f \in Flows : Callback(r, b, f)
                \/ \E t \in pages[b] \cup {None} : SubmitLogout(r, b, t)
                \/ \E p \in Providers, f \in Flows, wanted \in BOOLEAN :
                      oauth_authorize(r, b, p, f, wanted)
          \/ Exchange(r) \/ ExchangeError(r)
          \/ LookupUser(r) \/ UpdateUser(r) \/ CreateUser(r) \/ DbError(r)
          \/ logout(r) \/ LogoutRefused(r)
          \/ Deliver(r) \/ Lose(r)

Spec == Init /\ [][Next]_vars

-----------------------------------------------------------------------------
(* Properties                                                               *)

\* Every table, cookie and request has its type; no cookie holds an empty session.
TypeOK ==
    /\ cookies \in [Browsers -> (Session \ {Empty}) \cup {None}]
    /\ pages \in [Browsers -> SUBSET Tokens]
    /\ reqs \in [Requests -> Request]
    /\ flows \in [Flows -> Attempt \cup {None}]
    /\ users \in [Users -> {"absent", "active", "inactive", "locked"}]
    /\ minted \in [Tokens -> Flows \cup {None}]
    /\ offered \subseteq Flows
    /\ approved \in [Flows -> Accounts \cup {None}]
    /\ spent \subseteq Flows
    /\ barred \subseteq Requests

\* Session s belongs to browser b: whoever it is logged in as authorized a flow
\* that this very browser started with that provider.
OwnLogin(b, s) ==
    s.user_id # None =>
        /\ s.by # None /\ flows[s.by] # None
        /\ flows[s.by].browser = b
        /\ s.user_id = <<flows[s.by].provider, approved[s.by]>>

\* A browser is only ever logged in through a flow of its own, although callback
\* URLs may be opened in other browsers, twice, and next to other flows.
LoginIsOwn == \A b \in Browsers : cookies[b] # None => OwnLogin(b, cookies[b])

\* The transient keys of a session never mix two flows, whatever flows overlap
\* and wherever a callback gave up: the recorded provider is the one the stored
\* state was issued for, and the verifier is the one of that state.
FlowKeysAgree ==
    \A b \in Browsers :
        LET s == Decoded(b)
        IN  /\ s.oauth_state # None => s.oauth_pkce_verifier = s.oauth_state
            /\ s.oauth_provider # None =>
                  s.oauth_state # None /\ s.oauth_provider = flows[s.oauth_state].provider

\* A session has a CSRF token exactly when it has a user, and the token was
\* drawn for that very login: no token of an earlier session survives one.
TokenPerLogin ==
    \A b \in Browsers :
        LET s == Decoded(b)
        IN  /\ s.user_id # None <=> s.csrf_token # None
            /\ s.csrf_token # None => minted[s.csrf_token] = s.by

\* A form stays good: a token shown on any page of the current login is the
\* token of the session, whatever other tabs did since.
OpenPagesStayValid ==
    \A b \in Browsers : \A t \in pages[b] :
        Decoded(b).user_id # None /\ minted[t] = Decoded(b).by => t = Decoded(b).csrf_token

\* A user who has been inactive or locked ever since a request was sent neither
\* logs in nor acts through that request, at whatever point of the handler the
\* account was sanctioned.
SanctionedStaysOut ==
    \A r \in barred : ~reqs[r].done

-----------------------------------------------------------------------------
(* The inductive invariant behind the properties above                      *)

\* What holds of any copy of browser b's session, in the cookie or in a request.
Sound(b, s) ==
    /\ s.oauth_state # None =>
          s.oauth_pkce_verifier = s.oauth_state /\ flows[s.oauth_state] # None
    /\ s.oauth_provider # None =>
          s.oauth_state # None /\ s.oauth_provider = flows[s.oauth_state].provider
    /\ s.oauth_state # None => flows[s.oauth_state].browser = b
    /\ s.user_id # None <=> s.csrf_token # None
    /\ s.csrf_token # None => minted[s.csrf_token] = s.by
    /\ OwnLogin(b, s)

CookiesSound == \A b \in Browsers : cookies[b] # None => Sound(b, cookies[b])

RequestsSound ==
    \A r \in Requests :
        reqs[r].pc # "idle" => reqs[r].browser \in Browsers /\ Sound(reqs[r].browser, reqs[r].session)

\* Beyond the exchange.
Redeemed(r) == reqs[r].pc \in {"lookup", "update", "create"}

\* A callback that passed the checks works for a flow of its own browser, and
\* acts for whoever authorized that flow.
CallbacksOwn ==
    \A r \in Requests :
        Redeemed(r) \/ reqs[r].pc = "exchange" =>
            /\ reqs[r].flow # None /\ flows[reqs[r].flow] # None
            /\ flows[reqs[r].flow].browser = reqs[r].browser
            /\ approved[reqs[r].flow] # None
            /\ reqs[r].user = <<flows[reqs[r].flow].provider, approved[reqs[r].flow]>>

\* Authorization URLs and approvals belong to flows that were started.
FlowsStarted ==
    /\ \A r \in Requests : reqs[r].kind = "authorize" => reqs[r].flow # None /\ flows[reqs[r].flow] # None
    /\ \A f \in offered : flows[f] # None
    /\ \A f \in Flows : approved[f] # None => flows[f] # None

\* A flow logs in once: its code is spent, one request holds the result, and no
\* token was drawn for it before that request ends.
RedeemedOnce ==
    /\ \A r \in Requests : Redeemed(r) =>
          /\ reqs[r].flow \in spent
          /\ \A q \in Requests : Redeemed(q) /\ reqs[q].flow = reqs[r].flow => q = r
          /\ \A t \in Tokens : minted[t] # reqs[r].flow
    /\ \A t \in Tokens : minted[t] # None => minted[t] \in spent
    /\ \A t, v \in Tokens : minted[t] # None /\ minted[t] = minted[v] => t = v

\* A barred request has not got past the check of its user.
BarredWaiting ==
    \A r \in barred :
        /\ reqs[r].pc \notin {"idle", "update", "create"}
        /\ reqs[r].user # None /\ users[reqs[r].user] \in {"inactive", "locked"}
        /\ ~reqs[r].done

\* The inductive invariant of the sign-in.
LoginInv ==
    /\ TypeOK
    /\ CookiesSound
    /\ RequestsSound
    /\ CallbacksOwn
    /\ FlowsStarted
    /\ RedeemedOnce
    /\ BarredWaiting
=============================================================================
