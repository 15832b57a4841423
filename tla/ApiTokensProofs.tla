---------------------------- MODULE ApiTokensProofs ----------------------------
(***************************************************************************)
(* Proofs about ApiTokens for any number of users, tokens and overlapping   *)
(* requests, and for any hour and request timeout.  A request works with    *)
(* the row it read at its first statement; the invariant says what of that  *)
(* snapshot still agrees with the table, and what a request has been        *)
(* through at each statement it can stand at.                               *)
(***************************************************************************)
EXTENDS ApiTokens, TLAPS

-----------------------------------------------------------------------------
(* The inductive invariant.  T is the table api_tokens, U the table users,  *)
(* c the clock.                                                             *)

\* The credential `by` exists and covers op on rows of user u.
Entitled(T, by, op, u) ==
    by = u \/ (/\ by \in Tokens /\ T[by] # None /\ T[by].user_id = u
               /\ TokenPasses(CheckOf(op), T[by].scopes))

\* A row was made, and ended if it was, by a credential that may.
RowSound(row, T, c) ==
    row # None =>
      /\ Entitled(T, row.made_by, "create", row.user_id)
      /\ row.revoked <=> row.ended_by # None
      /\ row.revoked => Entitled(T, row.ended_by, "revoke", row.user_id)
      /\ row.last_used_at # None => row.last_used_at <= c

\* The snapshot of a row agrees with the row in what never changes, and
\* last_used_at does not fall back by more than a request's lifetime.
Snapshot(row, now) ==
    /\ now # None /\ now.user_id = row.user_id /\ now.scopes = row.scopes
    /\ row.last_used_at # None =>
         now.last_used_at # None /\ now.last_used_at + MaxLag >= row.last_used_at

\* A request has the identity of the one credential it is judged by.
Identified(q, T) ==
    IF q.bearer # None
    THEN q.bearer \in Tokens /\ q.auth = "token" /\ q.user = T[q.bearer].user_id
    ELSE q.auth = "cookie" /\ q.user = q.cookie /\ q.user # None

\* What a request has been through at each point.
Placed(q, T) ==
    /\ q.pc = "idle" => q = Idle
    /\ q.pc # "idle" => q.op \in Ops /\ (q.op = "revoke" => q.target \in Tokens)
    /\ q.bearer \in Tokens => T[q.bearer] # None
    /\ q.row # None => q.bearer \in Tokens /\ Snapshot(q.row, T[q.bearer])
    /\ (q.row # None) <=> (q.pc = "owner" \/ q.auth = "token")
    /\ q.pc \in {"token", "owner"} => q.bearer # None /\ q.auth # "token"
    /\ q.pc = "touch" => Identified(q, T) /\ q.bearer # None
    /\ q.pc = "enforce" => /\ q.bearer = None /\ q.user = q.cookie
                           /\ q.auth = IF q.cookie = None THEN "none" ELSE "cookie"
    /\ q.pc \in {"guard", "act", "write", "reply"} => Identified(q, T)
    /\ q.pc \in {"act", "write", "reply"} => PassesCsrf(q)
    /\ q.pc = "write" => /\ q.op = "revoke" /\ check(q)
                         /\ T[q.target] # None /\ T[q.target].user_id = q.user
    /\ q.shown # {} => q.pc = "reply" /\ q.op = "list" /\ check(q)
    /\ \A t \in q.shown : T[t] # None /\ T[t].user_id = q.user

\* A request is younger than the timeout, and has read the clock in its lifetime.
Timely(q, c) ==
    q.pc # "idle" => /\ q.since <= c /\ c <= q.since + MaxLag
                     /\ q.pc = "touch" => q.since <= q.now /\ q.now <= c
                     /\ q.row # None /\ q.row.last_used_at # None => q.row.last_used_at <= c

\* The bearer string is no row's, or its row is revoked or expired.
DeadIn(T, c, bearer) ==
    bearer = "bogus" \/ T[bearer].revoked
    \/ (T[bearer].expired_at # None /\ T[bearer].expired_at <= c)

\* A request that was sent with a void credential has not got past the statement
\* that finds out.
Stopped(q, doom, T, U, c) ==
    /\ doom = "dead" =>
         \/ q.pc = "token" /\ DeadIn(T, c, q.bearer)
         \/ q.pc = "enforce" /\ q.user = None
    /\ doom = "barred" =>
         \/ q.pc \in {"token", "owner"} /\ q.bearer \in Tokens /\ U[T[q.bearer].user_id] # "active"
         \/ q.pc = "enforce" /\ q.user # None /\ U[q.user] # "active"

\* last_used_at keeps up with the last use.
Recent(last, row, c) ==
    last # None => /\ last <= c /\ row # None
                   /\ row.last_used_at # None /\ row.last_used_at + Hour + MaxLag >= last

Types ==
    /\ clock \in Time
    /\ users \in [Users -> {"active", "barred", "gone"}]
    /\ tokens \in [Tokens -> ApiToken \cup {None}]
    /\ reqs \in [Requests -> Request]
    /\ doomed \in [Requests -> {"no", "dead", "barred"}]
    /\ used \in [Tokens -> Time \cup {None}]

TokensInv ==
    /\ Types
    /\ \A t \in Tokens : RowSound(tokens[t], tokens, clock)
    /\ \A t \in Tokens : Recent(used[t], tokens[t], clock)
    /\ \A r \in Requests : /\ Placed(reqs[r], tokens) /\ Timely(reqs[r], clock)
                           /\ Stopped(reqs[r], doomed[r], tokens, users, clock)

-----------------------------------------------------------------------------
(* Records and tables                                                       *)

\* A row of api_tokens with its fields spelled out.
LEMMA RowFields ==
    ASSUME NEW row \in ApiToken
    PROVE  /\ row # None /\ row.user_id \in Users /\ row.revoked \in BOOLEAN
           /\ row.expired_at \in Time \cup {None} /\ row.last_used_at \in Time \cup {None}
           /\ row.scopes \in Asked /\ row.made_by \in Tokens \cup Users
           /\ row.ended_by \in Tokens \cup Users \cup {None}
  BY NullAssumption DEF ApiToken

\* A request with its fields spelled out.
LEMMA RequestFields ==
    ASSUME NEW q \in Request
    PROVE  /\ q.pc \in {"idle", "token", "owner", "touch", "enforce", "guard", "act", "write", "reply"}
           /\ q.op \in Ops \cup {None} /\ q.cookie \in Users \cup {None}
           /\ q.bearer \in Tokens \cup {"bogus", None} /\ q.csrf \in BOOLEAN
           /\ q.target \in Tokens \cup {None} /\ q.row \in ApiToken \cup {None}
           /\ q.auth \in {"none", "cookie", "token"} /\ q.user \in Users \cup {None}
           /\ q.since \in Time /\ q.now \in Time /\ q.shown \in SUBSET Tokens
  BY DEF Request

\* What the timing arguments need of the constants.
LEMMA Numbers ==
    /\ Hour \in Nat /\ MaxLag \in Nat /\ MaxClock \in Nat /\ Time \subseteq Nat
    /\ None \notin Time /\ None # "bogus" /\ None \notin Tokens
    /\ None \notin Users /\ "bogus" \notin Tokens
  BY TokensAssumption, NullAssumption DEF Time

\* Rows stay, and keep what never changes.
Kept(T, T2) ==
    \A t \in Tokens : T[t] # None =>
      /\ T2[t] # None
      /\ T2[t].user_id = T[t].user_id /\ T2[t].scopes = T[t].scopes
      /\ T2[t].expired_at = T[t].expired_at /\ (T[t].revoked => T2[t].revoked)

\* What a credential covers it goes on to cover.
LEMMA EntitledKept ==
    ASSUME NEW T, NEW T2, Kept(T, T2), NEW by, NEW op, NEW u, Entitled(T, by, op, u)
    PROVE  Entitled(T2, by, op, u)
  BY DEF Kept, Entitled

\* A request that does nothing keeps its place, whatever the table goes through.
LEMMA PlacedKept ==
    ASSUME NEW T, NEW T2, Kept(T, T2), NEW q \in Request, Placed(q, T),
           q.row # None => Snapshot(q.row, T2[q.bearer])
    PROVE  Placed(q, T2)
<1>1. Identified(q, T) /\ (q.bearer \in Tokens => T[q.bearer] # None) => Identified(q, T2)
  BY DEF Identified, Kept
<1>2. q.pc = "write" => q.target \in Tokens
  BY DEF Placed
<1>3. q.shown \subseteq Tokens
  BY RequestFields
<1> QED
  BY <1>1, <1>2, <1>3 DEF Placed, Kept

\* A void credential stays void.
LEMMA StoppedKept ==
    ASSUME NEW T, NEW T2, Kept(T, T2), NEW q \in Request, Placed(q, T), NEW doom, NEW U,
           NEW c \in Time, NEW c2 \in Time, c <= c2, Stopped(q, doom, T, U, c),
           \A t \in Tokens : T[t] \in ApiToken \cup {None}
    PROVE  Stopped(q, doom, T2, U, c2)
<1>1. q.bearer \in Tokens => T[q.bearer] # None
  BY DEF Placed
<1>2. q.pc = "token" => q.bearer \in Tokens \cup {"bogus"}
  BY RequestFields DEF Placed
<1>3. ASSUME q.bearer \in Tokens, DeadIn(T, c, q.bearer)
      PROVE  DeadIn(T2, c2, q.bearer)
  <2>1. T[q.bearer] \in ApiToken
    BY <1>1, <1>3
  <2>2. T[q.bearer].expired_at \in Time \cup {None}
    BY <2>1, RowFields
  <2> QED
    BY <1>3, <1>1, <2>2, Numbers DEF DeadIn, Kept, Time
<1>4. DeadIn(T2, c2, "bogus")
  BY DEF DeadIn
<1>5. q.bearer \in Tokens => T2[q.bearer].user_id = T[q.bearer].user_id
  BY <1>1 DEF Kept
<1> QED
  BY <1>2, <1>3, <1>4, <1>5 DEF Stopped

\* An idle request claims nothing.
LEMMA IdleSound ==
    ASSUME NEW T, NEW U, NEW c
    PROVE  /\ Idle \in Request /\ Placed(Idle, T) /\ Timely(Idle, c)
           /\ Stopped(Idle, "no", T, U, c)
<1>1. Idle \in Request
  BY TokensAssumption DEF Idle, Request, Time
<1>2. Placed(Idle, T)
  BY Numbers DEF Idle, Placed
<1> QED
  BY <1>1, <1>2 DEF Idle, Timely, Stopped

\* Nothing is stored or in flight initially.
LEMMA InitInv == Init => TokensInv
<1> SUFFICES ASSUME Init PROVE TokensInv
  OBVIOUS
<1>1. Types
  BY IdleSound, TokensAssumption DEF Init, Types, Time
<1>2. \A r \in Requests : /\ Placed(reqs[r], tokens) /\ Timely(reqs[r], clock)
                          /\ Stopped(reqs[r], doomed[r], tokens, users, clock)
  BY IdleSound DEF Init
<1> QED
  BY <1>1, <1>2 DEF Init, TokensInv, RowSound, Recent

-----------------------------------------------------------------------------
(* The steps                                                                *)

\* A step of one request, whatever it does to the table and to itself.
LEMMA OneStep ==
    ASSUME TokensInv, NEW r \in Requests, NEW q \in Request, NEW doom \in {"no", "dead", "barred"},
           reqs' = [reqs EXCEPT ![r] = q], doomed' = [doomed EXCEPT ![r] = doom],
           UNCHANGED <<clock, users>>,
           tokens' \in [Tokens -> ApiToken \cup {None}], used' \in [Tokens -> Time \cup {None}],
           Kept(tokens, tokens'),
           \A t \in Tokens : RowSound(tokens'[t], tokens', clock),
           \A t \in Tokens : Recent(used'[t], tokens'[t], clock),
           \A s \in Requests \ {r} : reqs[s].row # None => Snapshot(reqs[s].row, tokens'[reqs[s].bearer]),
           Placed(q, tokens'), Timely(q, clock), Stopped(q, doom, tokens', users, clock)
    PROVE  TokensInv'
<1>1. Types'
  BY DEF TokensInv, Types
<1>2. ASSUME NEW s \in Requests
      PROVE  (/\ Placed(reqs[s], tokens) /\ Timely(reqs[s], clock)
              /\ Stopped(reqs[s], doomed[s], tokens, users, clock))'
  <2>1. CASE s = r
    <3>1. reqs'[s] = q /\ doomed'[s] = doom
      BY <2>1 DEF TokensInv, Types
    <3> QED
      BY <3>1
  <2>2. CASE s # r
    <3>1. reqs'[s] = reqs[s] /\ doomed'[s] = doomed[s] /\ reqs[s] \in Request
      BY <2>2 DEF TokensInv, Types
    <3>2. /\ Placed(reqs[s], tokens) /\ Timely(reqs[s], clock)
          /\ Stopped(reqs[s], doomed[s], tokens, users, clock)
      BY DEF TokensInv
    <3>3. Placed(reqs[s], tokens')
      BY <2>2, <3>1, <3>2, PlacedKept
    <3>4. /\ clock \in Time /\ clock <= clock
          /\ \A t \in Tokens : tokens[t] \in ApiToken \cup {None}
      BY Numbers DEF TokensInv, Types
    <3>5. Stopped(reqs[s], doomed[s], tokens', users, clock)
      BY <3>1, <3>2, <3>4, StoppedKept
    <3> QED
      BY <3>1, <3>2, <3>3, <3>5
  <2> QED
    BY <2>1, <2>2
<1> QED
  BY <1>1, <1>2 DEF TokensInv

\* A step of one request that leaves the tables alone.
LEMMA QuietStep ==
    ASSUME TokensInv, NEW r \in Requests, NEW q \in Request, NEW doom \in {"no", "dead", "barred"},
           reqs' = [reqs EXCEPT ![r] = q], doomed' = [doomed EXCEPT ![r] = doom],
           UNCHANGED <<clock, users, tokens>>,
           used' \in [Tokens -> Time \cup {None}],
           \A t \in Tokens : Recent(used'[t], tokens[t], clock),
           Placed(q, tokens), Timely(q, clock), Stopped(q, doom, tokens, users, clock)
    PROVE  TokensInv'
<1>1. Kept(tokens, tokens')
  BY DEF Kept
<1>2. \A s \in Requests \ {r} : reqs[s].row # None => Snapshot(reqs[s].row, tokens'[reqs[s].bearer])
  BY DEF TokensInv, Placed
<1>3. \A t \in Tokens : RowSound(tokens'[t], tokens', clock)
  BY DEF TokensInv
<1>4. tokens' \in [Tokens -> ApiToken \cup {None}]
  BY DEF TokensInv, Types
<1>5. /\ \A t \in Tokens : Recent(used'[t], tokens'[t], clock)
      /\ Placed(q, tokens') /\ Stopped(q, doom, tokens', users, clock)
  OBVIOUS
<1> QED
  BY <1>1, <1>2, <1>3, <1>4, <1>5, OneStep

\* A request that ends without a change.
LEMMA RejectStep ==
    ASSUME TokensInv, NEW r \in Requests, Reject(r)
    PROVE  TokensInv'
<1>1. /\ reqs' = [reqs EXCEPT ![r] = Idle] /\ doomed' = [doomed EXCEPT ![r] = "no"]
      /\ UNCHANGED <<clock, users, tokens, used>>
  BY DEF Reject, Finish
<1>2. used' \in [Tokens -> Time \cup {None}] /\ \A t \in Tokens : Recent(used'[t], tokens[t], clock)
  BY <1>1 DEF TokensInv, Types
<1> QED
  BY <1>1, <1>2, IdleSound, QuietStep

\* The facts about one request that every handler starts from.
LEMMA RequestFacts ==
    ASSUME TokensInv, NEW r \in Requests
    PROVE  /\ reqs[r] \in Request /\ doomed[r] \in {"no", "dead", "barred"} /\ clock \in Time
           /\ Placed(reqs[r], tokens) /\ Timely(reqs[r], clock)
           /\ Stopped(reqs[r], doomed[r], tokens, users, clock)
           /\ doomed = [doomed EXCEPT ![r] = doomed[r]]
           /\ used \in [Tokens -> Time \cup {None}] /\ \A t \in Tokens : Recent(used[t], tokens[t], clock)
           /\ \A t \in Tokens : tokens[t] # None => tokens[t] \in ApiToken
  BY DEF TokensInv, Types

\* A request comes in: why its credential is void is what Stopped says of it.
LEMMA SendStep ==
    ASSUME TokensInv, NEW r \in Requests, Send(r)
    PROVE  TokensInv'
<1>1. PICK op \in Ops, cookie \in Users \cup {None}, csrf \in BOOLEAN,
           bearer \in {t \in Tokens : tokens[t] # None} \cup {"bogus", None} :
        \E target \in IF op = "revoke" THEN Tokens ELSE {None} :
           /\ csrf => cookie # None
           /\ reqs' = [reqs EXCEPT ![r] =
                [Idle EXCEPT !.pc = IF bearer # None THEN "token" ELSE "enforce",
                             !.op = op, !.cookie = cookie, !.bearer = bearer, !.csrf = csrf,
                             !.target = target, !.user = cookie, !.since = clock,
                             !.auth = IF cookie = None THEN "none" ELSE "cookie"]]
           /\ doomed' = [doomed EXCEPT ![r] = Void(bearer, cookie)]
  BY DEF Send
<1>2. PICK target \in IF op = "revoke" THEN Tokens ELSE {None} :
           /\ reqs' = [reqs EXCEPT ![r] =
                [Idle EXCEPT !.pc = IF bearer # None THEN "token" ELSE "enforce",
                             !.op = op, !.cookie = cookie, !.bearer = bearer, !.csrf = csrf,
                             !.target = target, !.user = cookie, !.since = clock,
                             !.auth = IF cookie = None THEN "none" ELSE "cookie"]]
           /\ doomed' = [doomed EXCEPT ![r] = Void(bearer, cookie)]
  BY <1>1
<1> DEFINE q == [Idle EXCEPT !.pc = IF bearer # None THEN "token" ELSE "enforce",
                             !.op = op, !.cookie = cookie, !.bearer = bearer, !.csrf = csrf,
                             !.target = target, !.user = cookie, !.since = clock,
                             !.auth = IF cookie = None THEN "none" ELSE "cookie"]
<1>3. /\ q.pc = (IF bearer # None THEN "token" ELSE "enforce") /\ q.op = op /\ q.cookie = cookie
      /\ q.bearer = bearer /\ q.target = target /\ q.row = None /\ q.user = cookie /\ q.since = clock
      /\ q.auth = (IF cookie = None THEN "none" ELSE "cookie") /\ q.shown = {}
  BY DEF Idle
<1>4. q \in Request
  <2>1. bearer \in Tokens \cup {"bogus", None} /\ target \in Tokens \cup {None} /\ clock \in Time
    BY RequestFacts
  <2>2. [Idle EXCEPT !.op = op, !.cookie = cookie, !.bearer = bearer, !.target = target,
                     !.user = cookie, !.since = clock] \in Request
    BY <2>1, IdleSound DEF Request
  <2>3. ASSUME NEW p \in Request, NEW pc \in {"token", "enforce"}, NEW auth \in {"none", "cookie"}
        PROVE  [p EXCEPT !.pc = pc, !.auth = auth, !.csrf = csrf] \in Request
    BY DEF Request
  <2> QED
    BY <2>2, <2>3
<1> HIDE DEF q
<1>5. Placed(q, tokens)
  BY <1>3, Numbers DEF Placed
<1>6. Timely(q, clock)
  BY <1>3, RequestFacts, Numbers DEF Timely, Time
<1>7. Void(bearer, cookie) \in {"no", "dead", "barred"}
  BY DEF Void
<1>8. Stopped(q, Void(bearer, cookie), tokens, users, clock)
  BY <1>3, Numbers DEF Stopped, Void, Dead, DeadIn, InGoodStanding
<1>9. /\ UNCHANGED <<clock, users, tokens>> /\ used' \in [Tokens -> Time \cup {None}]
      /\ \A t \in Tokens : Recent(used'[t], tokens[t], clock)
  BY RequestFacts DEF Send
<1>10. reqs' = [reqs EXCEPT ![r] = q]
  BY <1>2 DEF q
<1> QED
  BY <1>2, <1>4, <1>5, <1>6, <1>7, <1>8, <1>9, <1>10, QuietStep

\* The row is read.  A dead one is not valid, so only a barred owner is still to be found.
LEMMA LookupStep ==
    ASSUME TokensInv, NEW r \in Requests, LookupToken(r)
    PROVE  TokensInv'
<1> DEFINE q == reqs[r]
           row == Row(q.bearer)
           q2 == [q EXCEPT !.pc = "owner", !.row = row]
<1>1. CASE ~(row # None /\ is_valid(row)) /\ Reject(r)
  BY <1>1, RejectStep
<1>2. CASE /\ row # None /\ is_valid(row) /\ reqs' = [reqs EXCEPT ![r] = q2]
           /\ UNCHANGED <<clock, users, tokens, doomed, used>>
  <2>1. q.pc = "token" /\ q.bearer \in Tokens /\ row = tokens[q.bearer] /\ row \in ApiToken
    BY <1>2, RequestFacts, RequestFields, Numbers DEF LookupToken, Placed, Row
  <2>2. q.row = None /\ q.auth # "token" /\ q.shown = {}
    BY <2>1, RequestFacts DEF Placed
  <2>3. /\ q2 \in Request /\ q2.pc = "owner" /\ q2.row = row /\ q2.bearer = q.bearer
        /\ q2.auth = q.auth /\ q2.shown = {} /\ q2.op = q.op /\ q2.target = q.target
        /\ q2.since = q.since /\ q2.user = q.user
    <3>1. ASSUME NEW p \in Request, NEW w \in ApiToken
          PROVE  LET p2 == [p EXCEPT !.pc = "owner", !.row = w] IN
                 /\ p2 \in Request /\ p2.pc = "owner" /\ p2.row = w /\ p2.bearer = p.bearer
                 /\ p2.auth = p.auth /\ p2.shown = p.shown /\ p2.op = p.op /\ p2.target = p.target
                 /\ p2.since = p.since /\ p2.user = p.user
      BY DEF Request
    <3>2. q \in Request
      BY RequestFacts
    <3> HIDE DEF q, row
    <3> QED
      BY <2>1, <2>2, <3>1, <3>2
  <2>4. Snapshot(row, tokens[q.bearer])
    BY <2>1, RowFields, Numbers DEF Snapshot, Time
  <2>5. Placed(q2, tokens)
    BY <2>1, <2>2, <2>3, <2>4, RequestFacts, RowFields, Numbers DEF Placed
  <2>6. RowSound(row, tokens, clock) /\ row # None
    BY <2>1, <1>2 DEF TokensInv
  <2>7. Timely(q2, clock)
    BY <2>1, <2>3, <2>6, RequestFacts DEF Timely, RowSound
  <2>8. Stopped(q2, doomed[r], tokens, users, clock)
    <3>1. ~DeadIn(tokens, clock, q.bearer)
      BY <1>2, <2>1, RowFields, RequestFacts, Numbers DEF DeadIn, is_valid, Time
    <3> QED
      BY <2>1, <2>3, <3>1, RequestFacts DEF Stopped
  <2>9. doomed' = [doomed EXCEPT ![r] = doomed[r]] /\ used' = used
    BY <1>2, RequestFacts
  <2> HIDE DEF q2
  <2> QED
    BY <1>2, <2>3, <2>5, <2>7, <2>8, <2>9, RequestFacts, QuietStep
<1> QED
  BY <1>1, <1>2 DEF LookupToken

\* The owner is in good standing: from here on the request is the token's.  The row it
\* read is fresh enough, or it goes on to refresh it.
LEMMA LoadOwnerStep ==
    ASSUME TokensInv, NEW r \in Requests, LoadOwner(r)
    PROVE  TokensInv'
<1> DEFINE q == reqs[r]
           pc == IF Stale(q.row, clock) THEN "touch" ELSE "guard"
           q2 == Accepted(q, pc)
<1>1. CASE ~InGoodStanding(q.row.user_id) /\ Reject(r)
  BY <1>1, RejectStep
<1>2. CASE /\ InGoodStanding(q.row.user_id) /\ reqs' = [reqs EXCEPT ![r] = q2]
           /\ used' = (IF Stale(q.row, clock) THEN used ELSE Use(q.bearer, clock))
           /\ UNCHANGED <<clock, users, tokens, doomed>>
  <2>1. /\ q.pc = "owner" /\ q.bearer \in Tokens /\ q.row \in ApiToken /\ q.row # None
        /\ Snapshot(q.row, tokens[q.bearer]) /\ q.shown = {} /\ q \in Request
        /\ q.op \in Ops /\ (q.op = "revoke" => q.target \in Tokens)
    BY RequestFacts, RequestFields DEF LoadOwner, Placed
  <2>2. /\ q2 \in Request /\ q2.pc = pc /\ q2.auth = "token" /\ q2.user = q.row.user_id
        /\ q2.now = clock /\ q2.bearer = q.bearer /\ q2.row = q.row /\ q2.shown = {}
        /\ q2.op = q.op /\ q2.target = q.target /\ q2.since = q.since
    <3>1. pc \in {"touch", "guard"} /\ q.row.user_id \in Users /\ clock \in Time
      BY <2>1, RowFields, RequestFacts
    <3>2. q2 = [q EXCEPT !.pc = pc, !.auth = "token", !.user = q.row.user_id, !.now = clock]
      BY DEF Accepted
    <3>3. q \in Request /\ q.shown = {}
      BY <2>1
    <3> HIDE DEF q, pc, q2
    <3> QED
      BY <3>1, <3>2, <3>3 DEF Request
  <2>3. pc \in {"touch", "guard"}
    OBVIOUS
  <2>4. tokens[q.bearer] \in ApiToken /\ tokens[q.bearer].user_id = q.row.user_id
    BY <2>1, RequestFacts DEF Snapshot
  <2>5. Placed(q2, tokens)
    <3> HIDE DEF q, pc, q2
    <3> QED
      BY <2>1, <2>2, <2>3, <2>4, RowFields, Numbers DEF Placed, Identified
  <2>6. Timely(q2, clock)
    <3>1. Timely(q, clock) /\ clock \in Time
      BY RequestFacts
    <3> HIDE DEF q, pc, q2
    <3> QED
      BY <2>1, <2>2, <3>1, Numbers DEF Timely, Time
  <2>7. doomed[r] = "no"
    <3>1. users[tokens[q.bearer].user_id] = "active"
      BY <1>2, <2>4 DEF InGoodStanding
    <3> QED
      BY <2>1, <3>1, RequestFacts DEF Stopped
  <2>8. Stopped(q2, doomed[r], tokens, users, clock)
    BY <2>7 DEF Stopped
  <2>9. used' \in [Tokens -> Time \cup {None}] /\ \A t \in Tokens : Recent(used'[t], tokens[t], clock)
    <3>1. CASE Stale(q.row, clock)
      BY <3>1, <1>2, RequestFacts
    <3>2. CASE ~Stale(q.row, clock)
      <4>1. used' = Use(q.bearer, clock)
        BY <1>2, <3>2
      <4>2. used \in [Tokens -> Time \cup {None}] /\ clock \in Time
        BY RequestFacts
      <4>3. used' \in [Tokens -> Time \cup {None}]
        BY <4>1, <4>2 DEF Use
      <4>4. \A t \in Tokens \ {q.bearer} : used'[t] = used[t]
        BY <4>1, <4>2 DEF Use
      <4>5. used'[q.bearer] = clock
        <5>1. used[q.bearer] # None => used[q.bearer] <= clock
          BY <2>1, RequestFacts DEF Recent
        <5>2. used[q.bearer] \in Time \cup {None}
          BY <2>1, <4>2
        <5> QED
          BY <4>1, <4>2, <2>1, <5>1, <5>2, Numbers DEF Use, Time
      <4>6. /\ q.row.last_used_at \in Time /\ clock <= q.row.last_used_at + Hour
        BY <3>2, <2>1, <4>2, RowFields, Numbers DEF Stale, Time
      <4>7. /\ tokens[q.bearer].last_used_at \in Time
            /\ tokens[q.bearer].last_used_at + MaxLag >= q.row.last_used_at
        BY <2>1, <2>4, <4>6, RowFields, Numbers DEF Snapshot
      <4>8. Recent(used'[q.bearer], tokens[q.bearer], clock)
        BY <4>5, <4>6, <4>7, <4>2, <2>1, Numbers DEF Recent, Snapshot, Time
      <4> QED
        BY <4>3, <4>4, <4>8, RequestFacts
    <3> QED
      BY <3>1, <3>2
  <2>10. doomed' = [doomed EXCEPT ![r] = doomed[r]] /\ doomed[r] \in {"no", "dead", "barred"}
    BY <1>2, RequestFacts
  <2> HIDE DEF q2
  <2> QED
    BY <1>2, <2>2, <2>5, <2>6, <2>8, <2>9, <2>10, QuietStep
<1> QED
  BY <1>1, <1>2 DEF LoadOwner

\* A request that goes on with nothing but its place changed.
LEMMA Moved ==
    ASSUME NEW q \in Request, NEW pc \in {"guard", "act", "write"}
    PROVE  LET q2 == [q EXCEPT !.pc = pc] IN
           /\ q2 \in Request /\ q2.pc = pc /\ q2.op = q.op /\ q2.cookie = q.cookie
           /\ q2.bearer = q.bearer /\ q2.csrf = q.csrf /\ q2.target = q.target /\ q2.row = q.row
           /\ q2.auth = q.auth /\ q2.user = q.user /\ q2.since = q.since /\ q2.now = q.now
           /\ q2.shown = q.shown
  BY DEF Request

\* It is still who it was and may do what it might.
LEMMA MovedSame ==
    ASSUME NEW q \in Request, NEW pc \in {"guard", "act", "write"}, NEW q2, q2 = [q EXCEPT !.pc = pc],
           NEW T
    PROVE  /\ Identified(q, T) => Identified(q2, T)
           /\ check(q) => check(q2)
           /\ PassesCsrf(q) => PassesCsrf(q2)
<1>1. /\ q2.op = q.op /\ q2.cookie = q.cookie /\ q2.bearer = q.bearer /\ q2.csrf = q.csrf
      /\ q2.row = q.row /\ q2.auth = q.auth /\ q2.user = q.user
  BY Moved
<1> QED
  BY <1>1 DEF Identified, check, PassesCsrf

\* A request moves on, with the tables as they are.
LEMMA MoveStep ==
    ASSUME TokensInv, NEW r \in Requests, NEW pc \in {"guard", "act", "write"},
           reqs' = [reqs EXCEPT ![r] = [reqs[r] EXCEPT !.pc = pc]],
           UNCHANGED <<clock, users, tokens, doomed, used>>,
           reqs[r].pc \notin {"idle", "owner"}, reqs[r].shown = {}, doomed[r] = "no",
           Identified(reqs[r], tokens),
           pc # "guard" => PassesCsrf(reqs[r]),
           pc = "write" => /\ reqs[r].op = "revoke" /\ check(reqs[r])
                           /\ tokens[reqs[r].target] # None
                           /\ tokens[reqs[r].target].user_id = reqs[r].user
    PROVE  TokensInv'
<1> DEFINE q == reqs[r]
           q2 == [q EXCEPT !.pc = pc]
<1>1. q \in Request /\ Placed(q, tokens) /\ Timely(q, clock) /\ clock \in Time
  BY RequestFacts
<1>2. /\ q2 \in Request /\ q2.pc = pc /\ q2.op = q.op /\ q2.cookie = q.cookie
      /\ q2.bearer = q.bearer /\ q2.csrf = q.csrf /\ q2.target = q.target /\ q2.row = q.row
      /\ q2.auth = q.auth /\ q2.user = q.user /\ q2.since = q.since /\ q2.now = q.now
      /\ q2.shown = q.shown
  BY <1>1, Moved
<1>3. /\ Identified(q2, tokens)
      /\ check(q) => check(q2)
      /\ PassesCsrf(q) => PassesCsrf(q2)
  BY <1>1, MovedSame
<1> HIDE DEF q2
<1>4. Placed(q2, tokens)
  BY <1>1, <1>2, <1>3 DEF Placed
<1>5. Timely(q2, clock)
  BY <1>1, <1>2 DEF Timely
<1>6. Stopped(q2, "no", tokens, users, clock)
  BY DEF Stopped
<1>7. reqs' = [reqs EXCEPT ![r] = q2] /\ doomed' = [doomed EXCEPT ![r] = "no"]
  BY RequestFacts DEF q2
<1> QED
  BY <1>2, <1>4, <1>5, <1>6, <1>7, RequestFacts, QuietStep

\* require_auth lets the user of a cookie through.
LEMMA EnforceStep ==
    ASSUME TokensInv, NEW r \in Requests, enforce_authentication(r)
    PROVE  TokensInv'
<1> DEFINE q == reqs[r]
<1>1. CASE ~(q.user # None /\ InGoodStanding(q.user)) /\ Reject(r)
  BY <1>1, RejectStep
<1>2. CASE /\ q.user # None /\ InGoodStanding(q.user)
           /\ reqs' = [reqs EXCEPT ![r] = [q EXCEPT !.pc = "guard"]]
           /\ UNCHANGED <<clock, users, tokens, doomed, used>>
  <2>1. q.pc = "enforce" /\ q.bearer = None /\ q.user = q.cookie /\ q.auth = "cookie" /\ q.shown = {}
    BY <1>2, RequestFacts DEF enforce_authentication, Placed
  <2>2. Identified(q, tokens)
    BY <1>2, <2>1 DEF Identified
  <2>3. doomed[r] = "no"
    BY <1>2, <2>1, RequestFacts DEF Stopped, InGoodStanding
  <2> QED
    BY <1>2, <2>1, <2>2, <2>3, MoveStep
<1> QED
  BY <1>1, <1>2 DEF enforce_authentication

\* csrf_protect and rate_limit let the request through.
LEMMA ProtectStep ==
    ASSUME TokensInv, NEW r \in Requests, protect(r)
    PROVE  TokensInv'
<1>1. CASE Reject(r)
  BY <1>1, RejectStep
<1>2. CASE /\ PassesCsrf(reqs[r]) /\ reqs' = [reqs EXCEPT ![r] = [reqs[r] EXCEPT !.pc = "act"]]
           /\ UNCHANGED <<clock, users, tokens, doomed, used>>
  <2>1. reqs[r].pc = "guard" /\ Identified(reqs[r], tokens) /\ reqs[r].shown = {}
    BY RequestFacts DEF protect, Placed
  <2>2. doomed[r] = "no"
    BY <2>1, RequestFacts DEF Stopped
  <2> QED
    BY <1>2, <2>1, <2>2, MoveStep
<1> QED
  BY <1>1, <1>2 DEF protect

\* revoke_token finds the row, which is the user's.
LEMMA FindOwnStep ==
    ASSUME TokensInv, NEW r \in Requests, FindOwn(r)
    PROVE  TokensInv'
<1> DEFINE q == reqs[r]
           own == tokens[q.target] # None /\ tokens[q.target].user_id = q.user
<1>1. CASE ~own /\ Reject(r)
  BY <1>1, RejectStep
<1>2. CASE /\ own /\ reqs' = [reqs EXCEPT ![r] = [q EXCEPT !.pc = "write"]]
           /\ UNCHANGED <<clock, users, tokens, doomed, used>>
  <2>1. /\ q.pc = "act" /\ q.op = "revoke" /\ check(q)
        /\ Identified(q, tokens) /\ PassesCsrf(q) /\ q.shown = {}
    BY RequestFacts DEF FindOwn, Placed
  <2>2. doomed[r] = "no"
    BY <2>1, RequestFacts DEF Stopped
  <2> QED
    BY <1>2, <2>1, <2>2, MoveStep
<1> QED
  BY <1>1, <1>2 DEF FindOwn

\* list_tokens has a page of the user's rows.
LEMMA ListStep ==
    ASSUME TokensInv, NEW r \in Requests, list_tokens(r)
    PROVE  TokensInv'
<1> DEFINE q == reqs[r]
<1>1. PICK page \in SUBSET {t \in Tokens : tokens[t] # None /\ tokens[t].user_id = q.user} :
        reqs' = [reqs EXCEPT ![r] = [q EXCEPT !.pc = "reply", !.shown = page]]
  BY DEF list_tokens
<1> DEFINE q2 == [q EXCEPT !.pc = "reply", !.shown = page]
<1>2. q.pc = "act" /\ q.op = "list" /\ check(q) /\ UNCHANGED <<clock, users, tokens, doomed, used>>
  BY DEF list_tokens
<1>3. q \in Request /\ Placed(q, tokens) /\ Timely(q, clock) /\ clock \in Time /\ page \subseteq Tokens
  BY RequestFacts
<1>4. /\ q2 \in Request /\ q2.pc = "reply" /\ q2.op = q.op /\ q2.cookie = q.cookie
      /\ q2.bearer = q.bearer /\ q2.csrf = q.csrf /\ q2.target = q.target /\ q2.row = q.row
      /\ q2.auth = q.auth /\ q2.user = q.user /\ q2.since = q.since /\ q2.now = q.now
      /\ q2.shown = page
  <2>1. ASSUME NEW p \in Request, NEW S \in SUBSET Tokens
        PROVE  LET p2 == [p EXCEPT !.pc = "reply", !.shown = S] IN
               /\ p2 \in Request /\ p2.pc = "reply" /\ p2.op = p.op /\ p2.cookie = p.cookie
               /\ p2.bearer = p.bearer /\ p2.csrf = p.csrf /\ p2.target = p.target /\ p2.row = p.row
               /\ p2.auth = p.auth /\ p2.user = p.user /\ p2.since = p.since /\ p2.now = p.now
               /\ p2.shown = S
    BY DEF Request
  <2> QED
    BY <1>3, <2>1
<1> HIDE DEF q2
<1>5. Identified(q2, tokens) /\ check(q2) /\ PassesCsrf(q2)
  <2>1. Identified(q, tokens) /\ PassesCsrf(q)
    BY <1>2, <1>3 DEF Placed
  <2> QED
    BY <1>2, <1>4, <2>1 DEF Identified, check, PassesCsrf
<1>6. Placed(q2, tokens)
  BY <1>2, <1>3, <1>4, <1>5 DEF Placed
<1>7. Timely(q2, clock)
  BY <1>2, <1>3, <1>4 DEF Timely
<1>8. doomed[r] = "no"
  BY <1>2, RequestFacts DEF Stopped
<1>9. Stopped(q2, "no", tokens, users, clock)
  BY DEF Stopped
<1>10. reqs' = [reqs EXCEPT ![r] = q2] /\ doomed' = [doomed EXCEPT ![r] = "no"]
  BY <1>1, <1>2, <1>8, RequestFacts DEF q2
<1> QED
  BY <1>2, <1>4, <1>6, <1>7, <1>9, <1>10, RequestFacts, QuietStep

\* One row changes in what may change.
LEMMA ChangedRow ==
    ASSUME TokensInv, NEW b \in Tokens, tokens[b] # None, NEW row \in ApiToken,
           tokens' = [tokens EXCEPT ![b] = row],
           row.user_id = tokens[b].user_id, row.scopes = tokens[b].scopes,
           row.expired_at = tokens[b].expired_at, row.made_by = tokens[b].made_by,
           tokens[b].revoked => row.revoked, row.revoked <=> row.ended_by # None,
           row.revoked => Entitled(tokens, row.ended_by, "revoke", row.user_id),
           row.last_used_at # None => row.last_used_at <= clock,
           \A s \in Requests : reqs[s].row # None /\ reqs[s].bearer = b => Snapshot(reqs[s].row, row)
    PROVE  /\ tokens' \in [Tokens -> ApiToken \cup {None}] /\ Kept(tokens, tokens')
           /\ \A t \in Tokens : RowSound(tokens'[t], tokens', clock)
           /\ \A s \in Requests : reqs[s].row # None => Snapshot(reqs[s].row, tokens'[reqs[s].bearer])
           /\ tokens'[b] = row /\ \A t \in Tokens \ {b} : tokens'[t] = tokens[t]
<1>1. tokens \in [Tokens -> ApiToken \cup {None}]
  BY DEF TokensInv, Types
<1>2. /\ tokens' \in [Tokens -> ApiToken \cup {None}]
      /\ tokens'[b] = row /\ \A t \in Tokens \ {b} : tokens'[t] = tokens[t]
  BY <1>1
<1>3. row # None
  BY RowFields
<1>4. Kept(tokens, tokens')
  BY <1>2, <1>3 DEF Kept
<1>5. ASSUME NEW t \in Tokens
      PROVE  RowSound(tokens'[t], tokens', clock)
  <2>1. RowSound(tokens[t], tokens, clock)
    BY DEF TokensInv
  <2>2. CASE t = b
    <3>1. Entitled(tokens', row.made_by, "create", row.user_id)
      BY <1>4, <2>1, <2>2, EntitledKept DEF RowSound
    <3>2. row.revoked => Entitled(tokens', row.ended_by, "revoke", row.user_id)
      BY <1>4, EntitledKept
    <3> QED
      BY <1>2, <2>2, <3>1, <3>2 DEF RowSound
  <2>3. CASE t # b
    <3>1. tokens'[t] = tokens[t]
      BY <1>2, <2>3
    <3> QED
      BY <1>4, <2>1, <3>1, EntitledKept DEF RowSound
  <2> QED
    BY <2>2, <2>3
<1>6. ASSUME NEW s \in Requests, reqs[s].row # None
      PROVE  Snapshot(reqs[s].row, tokens'[reqs[s].bearer])
  <2>1. reqs[s].bearer \in Tokens /\ Snapshot(reqs[s].row, tokens[reqs[s].bearer])
    BY <1>6 DEF TokensInv, Placed
  <2> QED
    BY <1>2, <1>6, <2>1
<1> QED
  BY <1>2, <1>4, <1>5, <1>6

\* The refresh of last_used_at, with the earlier reading of the clock: at most a
\* request's lifetime behind whatever others wrote or read meanwhile.
LEMMA TouchStep ==
    ASSUME TokensInv, NEW r \in Requests, Touch(r)
    PROVE  TokensInv' /\ Kept(tokens, tokens')
<1> DEFINE q == reqs[r]
           b == q.bearer
           row == [tokens[b] EXCEPT !.last_used_at = q.now]
           q2 == [q EXCEPT !.pc = "guard"]
<1>1. /\ q.pc = "touch" /\ reqs' = [reqs EXCEPT ![r] = q2] /\ used' = Use(b, q.now)
      /\ tokens' = [tokens EXCEPT ![b] = row] /\ UNCHANGED <<clock, users, doomed>>
  BY DEF Touch
<1>2. /\ q \in Request /\ Placed(q, tokens) /\ Timely(q, clock) /\ clock \in Time /\ q.now \in Time
      /\ q.since \in Time
  BY RequestFacts, RequestFields
<1>3. /\ b \in Tokens /\ tokens[b] # None /\ tokens[b] \in ApiToken /\ Identified(q, tokens)
      /\ q.auth = "token" /\ q.row # None /\ q.shown = {}
  BY <1>1, <1>2, RequestFacts DEF Placed, Identified
<1>4. /\ row \in ApiToken /\ row.user_id = tokens[b].user_id /\ row.scopes = tokens[b].scopes
      /\ row.expired_at = tokens[b].expired_at /\ row.made_by = tokens[b].made_by
      /\ row.revoked = tokens[b].revoked /\ row.ended_by = tokens[b].ended_by
      /\ row.last_used_at = q.now
  <2>1. ASSUME NEW w \in ApiToken, NEW now \in Time
        PROVE  LET w2 == [w EXCEPT !.last_used_at = now] IN
               /\ w2 \in ApiToken /\ w2.user_id = w.user_id /\ w2.scopes = w.scopes
               /\ w2.expired_at = w.expired_at /\ w2.made_by = w.made_by
               /\ w2.revoked = w.revoked /\ w2.ended_by = w.ended_by /\ w2.last_used_at = now
    BY DEF ApiToken
  <2> HIDE DEF q, b
  <2> QED
    BY <1>2, <1>3, <2>1
<1>5. q.now <= clock /\ clock <= q.now + MaxLag
  BY <1>1, <1>2, Numbers DEF Timely, Time
<1>6. ASSUME NEW s \in Requests, reqs[s].row # None, reqs[s].bearer = b
      PROVE  Snapshot(reqs[s].row, row)
  <2>1. Snapshot(reqs[s].row, tokens[b]) /\ reqs[s].row \in ApiToken
    BY <1>6, RequestFacts, RequestFields DEF Placed
  <2>2. reqs[s].row.last_used_at # None => reqs[s].row.last_used_at <= clock
    <3>1. reqs[s].pc # "idle"
      BY <1>6, RequestFacts DEF Placed, Idle
    <3> QED
      BY <1>6, <3>1, RequestFacts DEF Timely
  <2>3. reqs[s].row.last_used_at \in Time \cup {None} /\ row # None
    BY <2>1, <1>4, RowFields
  <2> HIDE DEF q, b, row
  <2> QED
    BY <1>2, <1>4, <1>5, <2>1, <2>2, <2>3, Numbers DEF Snapshot, Time
<1>7. RowSound(tokens[b], tokens, clock)
  BY <1>3 DEF TokensInv
<1> HIDE DEF q2, row
<1>8. /\ tokens' \in [Tokens -> ApiToken \cup {None}] /\ Kept(tokens, tokens')
      /\ \A t \in Tokens : RowSound(tokens'[t], tokens', clock)
      /\ \A s \in Requests : reqs[s].row # None => Snapshot(reqs[s].row, tokens'[reqs[s].bearer])
      /\ tokens'[b] = row /\ \A t \in Tokens \ {b} : tokens'[t] = tokens[t]
  BY <1>1, <1>3, <1>4, <1>5, <1>6, <1>7, ChangedRow DEF RowSound
<1>9. /\ used' \in [Tokens -> Time \cup {None}] /\ used'[b] \in Time /\ used'[b] <= clock
      /\ \A t \in Tokens \ {b} : used'[t] = used[t]
  <2>1. used \in [Tokens -> Time \cup {None}] /\ Recent(used[b], tokens[b], clock)
    BY <1>3, RequestFacts
  <2>2. used[b] # None => used[b] <= clock
    BY <2>1 DEF Recent
  <2> HIDE DEF q, b
  <2> QED
    BY <1>1, <1>2, <1>3, <1>5, <2>1, <2>2, Numbers DEF Use, Time
<1>10. ASSUME NEW t \in Tokens
       PROVE  Recent(used'[t], tokens'[t], clock)
  <2>1. CASE t = b
    <3>1. row # None /\ row.last_used_at # None
      BY <1>2, <1>4, RowFields, Numbers
    <3>2. row.last_used_at + Hour + MaxLag >= used'[b]
      BY <1>2, <1>4, <1>5, <1>9, Numbers DEF Time
    <3> QED
      BY <2>1, <1>8, <1>9, <3>1, <3>2 DEF Recent
  <2>2. CASE t # b
    BY <2>2, <1>8, <1>9, RequestFacts
  <2> QED
    BY <2>1, <2>2
<1>11. /\ q2 \in Request /\ q2.pc = "guard" /\ q2.op = q.op /\ q2.bearer = q.bearer /\ q2.shown = {}
       /\ q2.target = q.target /\ q2.row = q.row /\ q2.auth = q.auth /\ q2.since = q.since
  BY <1>2, <1>3, Moved DEF q2
<1>12. Identified(q2, tokens)
  BY <1>2, <1>3, MovedSame DEF q2
<1>13. Placed(q2, tokens)
  BY <1>1, <1>2, <1>3, <1>11, <1>12 DEF Placed
<1>14. Placed(q2, tokens')
  BY <1>3, <1>8, <1>11, <1>13, PlacedKept
<1>15. Timely(q2, clock)
  BY <1>1, <1>2, <1>11 DEF Timely
<1>16. doomed[r] = "no"
  BY <1>1, RequestFacts DEF Stopped
<1>17. Stopped(q2, "no", tokens', users, clock) /\ doomed' = [doomed EXCEPT ![r] = "no"]
  BY <1>1, <1>16, RequestFacts DEF Stopped
<1> HIDE DEF q, b
<1> QED
  BY <1>1, <1>8, <1>9, <1>10, <1>11, <1>14, <1>15, <1>17, OneStep DEF q

\* The credential of a request that passed the check is entitled to what it does.
LEMMA ByEntitled ==
    ASSUME NEW q \in Request, NEW T, Placed(q, T), Identified(q, T), check(q)
    PROVE  /\ Entitled(T, By(q), q.op, q.user) /\ q.user \in Users
           /\ By(q) \in Tokens \cup Users
<1>1. CASE q.bearer # None
  <2>1. /\ q.bearer \in Tokens /\ q.auth = "token" /\ q.user = T[q.bearer].user_id
        /\ T[q.bearer] # None /\ Snapshot(q.row, T[q.bearer]) /\ q.row \in ApiToken
    BY <1>1, RequestFields DEF Identified, Placed
  <2>2. TokenPasses(CheckOf(q.op), T[q.bearer].scopes) /\ T[q.bearer].user_id \in Users
    BY <2>1, RowFields DEF check, Snapshot
  <2> QED
    BY <2>1, <2>2 DEF Entitled, By
<1>2. CASE q.bearer = None
  BY <1>2, RequestFields DEF Identified, Entitled, By
<1> QED
  BY <1>1, <1>2

\* A new row, of the user and through the credential of the request.
LEMMA CreateStep ==
    ASSUME TokensInv, NEW r \in Requests, create_token(r)
    PROVE  TokensInv' /\ Kept(tokens, tokens')
<1> DEFINE q == reqs[r]
<1>1. PICK asked \in Asked, expires_at \in Time \cup {None}, t \in Tokens :
         /\ tokens[t] = None
         /\ tokens' = [tokens EXCEPT ![t] =
              [user_id |-> q.user, revoked |-> FALSE, expired_at |-> expires_at,
               last_used_at |-> None, scopes |-> asked, made_by |-> By(q), ended_by |-> None]]
  BY DEF create_token
<1> DEFINE row == [user_id |-> q.user, revoked |-> FALSE, expired_at |-> expires_at,
                   last_used_at |-> None, scopes |-> asked, made_by |-> By(q), ended_by |-> None]
<1>2. /\ q.pc = "act" /\ q.op = "create" /\ check(q) /\ reqs' = [reqs EXCEPT ![r] = Idle]
      /\ doomed' = [doomed EXCEPT ![r] = "no"] /\ UNCHANGED <<clock, users, used>>
  BY DEF create_token, Finish
<1>3. /\ Entitled(tokens, By(q), "create", q.user) /\ q.user \in Users
      /\ By(q) \in Tokens \cup Users
  BY <1>2, RequestFacts, ByEntitled DEF Placed
<1>4. row \in ApiToken
  BY <1>3 DEF ApiToken
<1>5. tokens \in [Tokens -> ApiToken \cup {None}]
  BY DEF TokensInv, Types
<1>6. /\ tokens' \in [Tokens -> ApiToken \cup {None}] /\ tokens'[t] = row
      /\ \A u \in Tokens \ {t} : tokens'[u] = tokens[u]
  BY <1>1, <1>4, <1>5
<1>7. /\ row.user_id = q.user /\ ~row.revoked /\ row.last_used_at = None
      /\ row.made_by = By(q) /\ row.ended_by = None
  OBVIOUS
<1> HIDE DEF row
<1>8. Kept(tokens, tokens')
  BY <1>1, <1>6 DEF Kept
<1>9. ASSUME NEW u \in Tokens
      PROVE  RowSound(tokens'[u], tokens', clock)
  <2>1. CASE u = t
    <3>1. Entitled(tokens', By(q), "create", q.user)
      BY <1>3, <1>8, EntitledKept
    <3> QED
      BY <2>1, <1>6, <1>7, <3>1 DEF RowSound
  <2>2. CASE u # t
    <3>1. tokens'[u] = tokens[u] /\ RowSound(tokens[u], tokens, clock)
      BY <1>6, <2>2 DEF TokensInv
    <3> QED
      BY <1>8, <3>1, EntitledKept DEF RowSound
  <2> QED
    BY <2>1, <2>2
<1>10. ASSUME NEW u \in Tokens
       PROVE  Recent(used'[u], tokens'[u], clock)
  <2>1. Recent(used[u], tokens[u], clock)
    BY RequestFacts
  <2> QED
    BY <1>1, <1>2, <1>6, <2>1 DEF Recent
<1>11. ASSUME NEW s \in Requests, reqs[s].row # None
       PROVE  Snapshot(reqs[s].row, tokens'[reqs[s].bearer])
  <2>1. reqs[s].bearer \in Tokens /\ Snapshot(reqs[s].row, tokens[reqs[s].bearer])
    BY <1>11, RequestFacts DEF Placed
  <2> QED
    BY <1>1, <1>6, <2>1 DEF Snapshot
<1>12. used' \in [Tokens -> Time \cup {None}]
  BY <1>2, RequestFacts
<1> QED
  BY <1>2, <1>6, <1>8, <1>9, <1>10, <1>11, <1>12, IdleSound, OneStep

\* The row ends, by the credential that was checked for it, unless it had ended before.
LEMMA RevokeStep ==
    ASSUME TokensInv, NEW r \in Requests, Revoke(r)
    PROVE  TokensInv' /\ Kept(tokens, tokens')
<1> DEFINE q == reqs[r]
           b == q.target
           by == IF tokens[b].ended_by = None THEN By(q) ELSE tokens[b].ended_by
           row == [tokens[b] EXCEPT !.revoked = TRUE, !.ended_by = by]
<1>1. /\ q.pc = "write" /\ reqs' = [reqs EXCEPT ![r] = Idle]
      /\ doomed' = [doomed EXCEPT ![r] = "no"] /\ UNCHANGED <<clock, users, used>>
  BY DEF Revoke, Finish
<1>2. /\ q.op = "revoke" /\ check(q) /\ b \in Tokens /\ tokens[b] # None /\ tokens[b] \in ApiToken
      /\ tokens[b].user_id = q.user /\ q \in Request /\ Placed(q, tokens) /\ Identified(q, tokens)
  BY <1>1, RequestFacts DEF Placed
<1>3. tokens' = [tokens EXCEPT ![b] = row]
  <2>1. tokens' = [tokens EXCEPT ![b].revoked = TRUE,
                                 ![b].ended_by = IF @ = None THEN By(q) ELSE @]
    BY DEF Revoke
  <2>2. tokens \in [Tokens -> ApiToken \cup {None}]
    BY DEF TokensInv, Types
  <2>3. [tokens[b] EXCEPT !.revoked = TRUE].ended_by = tokens[b].ended_by
    BY <1>2 DEF ApiToken
  <2> QED
    BY <1>2, <2>1, <2>2, <2>3
<1>4. /\ Entitled(tokens, By(q), "revoke", tokens[b].user_id) /\ By(q) \in Tokens \cup Users
  BY <1>2, ByEntitled
<1>5. RowSound(tokens[b], tokens, clock)
  BY <1>2 DEF TokensInv
<1>6. /\ by \in Tokens \cup Users /\ by # None
      /\ Entitled(tokens, by, "revoke", tokens[b].user_id)
  BY <1>2, <1>4, <1>5, RowFields, Numbers DEF RowSound
<1>7. /\ row \in ApiToken /\ row.user_id = tokens[b].user_id /\ row.scopes = tokens[b].scopes
      /\ row.expired_at = tokens[b].expired_at /\ row.made_by = tokens[b].made_by
      /\ row.revoked = TRUE /\ row.ended_by = by /\ row.last_used_at = tokens[b].last_used_at
  <2> HIDE DEF by, b, q
  <2> QED
    BY <1>2, <1>6 DEF ApiToken
<1> HIDE DEF row, by
<1>8. ASSUME NEW s \in Requests, reqs[s].row # None, reqs[s].bearer = b
      PROVE  Snapshot(reqs[s].row, row)
  <2>1. Snapshot(reqs[s].row, tokens[b])
    BY <1>8, RequestFacts DEF Placed
  <2> QED
    BY <1>7, <2>1, RowFields DEF Snapshot
<1>9. /\ tokens' \in [Tokens -> ApiToken \cup {None}] /\ Kept(tokens, tokens')
      /\ \A t \in Tokens : RowSound(tokens'[t], tokens', clock)
      /\ \A s \in Requests : reqs[s].row # None => Snapshot(reqs[s].row, tokens'[reqs[s].bearer])
      /\ tokens'[b] = row /\ \A t \in Tokens \ {b} : tokens'[t] = tokens[t]
  <2>1. row.last_used_at # None => row.last_used_at <= clock
    BY <1>2, <1>5, <1>7 DEF RowSound
  <2> QED
    BY <1>2, <1>3, <1>6, <1>7, <1>8, <2>1, ChangedRow
<1>10. ASSUME NEW t \in Tokens
       PROVE  Recent(used'[t], tokens'[t], clock)
  <2>1. Recent(used[t], tokens[t], clock) /\ row # None
    BY <1>7, RequestFacts, RowFields
  <2> QED
    BY <1>1, <1>7, <1>9, <2>1 DEF Recent
<1>11. used' \in [Tokens -> Time \cup {None}]
  BY <1>1, RequestFacts
<1> QED
  BY <1>1, <1>9, <1>10, <1>11, IdleSound, OneStep

\* A sanction bars more requests, and lifting one clears just those of its user.
LEMMA SanctionStep ==
    ASSUME TokensInv, NEW u \in Users, Sanction(u)
    PROVE  TokensInv'
<1>1. PICK s \in {"active", "barred", "gone"} \ {users[u]} :
        /\ users' = [users EXCEPT ![u] = s]
        /\ doomed' = [r \in Requests |->
             IF s = "active" /\ doomed[r] = "barred" /\ Principal(reqs[r]) = u THEN "no" ELSE doomed[r]]
        /\ UNCHANGED <<clock, tokens, reqs, used>>
  BY DEF Sanction
<1>2. Types'
  <2>1. users' \in [Users -> {"active", "barred", "gone"}]
    BY <1>1 DEF TokensInv, Types
  <2>2. doomed' \in [Requests -> {"no", "dead", "barred"}]
    BY <1>1, RequestFacts
  <2> QED
    BY <1>1, <2>1, <2>2 DEF TokensInv, Types
<1>3. ASSUME NEW r \in Requests
      PROVE  Stopped(reqs[r], doomed'[r], tokens, users', clock)
  <2>1. /\ Stopped(reqs[r], doomed[r], tokens, users, clock) /\ Placed(reqs[r], tokens)
        /\ users \in [Users -> {"active", "barred", "gone"}]
    BY DEF TokensInv, Types
  <2>2. doomed'[r] \in {doomed[r], "no"}
    BY <1>1
  <2>3. CASE doomed'[r] = "barred"
    <3>1. doomed[r] = "barred" /\ (s = "active" => Principal(reqs[r]) # u)
      BY <1>1, <2>2, <2>3
    <3>2. ASSUME NEW v, v = Principal(reqs[r]), users[v] # "active"
          PROVE  users'[v] # "active"
      <4>1. CASE v = u
        BY <1>1, <3>1, <3>2, <2>1, <4>1
      <4>2. CASE v # u
        BY <1>1, <2>1, <3>2, <4>2
      <4> QED
        BY <4>1, <4>2
    <3>3. CASE /\ reqs[r].pc \in {"token", "owner"} /\ reqs[r].bearer \in Tokens
               /\ users[tokens[reqs[r].bearer].user_id] # "active"
      BY <2>3, <3>2, <3>3, Numbers DEF Stopped, Principal
    <3>4. CASE reqs[r].pc = "enforce" /\ reqs[r].user # None /\ users[reqs[r].user] # "active"
      BY <2>1, <2>3, <3>2, <3>4 DEF Stopped, Placed, Principal
    <3> QED
      BY <2>1, <3>1, <3>3, <3>4 DEF Stopped
  <2>4. CASE doomed'[r] # "barred"
    BY <2>1, <2>2, <2>4 DEF Stopped
  <2> QED
    BY <2>3, <2>4
<1> QED
  BY <1>1, <1>2, <1>3 DEF TokensInv

\* Time passes: nothing that is dead comes to life, and no request outlives its timeout.
LEMMA TickStep == TokensInv /\ Tick => TokensInv'
<1> SUFFICES ASSUME TokensInv, Tick PROVE TokensInv'
  OBVIOUS
<1>1. /\ clock < MaxClock /\ clock' = clock + 1 /\ UNCHANGED <<users, tokens, reqs, doomed, used>>
      /\ \A r \in Requests : reqs[r].pc # "idle" => clock < reqs[r].since + MaxLag
  BY DEF Tick
<1>2. Types /\ clock \in Time
  BY DEF TokensInv, Types
<1>3. clock' \in Time /\ clock <= clock'
  BY <1>1, <1>2, Numbers DEF Time
<1>4. Types'
  BY <1>1, <1>2, <1>3 DEF Types
<1>5. \A t \in Tokens : RowSound(tokens[t], tokens, clock')
  <2> TAKE t \in Tokens
  <2>1. RowSound(tokens[t], tokens, clock) /\ tokens[t] \in ApiToken \cup {None}
    BY <1>2 DEF TokensInv, Types
  <2>2. CASE tokens[t] \in ApiToken
    BY <2>1, <2>2, <1>1, <1>2, RowFields, Numbers DEF RowSound, Time
  <2> QED
    BY <2>1, <2>2 DEF RowSound
<1>6. \A t \in Tokens : Recent(used[t], tokens[t], clock')
  <2> TAKE t \in Tokens
  <2>1. Recent(used[t], tokens[t], clock) /\ used[t] \in Time \cup {None}
    BY <1>2 DEF TokensInv, Types
  <2> QED
    BY <2>1, <1>1, <1>2, Numbers DEF Recent, Time
<1>7. ASSUME NEW r \in Requests
      PROVE  Timely(reqs[r], clock') /\ Stopped(reqs[r], doomed[r], tokens, users, clock')
  <2>1. /\ reqs[r] \in Request /\ Timely(reqs[r], clock) /\ Placed(reqs[r], tokens)
        /\ Stopped(reqs[r], doomed[r], tokens, users, clock)
        /\ \A t \in Tokens : tokens[t] \in ApiToken \cup {None}
    BY <1>2 DEF TokensInv, Types
  <2>2. /\ reqs[r].since \in Time /\ reqs[r].now \in Time
        /\ reqs[r].row # None => reqs[r].row.last_used_at \in Time \cup {None}
    BY <2>1, RequestFields, RowFields
  <2>3. Timely(reqs[r], clock')
    BY <1>1, <1>2, <2>1, <2>2, Numbers DEF Timely, Time
  <2>4. Kept(tokens, tokens)
    BY DEF Kept
  <2>5. Stopped(reqs[r], doomed[r], tokens, users, clock')
    BY <1>2, <1>3, <2>1, <2>4, StoppedKept
  <2> QED
    BY <2>3, <2>5
<1> QED
  BY <1>1, <1>4, <1>5, <1>6, <1>7 DEF TokensInv

\* Every step preserves the invariant.
LEMMA StepInv == TokensInv /\ [Next]_vars => TokensInv'
<1> SUFFICES ASSUME TokensInv, [Next]_vars PROVE TokensInv'
  OBVIOUS
<1>1. ASSUME NEW r \in Requests, Forbidden(r) \/ BadRequest(r) \/ Deliver(r) \/ Lose(r)
      PROVE  TokensInv'
  BY <1>1, RejectStep DEF Forbidden, BadRequest, Deliver, Lose
<1>2. CASE UNCHANGED vars
  BY <1>2 DEF vars, TokensInv, Types
<1> QED
  BY <1>1, <1>2, SendStep, LookupStep, LoadOwnerStep, TouchStep, EnforceStep, ProtectStep,
     CreateStep, ListStep, FindOwnStep, RevokeStep, SanctionStep, TickStep DEF Next

\* The invariant holds of every reachable state.
LEMMA TokensInvHolds == Spec => []TokensInv
<1>1. TokensInv /\ [Next]_vars => TokensInv'
  BY StepInv
<1> QED
  BY InitInv, <1>1, PTL DEF Spec

-----------------------------------------------------------------------------
(* What follows                                                             *)

\* Type correctness of the two tables, the requests and the histories; a request holds
\* a row exactly while a token vouches for it.
THEOREM TypeCorrect == Spec => []TypeOK
<1>1. TokensInv => TypeOK
  BY DEF TokensInv, Types, TypeOK, Placed
<1> QED
  BY <1>1, TokensInvHolds, PTL

\* What is sent after a revocation, an expiry or a sanction reaches no handler, for any
\* number of overlapping requests.
THEOREM DeadNeverActs == Spec => []DeadOnArrival
<1>1. TokensInv => DeadOnArrival
  BY DEF TokensInv, Types, DeadOnArrival, Acting, Stopped
<1> QED
  BY <1>1, TokensInvHolds, PTL

\* last_used_at is at most an hour and one request's lifetime behind the last use, for
\* every value of both, although requests write it with older clocks and out of order.
THEOREM LastUsedKeepsUp == Spec => []LastUsedIsRecent
<1>1. TokensInv => LastUsedIsRecent
  BY DEF TokensInv, LastUsedIsRecent, Recent
<1> QED
  BY <1>1, TokensInvHolds, PTL

\* One identity per request, and nothing is created, revoked or shown beyond the rights of
\* its credential, whatever scopes tokens have and whatever is interleaved.
THEOREM NobodyExceedsRights == Spec => []ActsAsItself
<1>1. ASSUME TokensInv PROVE OneIdentity
  <2> SUFFICES ASSUME NEW r \in Requests, Acting(r)
               PROVE  LET q == reqs[r] IN
                      IF q.bearer # None
                      THEN q.bearer \in Tokens /\ q.auth = "token" /\ q.user = tokens[q.bearer].user_id
                      ELSE q.auth = "cookie" /\ q.user = q.cookie /\ (Unsafe(q.op) => q.csrf)
    BY DEF OneIdentity
  <2>1. Identified(reqs[r], tokens) /\ PassesCsrf(reqs[r])
    BY <1>1, RequestFacts DEF Acting, Placed
  <2> QED
    BY <2>1 DEF Identified, PassesCsrf
<1>2. ASSUME TokensInv PROVE WithinRights
  <2>1. ASSUME NEW t \in Tokens, tokens[t] # None
        PROVE  /\ Covers(tokens[t].made_by, "create", tokens[t].user_id)
               /\ tokens[t].revoked <=> tokens[t].ended_by # None
               /\ tokens[t].revoked => Covers(tokens[t].ended_by, "revoke", tokens[t].user_id)
    BY <1>2, <2>1 DEF TokensInv, RowSound, Entitled, Covers
  <2>2. ASSUME NEW r \in Requests, NEW t \in reqs[r].shown
        PROVE  Covers(By(reqs[r]), "list", tokens[t].user_id) /\ tokens[t].user_id = reqs[r].user
    <3>1. reqs[r] \in Request /\ Placed(reqs[r], tokens)
      BY <1>2, RequestFacts
    <3>2. /\ reqs[r].pc = "reply" /\ reqs[r].op = "list" /\ check(reqs[r])
          /\ tokens[t].user_id = reqs[r].user /\ Identified(reqs[r], tokens)
      BY <2>2, <3>1 DEF Placed
    <3>3. Entitled(tokens, By(reqs[r]), "list", reqs[r].user)
      BY <3>1, <3>2, ByEntitled
    <3> QED
      BY <3>2, <3>3 DEF Entitled, Covers
  <2> QED
    BY <2>1, <2>2 DEF WithinRights
<1> QED
  BY <1>1, <1>2, TokensInvHolds, PTL DEF ActsAsItself

\* Every step keeps the rows and what never changes of them.
LEMMA StepKeeps == TokensInv /\ [Next]_vars => Kept(tokens, tokens')
<1> SUFFICES ASSUME TokensInv, [Next]_vars PROVE Kept(tokens, tokens')
  OBVIOUS
<1>1. CASE UNCHANGED tokens
  BY <1>1 DEF Kept
<1>2. ASSUME NEW r \in Requests,
             \/ Send(r) \/ LookupToken(r) \/ LoadOwner(r) \/ enforce_authentication(r)
             \/ protect(r) \/ Forbidden(r) \/ BadRequest(r)
             \/ list_tokens(r) \/ Deliver(r) \/ FindOwn(r) \/ Lose(r)
      PROVE  UNCHANGED tokens
  BY <1>2 DEF Send, LookupToken, LoadOwner, enforce_authentication, protect, Forbidden, BadRequest,
     list_tokens, Deliver, FindOwn, Lose, Reject
<1> QED
  BY <1>1, <1>2, TouchStep, CreateStep, RevokeStep DEF Next, Sanction, Tick, vars

\* No step brings a token back, moves its expiry, widens its scopes or changes its owner.
THEOREM RevocationIsFinal == Spec => RevocationSticks
<1>1. TokensInv /\ [Next]_vars =>
        [\A t \in Tokens : tokens[t] # None =>
           /\ tokens'[t] # None
           /\ tokens[t].revoked => tokens'[t].revoked
           /\ tokens'[t].scopes = tokens[t].scopes /\ tokens'[t].expired_at = tokens[t].expired_at
           /\ tokens'[t].user_id = tokens[t].user_id]_vars
  BY StepKeeps DEF Kept
<1> QED
  BY <1>1, TokensInvHolds, PTL DEF Spec, RevocationSticks
=============================================================================
