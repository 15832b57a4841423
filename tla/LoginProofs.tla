----------------------------- MODULE LoginProofs -----------------------------
(***************************************************************************)
(* Proofs about Login for any number of browsers, requests in flight,       *)
(* providers, accounts and sign-in attempts; and, in the second half, about *)
(* SessionCodec for strings of any length and sessions of any size: the     *)
(* cookie loses nothing, so Login may take a session as it was stored.      *)
(***************************************************************************)
EXTENDS Login, SessionCodec, SequenceTheorems, FiniteSetTheorems, TLAPS

\* Sound, with the history of flows, approvals and tokens made explicit.
SoundIn(b, s, F, A, M) ==
    /\ s.oauth_state # None => /\ s.oauth_pkce_verifier = s.oauth_state
                               /\ F[s.oauth_state] # None
                               /\ F[s.oauth_state].browser = b
    /\ s.oauth_provider # None => /\ s.oauth_state # None
                                  /\ s.oauth_provider = F[s.oauth_state].provider
    /\ s.user_id # None <=> s.csrf_token # None
    /\ s.csrf_token # None => M[s.csrf_token] = s.by
    /\ s.user_id # None => /\ s.by # None /\ F[s.by] # None /\ F[s.by].browser = b
                           /\ s.user_id = <<F[s.by].provider, A[s.by]>>

\* SoundIn for the current history.
SoundNow(b, s) == SoundIn(b, s, flows, approved, minted)

\* SoundIn restates Sound.
LEMMA SoundRestated ==
    ASSUME NEW b, NEW s
    PROVE  Sound(b, s) <=> SoundNow(b, s)
  BY DEF Sound, OwnLogin, SoundNow, SoundIn

\* A session stays sound when flows are started, approvals given and tokens drawn.
LEMMA SoundGrows ==
    ASSUME NEW b, NEW s \in Session, NEW F, NEW A, NEW M, NEW F2, NEW A2, NEW M2,
           SoundIn(b, s, F, A, M),
           \A f \in Flows : F[f] # None => F2[f] = F[f],
           \A f \in Flows : A[f] # None => A2[f] = A[f],
           \A t \in Tokens : M[t] # None => M2[t] = M[t]
    PROVE  SoundIn(b, s, F2, A2, M2)
<1>1. /\ s.oauth_state \in Flows \cup {None}
      /\ s.by \in Flows \cup {None}
      /\ s.csrf_token \in Tokens \cup {None}
      /\ s.user_id \in (Providers \X Accounts) \cup {None}
  BY DEF Session, Users
<1>2. s.oauth_state # None => F2[s.oauth_state] = F[s.oauth_state]
  BY <1>1 DEF SoundIn
<1>3. s.user_id # None => F2[s.by] = F[s.by]
  BY <1>1 DEF SoundIn
<1>4. s.user_id # None => A2[s.by] = A[s.by]
  <2>1. s.user_id # None => A[s.by] \in Accounts
    BY <1>1 DEF SoundIn
  <2> QED
    BY <1>1, <2>1, LoginAssumption DEF SoundIn
<1>5. s.csrf_token # None => M2[s.csrf_token] = M[s.csrf_token]
  BY <1>1 DEF SoundIn
<1> QED
  BY <1>2, <1>3, <1>4, <1>5 DEF SoundIn

\* Nothing is in progress initially.
LEMMA InitInv == Init => LoginInv
  BY LoginAssumption
  DEF Init, Idle, Empty, LoginInv, TypeOK, Request, Session, CookiesSound, RequestsSound,
      CallbacksOwn, FlowsStarted, RedeemedOnce, Redeemed, BarredWaiting

-----------------------------------------------------------------------------
(* LoginInv is inductive.  Most steps move one request and leave flows,     *)
(* users, tokens and cookies alone: QuietStep says what is then left to     *)
(* show about the new state q of that request.                              *)

\* What CallbacksOwn says of one request.
Owns(q) ==
    /\ q.flow # None /\ flows[q.flow] # None
    /\ flows[q.flow].browser = q.browser
    /\ approved[q.flow] # None
    /\ q.user = <<flows[q.flow].provider, approved[q.flow]>>

\* What BarredWaiting says of one request.
Waits(q) ==
    /\ q.pc \notin {"idle", "update", "create"}
    /\ q.user # None /\ users[q.user] \in {"inactive", "locked"}
    /\ ~q.done

\* One request moves to q.
LEMMA QuietStep ==
    ASSUME LoginInv, NEW r \in Requests, NEW q \in Request,
           reqs' = [reqs EXCEPT ![r] = q],
           UNCHANGED <<cookies, pages, flows, users, minted, offered, approved>>,
           spent \subseteq spent', spent' \subseteq Flows,
           barred' \subseteq Requests, barred' \ {r} \subseteq barred,
           q.pc # "idle" => q.browser \in Browsers /\ Sound(q.browser, q.session),
           q.pc \in {"exchange", "lookup", "update", "create"} => Owns(q),
           q.kind = "authorize" => q.flow # None /\ flows[q.flow] # None,
           q.pc \in {"lookup", "update", "create"} =>
               /\ q.flow \in spent'
               /\ \A p \in Requests \ {r} : Redeemed(p) => reqs[p].flow # q.flow
               /\ \A t \in Tokens : minted[t] # q.flow,
           r \in barred' => Waits(q)
    PROVE  LoginInv'
<1>1. /\ reqs'[r] = q
      /\ \A p \in Requests \ {r} : reqs'[p] = reqs[p]
  BY DEF LoginInv, TypeOK
<1>2. TypeOK'
  BY DEF LoginInv, TypeOK
<1>3. CookiesSound'
  BY DEF LoginInv, CookiesSound, Sound, OwnLogin
<1>4. RequestsSound'
  BY <1>1 DEF LoginInv, RequestsSound, Sound, OwnLogin
<1>5. CallbacksOwn'
  BY <1>1 DEF LoginInv, CallbacksOwn, Redeemed, Owns
<1>6. FlowsStarted'
  BY <1>1 DEF LoginInv, FlowsStarted
<1>7. RedeemedOnce'
  <2>1. \A p \in Requests : Redeemed(p)' =>
          /\ reqs'[p].flow \in spent'
          /\ \A t \in Tokens : minted'[t] # reqs'[p].flow
    BY <1>1 DEF LoginInv, RedeemedOnce, Redeemed
  <2>2. \A p, v \in Requests : Redeemed(p)' /\ Redeemed(v)' /\ reqs'[v].flow = reqs'[p].flow => v = p
    BY <1>1 DEF LoginInv, RedeemedOnce, Redeemed
  <2> QED
    BY <2>1, <2>2 DEF LoginInv, RedeemedOnce
<1>8. BarredWaiting'
  BY <1>1 DEF LoginInv, BarredWaiting, Waits
<1> QED
  BY <1>2, <1>3, <1>4, <1>5, <1>6, <1>7, <1>8 DEF LoginInv

\* The session a request starts from is sound.
LEMMA DecodedSound ==
    ASSUME LoginInv, NEW b \in Browsers
    PROVE  /\ Decoded(b) \in Session
           /\ Sound(b, Decoded(b))
<1>1. Empty \in Session /\ Sound(b, Empty)
  BY DEF Empty, Session, Sound, OwnLogin
<1>2. CASE cookies[b] = None
  BY <1>1, <1>2 DEF Decoded
<1>3. CASE cookies[b] # None
  BY <1>3 DEF Decoded, LoginInv, TypeOK, CookiesSound
<1> QED
  BY <1>2, <1>3

\* A request that is idle is neither redeemed nor barred.
LEMMA IdleFacts ==
    ASSUME LoginInv, NEW r \in Requests, reqs[r] = Idle
    PROVE  r \notin barred /\ ~Redeemed(r)
  BY DEF LoginInv, BarredWaiting, Redeemed, Idle

\* The fields of a request, one by one.
LEMMA RequestFields ==
    ASSUME LoginInv, NEW r \in Requests
    PROVE  /\ reqs[r].kind \in {"none", "page", "authorize", "callback", "logout"}
           /\ reqs[r].browser \in Browsers \cup {None}
           /\ reqs[r].session \in Session
           /\ reqs[r].cookie \in BOOLEAN
           /\ reqs[r].dirty \in BOOLEAN
           /\ reqs[r].flow \in Flows \cup {None}
           /\ reqs[r].verifier \in Flows \cup {None}
           /\ reqs[r].user \in Users \cup {None}
           /\ reqs[r].token \in Tokens \cup {None}
           /\ reqs[r].done \in BOOLEAN
           /\ reqs[r].landing \in Flows \cup {None}
  BY DEF LoginInv, TypeOK, Request

\* A step that only moves the program counter of a request.
LEMMA PcMoves ==
    ASSUME LoginInv, NEW r \in Requests,
           NEW pc \in {"exchange", "lookup", "update", "create", "auth", "reply"},
           reqs' = [reqs EXCEPT ![r].pc = pc]
    PROVE  \E q \in Request :
              /\ reqs' = [reqs EXCEPT ![r] = q]
              /\ q.pc = pc /\ q.kind = reqs[r].kind /\ q.browser = reqs[r].browser
              /\ q.session = reqs[r].session /\ q.flow = reqs[r].flow
              /\ q.user = reqs[r].user /\ q.done = reqs[r].done
<1> DEFINE q == [pc |-> pc, kind |-> reqs[r].kind, browser |-> reqs[r].browser,
                 session |-> reqs[r].session, cookie |-> reqs[r].cookie,
                 dirty |-> reqs[r].dirty, flow |-> reqs[r].flow,
                 verifier |-> reqs[r].verifier, user |-> reqs[r].user,
                 token |-> reqs[r].token, done |-> reqs[r].done,
                 landing |-> reqs[r].landing]
<1>1. q \in Request
  BY RequestFields DEF Request
<1>2. reqs' = [reqs EXCEPT ![r] = q]
  <2>1. reqs \in [Requests -> Request]
    BY DEF LoginInv, TypeOK
  <2>2. [reqs[r] EXCEPT !.pc = pc] = q
    BY <2>1 DEF Request
  <2> QED
    BY <2>1, <2>2
<1> QED
  BY <1>1, <1>2

\* What a request is sent with.
LEMMA SentFacts ==
    ASSUME LoginInv, NEW b \in Browsers,
           NEW kind \in {"page", "authorize", "callback", "logout"}
    PROVE  /\ Sent(b, kind) \in Request
           /\ Sent(b, kind).kind = kind
           /\ Sent(b, kind).browser = b
           /\ Sent(b, kind).session = Decoded(b)
           /\ Sent(b, kind).done = FALSE
  BY DecodedSound DEF Sent, Idle, Request

\* Only a page of a logged-in browser shows a token, and it is the session's.
LEMMA PageInv ==
    ASSUME LoginInv, NEW r \in Requests, NEW b \in Browsers, Page(r, b)
    PROVE  LoginInv'
<1> DEFINE s == Decoded(b)
           q0 == Sent(b, "page")
<1>1. s \in Session /\ Sound(b, s)
  BY DecodedSound
<1>2. q0 \in Request /\ q0.kind = "page" /\ q0.browser = b /\ q0.session = s
  BY SentFacts
<1>3. PICK q \in Request : /\ reqs' = [reqs EXCEPT ![r] = q]
                           /\ q.pc = "reply" /\ q.kind = "page" /\ q.browser = b
                           /\ q.session \in Session /\ Sound(b, q.session)
                           /\ UNCHANGED minted
  <2>1. CASE ~HasCsrfState(s)
    <3> DEFINE q == [q0 EXCEPT !.pc = "reply", !.done = TRUE]
    <3>1. q \in Request
      BY <1>2 DEF Request
    <3>2. q.pc = "reply" /\ q.kind = "page" /\ q.browser = b /\ q.session = s
      BY <1>2 DEF Request
    <3>3. reqs' = [reqs EXCEPT ![r] = q] /\ UNCHANGED minted
      BY <2>1 DEF Page
    <3> HIDE DEF q
    <3> QED
      BY <1>1, <3>1, <3>2, <3>3
  <2>2. CASE HasCsrfState(s)
    <3>1. s.csrf_token # None /\ s.csrf_token \in Tokens
      BY <1>1, <2>2 DEF HasCsrfState, Sound, Session
    <3>2. PICK t \in GetOrCreate(s) :
            /\ reqs' = [reqs EXCEPT ![r] =
                  [q0 EXCEPT !.pc = "reply", !.done = TRUE, !.token = t,
                             !.session = [s EXCEPT !.csrf_token = t],
                             !.dirty = t # s.csrf_token]]
            /\ minted' = IF t = s.csrf_token THEN minted ELSE [minted EXCEPT ![t] = s.by]
      BY <2>2, Zenon DEF Page
    <3> DEFINE s1 == [s EXCEPT !.csrf_token = t]
               d == t # s.csrf_token
               q == [q0 EXCEPT !.pc = "reply", !.done = TRUE, !.token = t, !.session = s1,
                               !.dirty = d]
    <3>3. t = s.csrf_token
      BY <3>1, <3>2 DEF GetOrCreate
    <3>4. s1 = s
      BY <1>1, <3>3 DEF Session
    <3>5. reqs' = [reqs EXCEPT ![r] = q] /\ UNCHANGED minted
      BY <3>2, <3>3, Zenon
    <3>6. d \in BOOLEAN
      OBVIOUS
    <3> HIDE DEF s1, d, q0
    <3>7. q \in Request
      BY <1>1, <1>2, <3>1, <3>3, <3>6, <3>4 DEF Request
    <3>8. q.pc = "reply" /\ q.kind = "page" /\ q.browser = b /\ q.session = s
      BY <1>2, <3>4 DEF Request
    <3> HIDE DEF q
    <3> QED
      BY <1>1, <3>5, <3>7, <3>8
  <2> QED
    BY <2>1, <2>2
<1>4. r \notin barred
  BY IdleFacts DEF Page
<1>5. UNCHANGED <<cookies, pages, flows, users, minted, offered, approved, spent, barred>>
  BY <1>3 DEF Page
<1>6. spent \subseteq Flows /\ barred \subseteq Requests
  BY DEF LoginInv, TypeOK
<1> QED
  BY <1>3, <1>4, <1>5, <1>6, QuietStep

\* A declined callback leaves the session as it was.
LEMMA CallbackDeclinedInv ==
    ASSUME LoginInv, NEW r \in Requests, NEW b \in Browsers, CallbackDeclined(r, b)
    PROVE  LoginInv'
<1> DEFINE q0 == Sent(b, "callback")
           q == [q0 EXCEPT !.pc = "reply"]
<1>1. q0 \in Request /\ q0.kind = "callback" /\ q0.browser = b /\ q0.session = Decoded(b)
  BY SentFacts
<1>2. reqs' = [reqs EXCEPT ![r] = q]
  BY DEF CallbackDeclined
<1> HIDE DEF q0
<1>3. q \in Request /\ q.pc = "reply" /\ q.kind = "callback" /\ q.browser = b /\ q.session = Decoded(b)
  BY <1>1 DEF Request
<1>4. r \notin barred
  BY IdleFacts DEF CallbackDeclined
<1>5. UNCHANGED <<cookies, pages, flows, users, minted, offered, approved, spent, barred>>
  BY DEF CallbackDeclined
<1>6. spent \subseteq Flows /\ barred \subseteq Requests
  BY DEF LoginInv, TypeOK
<1> HIDE DEF q
<1> QED
  BY <1>2, <1>3, <1>4, <1>5, <1>6, DecodedSound, QuietStep

\* Removing the transient keys, however far the checks got, keeps a session sound.
LEMMA ConsumedSound ==
    ASSUME NEW b, NEW s \in Session, NEW f, NEW p, Sound(b, s)
    PROVE  Consumed(s, f, p) \in Session /\ Sound(b, Consumed(s, f, p))
<1>1. CASE s.oauth_provider # p
  <2> DEFINE c == [s EXCEPT !.oauth_provider = None]
  <2>1. Consumed(s, f, p) = c
    BY <1>1 DEF Consumed
  <2>2. c \in Session
    BY DEF Session
  <2>3. /\ c.oauth_state = s.oauth_state /\ c.oauth_pkce_verifier = s.oauth_pkce_verifier
        /\ c.oauth_provider = None /\ c.user_id = s.user_id /\ c.csrf_token = s.csrf_token
        /\ c.by = s.by
    BY DEF Session
  <2> HIDE DEF c
  <2> QED
    BY <2>1, <2>2, <2>3 DEF Sound, OwnLogin
<1>2. CASE s.oauth_provider = p
  <2> DEFINE v == IF StateMatches(s, f) THEN None ELSE s.oauth_pkce_verifier
             c == [s EXCEPT !.oauth_provider = None, !.oauth_state = None,
                            !.oauth_pkce_verifier = v]
  <2>1. Consumed(s, f, p) = c
    BY <1>2, Zenon DEF Consumed
  <2>2. v \in Flows \cup {None}
    BY DEF Session
  <2> HIDE DEF v
  <2>3. c \in Session
    BY <2>2 DEF Session
  <2>4. /\ c.oauth_state = None /\ c.oauth_provider = None /\ c.user_id = s.user_id
        /\ c.csrf_token = s.csrf_token /\ c.by = s.by
    BY DEF Session
  <2> HIDE DEF c
  <2> QED
    BY <2>1, <2>3, <2>4 DEF Sound, OwnLogin
<1> QED
  BY <1>1, <1>2

\* The checks of the callback make sure that the flow is this browser's.
LEMMA CallbackInv ==
    ASSUME LoginInv, NEW r \in Requests, NEW b \in Browsers, NEW f \in Flows, Callback(r, b, f)
    PROVE  LoginInv'
<1> DEFINE s == Decoded(b)
           p == flows[f].provider
           u == <<p, approved[f]>>
           pc == IF Accepted(s, f, p) THEN "exchange" ELSE "reply"
           v == s.oauth_pkce_verifier
           c == Consumed(s, f, p)
           q0 == Sent(b, "callback")
           q == [q0 EXCEPT !.pc = pc, !.flow = f, !.dirty = TRUE, !.user = u, !.verifier = v,
                           !.session = c]
<1>1. q0 \in Request /\ q0.kind = "callback" /\ q0.browser = b /\ q0.done = FALSE
  BY SentFacts
<1>2. s \in Session /\ Sound(b, s)
  BY DecodedSound
<1>3. v \in Flows \cup {None} /\ pc \in {"exchange", "reply"}
  BY <1>2 DEF Session
<1>4. c \in Session /\ Sound(b, c)
  BY <1>2, ConsumedSound
<1>5. approved[f] \in Accounts /\ flows[f] # None /\ p \in Providers
  BY DEF Callback, LoginInv, FlowsStarted, TypeOK, Attempt
<1>6. u \in Users /\ f # None
  BY <1>5, LoginAssumption DEF Users
<1>7. reqs' = [reqs EXCEPT ![r] = q]
  BY Zenon DEF Callback
<1>8. pc = "exchange" => flows[f].browser = b
  BY <1>2, <1>6 DEF Accepted, StateMatches, Sound
<1>9. /\ r \in barred' => users[u] \in {"inactive", "locked"}
      /\ barred' \ {r} \subseteq barred /\ barred' \subseteq Requests
  BY IdleFacts DEF Callback, LoginInv, TypeOK
<1>10. UNCHANGED <<cookies, pages, flows, users, minted, offered, approved, spent>>
  BY DEF Callback
<1>11. spent \subseteq Flows /\ approved[f] # None
  BY DEF LoginInv, TypeOK, Callback
<1>12. u # None
  BY <1>6, LoginAssumption DEF Users
<1>13. u = <<flows[f].provider, approved[f]>>
  OBVIOUS
<1> HIDE DEF s, u, pc, v, c, q0
<1>14. q \in Request
  BY <1>1, <1>3, <1>4, <1>6 DEF Request
<1>15. /\ q.pc = pc /\ q.kind = "callback" /\ q.browser = b /\ q.session = c /\ q.flow = f
       /\ q.user = u /\ q.done = FALSE
  BY <1>1 DEF Request
<1> HIDE DEF q, p
<1>16. q.pc \in {"exchange", "lookup", "update", "create"} => Owns(q)
  BY <1>3, <1>5, <1>6, <1>8, <1>11, <1>13, <1>15 DEF Owns
<1>17. r \in barred' => Waits(q)
  BY <1>3, <1>9, <1>12, <1>15 DEF Waits
<1> QED
  BY <1>3, <1>4, <1>7, <1>9, <1>10, <1>11, <1>14, <1>15, <1>16, <1>17, QuietStep

\* A code is taken once, so one request at most works for a flow from here on.
LEMMA ExchangeInv ==
    ASSUME LoginInv, NEW r \in Requests, Exchange(r)
    PROVE  LoginInv'
<1>1. PICK q \in Request :
        /\ reqs' = [reqs EXCEPT ![r] = q]
        /\ q.pc = "lookup" /\ q.kind = reqs[r].kind /\ q.browser = reqs[r].browser
        /\ q.session = reqs[r].session /\ q.flow = reqs[r].flow
        /\ q.user = reqs[r].user /\ q.done = reqs[r].done
  <2>1. reqs' = [reqs EXCEPT ![r].pc = "lookup"]
    BY DEF Exchange
  <2> QED
    BY <2>1, PcMoves
<1>2. /\ reqs[r].pc = "exchange" /\ reqs[r].flow \notin spent
      /\ spent' = spent \cup {reqs[r].flow}
      /\ UNCHANGED <<cookies, pages, flows, users, minted, offered, approved, barred>>
  BY DEF Exchange
<1>3. q.browser \in Browsers /\ Sound(q.browser, q.session)
  BY <1>1, <1>2 DEF LoginInv, RequestsSound
<1>4. Owns(q)
  BY <1>1, <1>2 DEF LoginInv, CallbacksOwn, Owns
<1>5. q.flow \in Flows
  BY <1>1, <1>4, RequestFields DEF Owns
<1>6. q.kind = "authorize" => q.flow # None /\ flows[q.flow] # None
  BY <1>4 DEF Owns
<1>7. /\ q.flow \in spent'
      /\ \A p \in Requests \ {r} : Redeemed(p) => reqs[p].flow # q.flow
      /\ \A t \in Tokens : minted[t] # q.flow
  BY <1>1, <1>2, <1>4 DEF LoginInv, RedeemedOnce, Owns
<1>8. r \in barred' => Waits(q)
  BY <1>1, <1>2 DEF LoginInv, BarredWaiting, Waits
<1>9. spent \subseteq Flows /\ barred \subseteq Requests
  BY DEF LoginInv, TypeOK
<1> QED
  BY <1>1, <1>2, <1>3, <1>4, <1>5, <1>6, <1>7, <1>8, <1>9, QuietStep

\* A request that gives up answers with the session it has.
LEMMA GiveUp ==
    ASSUME LoginInv, NEW r \in Requests, reqs[r].pc # "idle",
           reqs' = [reqs EXCEPT ![r].pc = "reply"],
           spent \subseteq spent', spent' \subseteq Flows,
           UNCHANGED <<cookies, pages, flows, users, minted, offered, approved, barred>>
    PROVE  LoginInv'
<1>1. PICK q \in Request :
        /\ reqs' = [reqs EXCEPT ![r] = q]
        /\ q.pc = "reply" /\ q.kind = reqs[r].kind /\ q.browser = reqs[r].browser
        /\ q.session = reqs[r].session /\ q.flow = reqs[r].flow
        /\ q.user = reqs[r].user /\ q.done = reqs[r].done
  BY PcMoves
<1>2. q.browser \in Browsers /\ Sound(q.browser, q.session)
  BY <1>1 DEF LoginInv, RequestsSound
<1>3. q.kind = "authorize" => q.flow # None /\ flows[q.flow] # None
  BY <1>1 DEF LoginInv, FlowsStarted
<1>4. r \in barred' => Waits(q)
  BY <1>1 DEF LoginInv, BarredWaiting, Waits
<1>5. barred \subseteq Requests
  BY DEF LoginInv, TypeOK
<1> QED
  BY <1>1, <1>2, <1>3, <1>4, <1>5, QuietStep

\* The error paths.
LEMMA ErrorsInv ==
    ASSUME LoginInv, NEW r \in Requests,
           ExchangeError(r) \/ DbError(r) \/ LogoutRefused(r)
    PROVE  LoginInv'
<1>1. spent \subseteq Flows
  BY DEF LoginInv, TypeOK
<1>2. CASE ExchangeError(r)
  <2>1. reqs[r].flow \in Flows
    BY <1>2, RequestFields DEF ExchangeError, LoginInv, CallbacksOwn
  <2> QED
    BY <1>1, <1>2, <2>1, GiveUp DEF ExchangeError
<1>3. CASE DbError(r)
  BY <1>1, <1>3, GiveUp DEF DbError
<1>4. CASE LogoutRefused(r)
  BY <1>1, <1>4, GiveUp DEF LogoutRefused
<1> QED
  BY <1>2, <1>3, <1>4

\* The lookup turns inactive and locked users away.
LEMMA LookupUserInv ==
    ASSUME LoginInv, NEW r \in Requests, LookupUser(r)
    PROVE  LoginInv'
<1> DEFINE pc == IF users[reqs[r].user] = "absent" THEN "create"
                 ELSE IF InGoodStanding(users[reqs[r].user]) THEN "update"
                 ELSE "reply"
<1>1. /\ pc \in {"create", "update", "reply"}
      /\ reqs' = [reqs EXCEPT ![r].pc = pc]
  BY Zenon DEF LookupUser
<1>2. users[reqs[r].user] \in {"inactive", "locked"} => pc = "reply"
  BY DEF InGoodStanding
<1> HIDE DEF pc
<1>3. PICK q \in Request :
        /\ reqs' = [reqs EXCEPT ![r] = q]
        /\ q.pc = pc /\ q.kind = reqs[r].kind /\ q.browser = reqs[r].browser
        /\ q.session = reqs[r].session /\ q.flow = reqs[r].flow
        /\ q.user = reqs[r].user /\ q.done = reqs[r].done
  <2>1. pc \in {"exchange", "lookup", "update", "create", "auth", "reply"}
    BY <1>1
  <2> QED
    BY <1>1, <2>1, PcMoves, Zenon
<1>4. /\ reqs[r].pc = "lookup"
      /\ UNCHANGED <<cookies, pages, flows, users, minted, offered, approved, spent, barred>>
  BY DEF LookupUser
<1>5. q.browser \in Browsers /\ Sound(q.browser, q.session)
  BY <1>3, <1>4 DEF LoginInv, RequestsSound
<1>6. Owns(q)
  BY <1>3, <1>4 DEF LoginInv, CallbacksOwn, Redeemed, Owns
<1>7. q.kind = "authorize" => q.flow # None /\ flows[q.flow] # None
  BY <1>6 DEF Owns
<1>8. /\ q.flow \in spent'
      /\ \A p \in Requests \ {r} : Redeemed(p) => reqs[p].flow # q.flow
      /\ \A t \in Tokens : minted[t] # q.flow
  <2>1. Redeemed(r)
    BY <1>4 DEF Redeemed
  <2> QED
    BY <1>3, <1>4, <2>1 DEF LoginInv, RedeemedOnce
<1>9. r \in barred' => Waits(q)
  BY <1>2, <1>3, <1>4 DEF LoginInv, BarredWaiting, Waits
<1>10. spent \subseteq Flows /\ barred \subseteq Requests
  BY DEF LoginInv, TypeOK
<1> QED
  BY <1>3, <1>4, <1>5, <1>6, <1>7, <1>8, <1>9, <1>10, QuietStep

\* Submitting the logout form.
LEMMA SubmitLogoutInv ==
    ASSUME LoginInv, NEW r \in Requests, NEW b \in Browsers, NEW t \in pages[b] \cup {None},
           SubmitLogout(r, b, t)
    PROVE  LoginInv'
<1> DEFINE s == Decoded(b)
           u == s.user_id
           q0 == Sent(b, "logout")
           q == [q0 EXCEPT !.pc = "auth", !.token = t, !.user = u]
<1>1. q0 \in Request /\ q0.kind = "logout" /\ q0.browser = b /\ q0.session = s /\ q0.done = FALSE
  BY SentFacts
<1>2. s \in Session /\ Sound(b, s)
  BY DecodedSound
<1>3. u \in Users \cup {None} /\ t \in Tokens \cup {None}
  BY <1>2 DEF Session, LoginInv, TypeOK
<1>4. reqs' = [reqs EXCEPT ![r] = q]
  BY Zenon DEF SubmitLogout
<1>5. /\ r \in barred' => u # None /\ users[u] \in {"inactive", "locked"}
      /\ barred' \ {r} \subseteq barred /\ barred' \subseteq Requests
  BY IdleFacts DEF SubmitLogout, LoginInv, TypeOK
<1>6. UNCHANGED <<cookies, pages, flows, users, minted, offered, approved, spent>>
  BY DEF SubmitLogout
<1>7. spent \subseteq Flows
  BY DEF LoginInv, TypeOK
<1> HIDE DEF s, u, q0
<1>8. q \in Request
  BY <1>1, <1>3 DEF Request
<1>9. q.pc = "auth" /\ q.kind = "logout" /\ q.browser = b /\ q.session = s /\ q.user = u /\ q.done = FALSE
  BY <1>1 DEF Request
<1> HIDE DEF q
<1>10. r \in barred' => Waits(q)
  BY <1>5, <1>9 DEF Waits
<1> QED
  BY <1>2, <1>4, <1>5, <1>6, <1>7, <1>8, <1>9, <1>10, QuietStep

\* The handler clears the session; enforce_authentication kept barred users out.
LEMMA LogoutInv ==
    ASSUME LoginInv, NEW r \in Requests, logout(r)
    PROVE  LoginInv'
<1> DEFINE q0 == reqs[r]
           q == [q0 EXCEPT !.pc = "reply", !.done = TRUE, !.dirty = TRUE, !.session = Empty]
<1>1. q0 \in Request /\ q0.pc = "auth"
  BY DEF LoginInv, TypeOK, logout
<1>2. q0.browser \in Browsers /\ (q0.kind = "authorize" => q0.flow # None /\ flows[q0.flow] # None)
  BY <1>1 DEF LoginInv, RequestsSound, FlowsStarted
<1>3. reqs' = [reqs EXCEPT ![r] = q]
  BY Zenon DEF logout
<1>4. r \notin barred
  BY DEF LoginInv, BarredWaiting, logout, Authenticated, InGoodStanding
<1>5. UNCHANGED <<cookies, pages, flows, users, minted, offered, approved, spent, barred>>
  BY DEF logout
<1>6. spent \subseteq Flows /\ barred \subseteq Requests
  BY DEF LoginInv, TypeOK
<1>7. Empty \in Session /\ Sound(q0.browser, Empty)
  BY DEF Empty, Session, Sound, OwnLogin
<1> HIDE DEF q0
<1>8. q \in Request
  BY <1>1, <1>7 DEF Request
<1>9. q.pc = "reply" /\ q.kind = q0.kind /\ q.browser = q0.browser /\ q.session = Empty /\ q.flow = q0.flow
  BY <1>1 DEF Request
<1> HIDE DEF q
<1> QED
  BY <1>2, <1>3, <1>4, <1>5, <1>6, <1>7, <1>8, <1>9, QuietStep

\* A request that is dropped.
LEMMA LoseInv ==
    ASSUME LoginInv, NEW r \in Requests, Lose(r)
    PROVE  LoginInv'
<1>1. Idle \in Request /\ Idle.pc = "idle" /\ Idle.kind = "none"
  BY DEF Idle, Request, Empty, Session
<1>2. spent \subseteq Flows /\ barred \subseteq Requests
  BY DEF LoginInv, TypeOK
<1> QED
  BY <1>1, <1>2, QuietStep DEF Lose

\* A response reaches its browser.
LEMMA DeliverInv ==
    ASSUME LoginInv, NEW r \in Requests, Deliver(r)
    PROVE  LoginInv'
<1> DEFINE q == reqs[r]
<1>1. /\ q \in Request /\ q.pc = "reply" /\ q.browser \in Browsers
      /\ Sound(q.browser, q.session) /\ q.session \in Session
  BY RequestFields DEF LoginInv, TypeOK, RequestsSound, Deliver
<1>2. /\ cookies' = [cookies EXCEPT ![q.browser] = Written(q)]
      /\ pages' = IF q.kind = "page" /\ q.token # None
                  THEN [pages EXCEPT ![q.browser] = @ \cup {q.token}] ELSE pages
      /\ offered' = IF q.kind = "authorize" THEN offered \cup {q.flow} ELSE offered
      /\ reqs' = [reqs EXCEPT ![r] = Idle]
      /\ barred' = barred \ {r}
      /\ UNCHANGED <<flows, users, minted, approved, spent>>
  BY Zenon DEF Deliver
<1>3. Idle \in Request /\ Idle.pc = "idle" /\ Idle.kind = "none"
  BY DEF Idle, Request, Empty, Session
<1>4. /\ reqs'[r] = Idle
      /\ \A p \in Requests \ {r} : reqs'[p] = reqs[p]
  BY <1>2 DEF LoginInv, TypeOK
<1>5. q.token \in Tokens \cup {None} /\ q.flow \in Flows \cup {None}
  BY RequestFields
<1>6. q.kind = "authorize" => q.flow \in Flows /\ flows[q.flow] # None
  BY <1>5 DEF LoginInv, FlowsStarted
<1>7. /\ Written(q) \in (Session \ {Empty}) \cup {None}
      /\ Written(q) # None => Sound(q.browser, Written(q))
  BY <1>1 DEF Written, LoginInv, TypeOK, CookiesSound
<1>8. TypeOK'
  <2>1. cookies' \in [Browsers -> (Session \ {Empty}) \cup {None}]
    BY <1>2, <1>7 DEF LoginInv, TypeOK
  <2>2. pages' \in [Browsers -> SUBSET Tokens]
    BY <1>1, <1>2, <1>5 DEF LoginInv, TypeOK
  <2>3. offered' \subseteq Flows
    BY <1>2, <1>6 DEF LoginInv, TypeOK
  <2>4. reqs' \in [Requests -> Request]
    BY <1>2, <1>3 DEF LoginInv, TypeOK
  <2> QED
    BY <1>2, <2>1, <2>2, <2>3, <2>4 DEF LoginInv, TypeOK
<1>9. CookiesSound'
  <2>1. \A b \in Browsers : cookies'[b] # None => Sound(b, cookies'[b])
    BY <1>2, <1>7 DEF LoginInv, TypeOK, CookiesSound
  <2> QED
    BY <1>2, <2>1 DEF CookiesSound, Sound, OwnLogin
<1>10. RequestsSound'
  BY <1>2, <1>3, <1>4 DEF LoginInv, RequestsSound, Sound, OwnLogin
<1>11. CallbacksOwn'
  BY <1>2, <1>3, <1>4 DEF LoginInv, CallbacksOwn, Redeemed
<1>12. FlowsStarted'
  BY <1>2, <1>3, <1>4, <1>6 DEF LoginInv, FlowsStarted
<1>13. RedeemedOnce'
  BY <1>2, <1>3, <1>4 DEF LoginInv, RedeemedOnce, Redeemed
<1>14. BarredWaiting'
  BY <1>2, <1>3, <1>4 DEF LoginInv, TypeOK, BarredWaiting
<1> QED
  BY <1>8, <1>9, <1>10, <1>11, <1>12, <1>13, <1>14 DEF LoginInv

\* The cookie disappears.
LEMMA ExpireInv ==
    ASSUME LoginInv, NEW b \in Browsers, Expire(b)
    PROVE  LoginInv'
<1>1. TypeOK'
  BY DEF Expire, LoginInv, TypeOK
<1>2. CookiesSound' /\ RequestsSound'
  BY DEF Expire, LoginInv, TypeOK, CookiesSound, RequestsSound, Sound, OwnLogin
<1>3. CallbacksOwn' /\ FlowsStarted' /\ RedeemedOnce' /\ BarredWaiting'
  BY DEF Expire, LoginInv, CallbacksOwn, FlowsStarted, RedeemedOnce, BarredWaiting, Redeemed
<1> QED
  BY <1>1, <1>2, <1>3 DEF LoginInv

\* The standing of a user changes.
LEMMA SanctionInv ==
    ASSUME LoginInv, NEW u \in Users, NEW status \in {"active", "inactive", "locked"},
           Sanction(u, status)
    PROVE  LoginInv'
<1>1. TypeOK'
  BY DEF Sanction, LoginInv, TypeOK
<1>2. CookiesSound' /\ RequestsSound'
  BY DEF Sanction, LoginInv, TypeOK, CookiesSound, RequestsSound, Sound, OwnLogin
<1>3. CallbacksOwn' /\ FlowsStarted' /\ RedeemedOnce'
  BY DEF Sanction, LoginInv, CallbacksOwn, FlowsStarted, RedeemedOnce, Redeemed
<1>4. BarredWaiting'
  BY DEF Sanction, LoginInv, TypeOK, BarredWaiting
<1> QED
  BY <1>1, <1>2, <1>3, <1>4 DEF LoginInv

\* Every copy of a session stays sound while flows, approvals and tokens are
\* only added to.
LEMMA AllSoundGrow ==
    ASSUME LoginInv,
           \A f \in Flows : flows[f] # None => flows'[f] = flows[f],
           \A f \in Flows : approved[f] # None => approved'[f] = approved[f],
           \A t \in Tokens : minted[t] # None => minted'[t] = minted[t]
    PROVE  /\ \A b \in Browsers : cookies[b] # None =>
                 SoundIn(b, cookies[b], flows', approved', minted')
           /\ \A r \in Requests : reqs[r].pc # "idle" =>
                 SoundIn(reqs[r].browser, reqs[r].session, flows', approved', minted')
<1>1. ASSUME NEW b \in Browsers, cookies[b] # None
      PROVE  SoundIn(b, cookies[b], flows', approved', minted')
  <2>1. cookies[b] \in Session /\ SoundIn(b, cookies[b], flows, approved, minted)
    BY <1>1, SoundRestated DEF LoginInv, TypeOK, CookiesSound, SoundNow
  <2> QED
    BY <2>1, SoundGrows
<1>2. ASSUME NEW r \in Requests, reqs[r].pc # "idle"
      PROVE  SoundIn(reqs[r].browser, reqs[r].session, flows', approved', minted')
  <2>1. /\ reqs[r].session \in Session
        /\ SoundIn(reqs[r].browser, reqs[r].session, flows, approved, minted)
    BY <1>2, SoundRestated, RequestFields DEF LoginInv, RequestsSound, SoundNow
  <2> QED
    BY <2>1, SoundGrows
<1> QED
  BY <1>1, <1>2

\* Somebody authorizes a flow.
LEMMA ApproveInv ==
    ASSUME LoginInv, NEW f \in Flows, NEW a \in Accounts, Approve(f, a)
    PROVE  LoginInv'
<1>1. /\ approved' = [approved EXCEPT ![f] = a] /\ approved[f] = None /\ f \in offered
      /\ UNCHANGED <<cookies, pages, reqs, flows, users, minted, offered, spent, barred>>
  BY DEF Approve
<1>2. TypeOK'
  BY <1>1 DEF LoginInv, TypeOK
<1>3. \A g \in Flows : approved[g] # None => approved'[g] = approved[g]
  BY <1>1 DEF LoginInv, TypeOK
<1>4. CookiesSound' /\ RequestsSound'
  BY <1>1, <1>3, AllSoundGrow
  DEF LoginInv, CookiesSound, RequestsSound, Sound, OwnLogin, SoundIn
<1>5. CallbacksOwn'
  <2>1. \A r \in Requests : reqs[r].flow \in Flows \cup {None}
    BY RequestFields
  <2> QED
    BY <1>1, <1>3, <2>1 DEF LoginInv, CallbacksOwn, Redeemed
<1>6. FlowsStarted'
  BY <1>1 DEF LoginInv, TypeOK, FlowsStarted
<1>7. RedeemedOnce' /\ BarredWaiting'
  BY <1>1 DEF LoginInv, RedeemedOnce, BarredWaiting, Redeemed
<1> QED
  BY <1>2, <1>4, <1>5, <1>6, <1>7 DEF LoginInv

\* The session of a new flow is sound: its keys are written together.
LEMMA StartedSound ==
    ASSUME NEW b, NEW s \in Session, NEW f \in Flows, NEW p \in Providers, NEW wanted \in BOOLEAN,
           NEW F, NEW A, NEW M, SoundIn(b, s, F, A, M),
           F[f] # None, F[f].browser = b, F[f].provider = p
    PROVE  /\ Started(s, f, p, wanted) \in Session
           /\ SoundIn(b, Started(s, f, p, wanted), F, A, M)
<1> DEFINE w == IF wanted THEN f ELSE s.redirect_to
           n == [s EXCEPT !.oauth_state = f, !.oauth_provider = p, !.oauth_pkce_verifier = f,
                          !.redirect_to = w]
<1>1. Started(s, f, p, wanted) = n
  BY Zenon DEF Started
<1>2. w \in Flows \cup {None}
  BY DEF Session
<1> HIDE DEF w
<1>3. n \in Session
  BY <1>2 DEF Session
<1>4. /\ n.oauth_state = f /\ n.oauth_pkce_verifier = f /\ n.oauth_provider = p
      /\ n.user_id = s.user_id /\ n.csrf_token = s.csrf_token /\ n.by = s.by
  BY DEF Session
<1> HIDE DEF n
<1> QED
  BY <1>1, <1>3, <1>4, LoginAssumption DEF SoundIn

\* A flow is started.
LEMMA AuthorizeInv ==
    ASSUME LoginInv, NEW r \in Requests, NEW b \in Browsers, NEW p \in Providers, NEW f \in Flows,
           NEW wanted \in BOOLEAN, oauth_authorize(r, b, p, f, wanted)
    PROVE  LoginInv'
<1> DEFINE s == Decoded(b)
           n == Started(s, f, p, wanted)
           rec == [browser |-> b, provider |-> p, wanted |-> wanted]
           q0 == Sent(b, "authorize")
           q == [q0 EXCEPT !.pc = "reply", !.done = TRUE, !.flow = f, !.dirty = TRUE, !.session = n]
<1>1. /\ reqs[r] = Idle /\ flows[f] = None
      /\ flows' = [flows EXCEPT ![f] = rec]
      /\ reqs' = [reqs EXCEPT ![r] = q]
      /\ UNCHANGED <<cookies, pages, users, minted, offered, approved, spent, barred>>
  BY Zenon DEF oauth_authorize
<1>2. /\ flows'[f] = rec
      /\ \A g \in Flows \ {f} : flows'[g] = flows[g]
      /\ \A g \in Flows : flows[g] # None => flows'[g] = flows[g]
  BY <1>1 DEF LoginInv, TypeOK
<1>3. rec.browser = b /\ rec.provider = p /\ rec # None
  BY LoginAssumption DEF Attempt
<1>4. s \in Session /\ SoundIn(b, s, flows', approved', minted')
  <2>1. s \in Session /\ SoundIn(b, s, flows, approved, minted)
    BY DecodedSound, SoundRestated DEF SoundNow
  <2> QED
    BY <1>1, <1>2, <2>1, SoundGrows
<1>5. n \in Session /\ SoundIn(b, n, flows', approved', minted')
  BY <1>2, <1>3, <1>4, StartedSound
<1>6. q0 \in Request /\ q0.kind = "authorize" /\ q0.browser = b
  BY SentFacts
<1> HIDE DEF s, n, q0
<1>7. q \in Request
  BY <1>5, <1>6 DEF Request
<1>8. q.pc = "reply" /\ q.kind = "authorize" /\ q.browser = b /\ q.session = n /\ q.flow = f
  BY <1>6 DEF Request
<1> HIDE DEF q
<1>9. /\ reqs'[r] = q
      /\ \A v \in Requests \ {r} : reqs'[v] = reqs[v]
  BY <1>1 DEF LoginInv, TypeOK
<1>10. r \notin barred
  BY <1>1, IdleFacts
<1>11. TypeOK'
  BY <1>1, <1>7 DEF LoginInv, TypeOK, Attempt
<1>12. CookiesSound'
  BY <1>1, <1>2, AllSoundGrow DEF LoginInv, CookiesSound, Sound, OwnLogin, SoundIn
<1>13. RequestsSound'
  <2>1. \A v \in Requests : reqs'[v].pc # "idle" =>
          /\ reqs'[v].browser \in Browsers
          /\ SoundIn(reqs'[v].browser, reqs'[v].session, flows', approved', minted')
    BY <1>1, <1>2, <1>5, <1>8, <1>9, AllSoundGrow DEF LoginInv, RequestsSound
  <2> QED
    BY <2>1 DEF RequestsSound, Sound, OwnLogin, SoundIn
<1>14. CallbacksOwn'
  <2>1. \A v \in Requests : reqs[v].flow \in Flows \cup {None}
    BY RequestFields
  <2> QED
    BY <1>1, <1>2, <1>8, <1>9, <2>1 DEF LoginInv, CallbacksOwn, Redeemed
<1>15. FlowsStarted'
  <2>1. \A v \in Requests : reqs[v].flow \in Flows \cup {None}
    BY RequestFields
  <2> QED
    BY <1>1, <1>2, <1>3, <1>8, <1>9, <2>1, LoginAssumption DEF LoginInv, TypeOK, FlowsStarted
<1>16. RedeemedOnce'
  BY <1>1, <1>8, <1>9 DEF LoginInv, RedeemedOnce, Redeemed
<1>17. BarredWaiting'
  BY <1>1, <1>9, <1>10 DEF LoginInv, TypeOK, BarredWaiting
<1> QED
  BY <1>11, <1>12, <1>13, <1>14, <1>15, <1>16, <1>17 DEF LoginInv

\* A login ends: a token is drawn for the flow, and it is the flow's first.
LEMMA CompleteInv ==
    ASSUME LoginInv, NEW r \in Requests, reqs[r].pc \in {"update", "create"}, Complete(r),
           users' \in [Users -> {"absent", "active", "inactive", "locked"}],
           \A u \in Users : users[u] # "absent" => users'[u] = users[u]
    PROVE  LoginInv'
<1> DEFINE q0 == reqs[r]
<1>1. PICK t \in Fresh :
        /\ minted' = [minted EXCEPT ![t] = q0.flow]
        /\ reqs' = [reqs EXCEPT ![r] = [q0 EXCEPT !.pc = "reply", !.done = TRUE,
                                                  !.session = LoggedIn(q0, t),
                                                  !.landing = q0.session.redirect_to]]
        /\ UNCHANGED <<cookies, pages, flows, offered, approved, spent, barred>>
  BY Zenon DEF Complete
<1> DEFINE n == LoggedIn(q0, t)
           w == q0.session.redirect_to
           q == [q0 EXCEPT !.pc = "reply", !.done = TRUE, !.session = n, !.landing = w]
<1>2. /\ q0 \in Request /\ q0.browser \in Browsers /\ w \in Flows \cup {None}
      /\ q0.flow \in Flows \cup {None} /\ q0.user \in Users \cup {None}
  <2>1. q0.session \in Session /\ q0 \in Request
    BY RequestFields DEF LoginInv, TypeOK
  <2> QED
    BY <2>1, RequestFields DEF LoginInv, RequestsSound, Session
<1>3. Redeemed(r) /\ Owns(q0)
  BY DEF LoginInv, CallbacksOwn, Redeemed, Owns
<1>4. q0.flow \in Flows
  BY <1>2, <1>3 DEF Owns
<1>5. q0.user # None
  <2>1. flows[q0.flow] \in Attempt /\ approved[q0.flow] \in Accounts
    BY <1>3, <1>4 DEF Owns, LoginInv, TypeOK
  <2>2. <<flows[q0.flow].provider, approved[q0.flow]>> \in Providers \X Accounts
    BY <2>1 DEF Attempt
  <2> QED
    BY <1>3, <2>2, LoginAssumption DEF Owns
<1>6. t \in Tokens /\ minted[t] = None /\ t # None
  BY LoginAssumption DEF Fresh
<1>7. /\ minted'[t] = q0.flow
      /\ \A v \in Tokens \ {t} : minted'[v] = minted[v]
      /\ minted' \in [Tokens -> Flows \cup {None}]
  BY <1>1, <1>4, <1>6 DEF LoginInv, TypeOK
<1>8. /\ n \in Session
      /\ n.oauth_state = None /\ n.oauth_provider = None /\ n.user_id = q0.user
      /\ n.csrf_token = t /\ n.by = q0.flow
  BY <1>2, <1>4, <1>6 DEF LoggedIn, Empty, Session
<1>9. reqs' = [reqs EXCEPT ![r] = q] /\ UNCHANGED <<cookies, pages, flows, offered, approved, spent, barred>>
  BY <1>1, Zenon
<1>10. r \notin barred
  BY DEF LoginInv, BarredWaiting
<1>11. /\ \A v \in Requests \ {r} : Redeemed(v) => reqs[v].flow # q0.flow
       /\ \A v \in Tokens : minted[v] # q0.flow
       /\ q0.flow \in spent
  BY <1>3 DEF LoginInv, RedeemedOnce
<1>12. q0.kind = "authorize" => q0.flow # None /\ flows[q0.flow] # None
  BY DEF LoginInv, FlowsStarted
<1> HIDE DEF q0, n, w
<1>13. q \in Request
  BY <1>2, <1>8 DEF Request
<1>14. q.pc = "reply" /\ q.kind = q0.kind /\ q.browser = q0.browser /\ q.session = n /\ q.flow = q0.flow
  BY <1>2 DEF Request
<1> HIDE DEF q
<1>15. SoundIn(q.browser, q.session, flows', approved', minted')
  BY <1>3, <1>4, <1>5, <1>6, <1>7, <1>8, <1>9, <1>14 DEF SoundIn, Owns
<1>16. /\ reqs'[r] = q
       /\ \A v \in Requests \ {r} : reqs'[v] = reqs[v]
  BY <1>9 DEF LoginInv, TypeOK
<1>17. TypeOK'
  BY <1>7, <1>9, <1>13 DEF LoginInv, TypeOK
<1>18. \A v \in Tokens : minted[v] # None => minted'[v] = minted[v]
  BY <1>6, <1>7
<1>19. CookiesSound'
  BY <1>9, <1>18, AllSoundGrow DEF LoginInv, CookiesSound, Sound, OwnLogin, SoundIn
<1>20. RequestsSound'
  <2>1. \A v \in Requests : reqs'[v].pc # "idle" =>
          /\ reqs'[v].browser \in Browsers
          /\ SoundIn(reqs'[v].browser, reqs'[v].session, flows', approved', minted')
    BY <1>2, <1>9, <1>14, <1>15, <1>16, <1>18, AllSoundGrow DEF LoginInv, RequestsSound
  <2> QED
    BY <2>1 DEF RequestsSound, Sound, OwnLogin, SoundIn
<1>21. CallbacksOwn'
  BY <1>9, <1>14, <1>16 DEF LoginInv, CallbacksOwn, Redeemed
<1>22. FlowsStarted'
  BY <1>9, <1>12, <1>14, <1>16 DEF LoginInv, FlowsStarted
<1>23. RedeemedOnce'
  <2>1. ~Redeemed(r)' /\ \A v \in Requests \ {r} : Redeemed(v)' => Redeemed(v) /\ reqs'[v].flow = reqs[v].flow
    BY <1>14, <1>16 DEF Redeemed
  <2>2. \A v \in Requests : Redeemed(v)' =>
          /\ reqs'[v].flow \in spent'
          /\ \A z \in Tokens : minted'[z] # reqs'[v].flow
    BY <1>6, <1>7, <1>9, <1>11, <2>1 DEF LoginInv, RedeemedOnce
  <2>3. \A v, z \in Requests : Redeemed(v)' /\ Redeemed(z)' /\ reqs'[z].flow = reqs'[v].flow => z = v
    BY <2>1 DEF LoginInv, RedeemedOnce
  <2>4. \A z \in Tokens : minted'[z] # None => minted'[z] \in spent'
    BY <1>7, <1>9, <1>11 DEF LoginInv, RedeemedOnce
  <2>5. \A z, y \in Tokens : minted'[z] # None /\ minted'[z] = minted'[y] => z = y
    BY <1>7, <1>11 DEF LoginInv, RedeemedOnce
  <2> QED
    BY <2>2, <2>3, <2>4, <2>5 DEF RedeemedOnce
<1>24. BarredWaiting'
  <2>1. \A v \in Requests : reqs[v].user \in Users \cup {None}
    BY RequestFields
  <2> QED
    BY <1>9, <1>10, <1>16, <2>1 DEF LoginInv, TypeOK, BarredWaiting
<1> QED
  BY <1>17, <1>19, <1>20, <1>21, <1>22, <1>23, <1>24 DEF LoginInv

\* The two ways a login ends.
LEMMA LoginEndsInv ==
    ASSUME LoginInv, NEW r \in Requests, UpdateUser(r) \/ CreateUser(r)
    PROVE  LoginInv'
<1>1. CASE UpdateUser(r)
  BY <1>1, CompleteInv DEF UpdateUser, LoginInv, TypeOK
<1>2. CASE CreateUser(r)
  <2>1. /\ users' \in [Users -> {"absent", "active", "inactive", "locked"}]
        /\ \A u \in Users : users[u] # "absent" => users'[u] = users[u]
    BY <1>2 DEF CreateUser, LoginInv, TypeOK
  <2> QED
    BY <1>2, <2>1, CompleteInv DEF CreateUser
<1> QED
  BY <1>1, <1>2

\* Stuttering.
LEMMA StutterInv == LoginInv /\ UNCHANGED vars => LoginInv'
  BY DEF vars, LoginInv, TypeOK, CookiesSound, RequestsSound, CallbacksOwn, FlowsStarted,
         RedeemedOnce, BarredWaiting, Redeemed, Sound, OwnLogin

\* Every step preserves the invariant.
LEMMA NextInv == LoginInv /\ [Next]_vars => LoginInv'
<1> SUFFICES ASSUME LoginInv, [Next]_vars PROVE LoginInv'
  OBVIOUS
<1>1. CASE UNCHANGED vars
  BY <1>1, StutterInv
<1>2. ASSUME NEW f \in Flows, NEW a \in Accounts, Approve(f, a) PROVE LoginInv'
  BY <1>2, ApproveInv
<1>3. ASSUME NEW u \in Users, NEW status \in {"active", "inactive", "locked"}, Sanction(u, status)
      PROVE  LoginInv'
  BY <1>3, SanctionInv
<1>4. ASSUME NEW b \in Browsers, Expire(b) PROVE LoginInv'
  BY <1>4, ExpireInv
<1>5. ASSUME NEW r \in Requests, NEW b \in Browsers, Page(r, b) PROVE LoginInv'
  BY <1>5, PageInv
<1>6. ASSUME NEW r \in Requests, NEW b \in Browsers, CallbackDeclined(r, b) PROVE LoginInv'
  BY <1>6, CallbackDeclinedInv
<1>7. ASSUME NEW r \in Requests, NEW b \in Browsers, NEW f \in Flows, Callback(r, b, f)
      PROVE  LoginInv'
  BY <1>7, CallbackInv
<1>8. ASSUME NEW r \in Requests, NEW b \in Browsers, NEW t \in pages[b] \cup {None},
             SubmitLogout(r, b, t)
      PROVE  LoginInv'
  BY <1>8, SubmitLogoutInv
<1>9. ASSUME NEW r \in Requests, NEW b \in Browsers, NEW p \in Providers, NEW f \in Flows,
             NEW wanted \in BOOLEAN, oauth_authorize(r, b, p, f, wanted)
      PROVE  LoginInv'
  BY <1>9, AuthorizeInv
<1>10. ASSUME NEW r \in Requests, Exchange(r) PROVE LoginInv'
  BY <1>10, ExchangeInv
<1>11. ASSUME NEW r \in Requests, ExchangeError(r) \/ DbError(r) \/ LogoutRefused(r) PROVE LoginInv'
  BY <1>11, ErrorsInv
<1>12. ASSUME NEW r \in Requests, LookupUser(r) PROVE LoginInv'
  BY <1>12, LookupUserInv
<1>13. ASSUME NEW r \in Requests, UpdateUser(r) \/ CreateUser(r) PROVE LoginInv'
  BY <1>13, LoginEndsInv
<1>14. ASSUME NEW r \in Requests, logout(r) PROVE LoginInv'
  BY <1>14, LogoutInv
<1>15. ASSUME NEW r \in Requests, Deliver(r) PROVE LoginInv'
  BY <1>15, DeliverInv
<1>16. ASSUME NEW r \in Requests, Lose(r) PROVE LoginInv'
  BY <1>16, LoseInv
<1> QED
  BY <1>1, <1>2, <1>3, <1>4, <1>5, <1>6, <1>7, <1>8, <1>9, <1>10, <1>11, <1>12, <1>13,
     <1>14, <1>15, <1>16, Zenon DEF Next

-----------------------------------------------------------------------------
(* The theorems                                                             *)

\* The inductive invariant of the sign-in holds in every reachable state.
THEOREM LoginInvHolds == Spec => []LoginInv
  BY InitInv, NextInv, PTL DEF Spec

\* Type correctness; no cookie ever holds an empty session.
THEOREM LoginTypeCorrect == Spec => []TypeOK
  BY LoginInvHolds, PTL DEF LoginInv

\* A browser is only logged in through a flow it started itself.
THEOREM LoginsAreOwn == Spec => []LoginIsOwn
<1>1. LoginInv => LoginIsOwn
  BY DEF LoginInv, CookiesSound, Sound, LoginIsOwn
<1> QED
  BY <1>1, LoginInvHolds, PTL

\* State, verifier and provider in a session belong to one flow.
THEOREM FlowKeysNeverMix == Spec => []FlowKeysAgree
<1>1. LoginInv => FlowKeysAgree
  BY DecodedSound DEF FlowKeysAgree, Sound
<1> QED
  BY <1>1, LoginInvHolds, PTL

\* A session's CSRF token was drawn for its own login.
THEOREM TokensAreFresh == Spec => []TokenPerLogin
<1>1. LoginInv => TokenPerLogin
  BY DecodedSound DEF TokenPerLogin, Sound
<1> QED
  BY <1>1, LoginInvHolds, PTL

\* A form rendered for the current login stays submittable.
THEOREM PagesStayValid == Spec => []OpenPagesStayValid
<1>1. LoginInv => OpenPagesStayValid
  <2> SUFFICES ASSUME LoginInv, NEW b \in Browsers, NEW t \in pages[b],
                      Decoded(b).user_id # None, minted[t] = Decoded(b).by
               PROVE  t = Decoded(b).csrf_token
    BY DEF OpenPagesStayValid
  <2>1. /\ Decoded(b).csrf_token # None /\ minted[Decoded(b).csrf_token] = Decoded(b).by
        /\ Decoded(b).by # None /\ Decoded(b).csrf_token \in Tokens
    BY DecodedSound DEF Sound, OwnLogin, Session
  <2>2. t \in Tokens
    BY DEF LoginInv, TypeOK
  <2> QED
    BY <2>1, <2>2 DEF LoginInv, RedeemedOnce
<1> QED
  BY <1>1, LoginInvHolds, PTL

\* Whoever is sanctioned before the request neither logs in nor acts.
THEOREM SanctionedUsersStayOut == Spec => []SanctionedStaysOut
<1>1. LoginInv => SanctionedStaysOut
  BY DEF LoginInv, BarredWaiting, SanctionedStaysOut
<1> QED
  BY <1>1, LoginInvHolds, PTL

-----------------------------------------------------------------------------
(* Induction and recursion up to a bound, for the codec.                    *)

\* Induction up to N: a set with 0 and the successors of its members misses none.  The
\* members below one that is missing would be as many as those of them that are not 0.
LEMMA UpTo ==
    ASSUME NEW N \in Nat, NEW S, 0 \in S, \A n \in 0 .. N - 1 : n \in S => n + 1 \in S
    PROVE  0 .. N \subseteq S
<1> SUFFICES ASSUME NEW m \in 0 .. N, m \notin S PROVE FALSE
  OBVIOUS
<1> DEFINE T == {i \in 0 .. m : i \in S}
           f == [i \in T |-> i + 1]
<1>1. m \in Nat /\ m <= N /\ m # 0
  OBVIOUS
<1>2. IsFiniteSet(T) /\ Cardinality(T) \in Nat
  <2>1. IsFiniteSet(0 .. m)
    BY <1>1, FS_Interval
  <2> QED
    BY <2>1, FS_Subset, FS_CardinalityType
<1>3. 0 \in T
  BY <1>1
<1>4. IsFiniteSet(T \ {0}) /\ Cardinality(T \ {0}) = Cardinality(T) - 1
  BY <1>2, <1>3, FS_RemoveElement
<1>5. \A i \in T : i + 1 \in T \ {0}
  BY <1>1
<1>6. f \in Injection(T, T \ {0})
  <2>1. f \in [T -> T \ {0}]
    BY <1>5
  <2>2. \A i, k \in T : f[i] = f[k] => i = k
    OBVIOUS
  <2> QED
    BY <2>1, <2>2 DEF Injection, IsInjective
<1> HIDE DEF T, f
<1>7. Cardinality(T) <= Cardinality(T \ {0})
  BY <1>4, <1>6, FS_Injection
<1> QED
  BY <1>2, <1>4, <1>7

\* f goes from z by the given steps.
Follows(f, n, X, z, step) ==
    f \in [0 .. n -> X] /\ f[0] = z /\ \A i \in 1 .. n : f[i] = step[i][f[i - 1]]

\* Recursion up to N: a start and a function for each step determine what the steps reach.
LEMMA Recursion ==
    ASSUME NEW N \in Nat, NEW X, NEW z \in X, NEW step \in [1 .. N -> [X -> X]]
    PROVE  \E f : Follows(f, N, X, z, step)
<1> DEFINE S == {n \in 0 .. N : \E f : Follows(f, n, X, z, step)}
<1>1. 0 \in S
  <2>1. Follows([i \in 0 .. 0 |-> z], 0, X, z, step)
    BY DEF Follows
  <2> QED
    BY <2>1
<1>2. ASSUME NEW n \in 0 .. N - 1, n \in S PROVE n + 1 \in S
  <2>1. PICK f : Follows(f, n, X, z, step)
    BY <1>2
  <2> DEFINE g == [i \in 0 .. n + 1 |-> IF i <= n THEN f[i] ELSE step[n + 1][f[n]]]
  <2>2. n \in Nat /\ n + 1 \in 1 .. N
    OBVIOUS
  <2>3. step[n + 1][f[n]] \in X
    BY <2>1, <2>2 DEF Follows
  <2>4. g \in [0 .. n + 1 -> X] /\ g[0] = z
    BY <2>1, <2>2, <2>3 DEF Follows
  <2>5. ASSUME NEW i \in 1 .. n + 1 PROVE g[i] = step[i][g[i - 1]]
    <3>1. CASE i <= n
      <4>1. g[i] = f[i] /\ g[i - 1] = f[i - 1] /\ i \in 1 .. n
        BY <2>2, <3>1
      <4> QED
        BY <2>1, <4>1 DEF Follows
    <3>2. CASE i = n + 1
      <4>1. g[i] = step[n + 1][f[n]] /\ g[n] = f[n] /\ i - 1 = n
        BY <2>2, <3>2
      <4> QED
        BY <3>2, <4>1
    <3> QED
      BY <2>2, <3>1, <3>2
  <2>6. Follows(g, n + 1, X, z, step)
    BY <2>4, <2>5 DEF Follows
  <2> QED
    BY <2>2, <2>6
<1> HIDE DEF S
<1>3. 0 .. N \subseteq S
  BY <1>1, <1>2, UpTo
<1>4. N \in S
  BY <1>3
<1> QED
  BY <1>4 DEF S

-----------------------------------------------------------------------------
(* Splitting                                                                *)

Bytes == 0 .. 255
Text == Seq(0 .. 254)

\* A split has at least one part.
Lists == Seq(Seq(Bytes)) \ {<< >>}

\* One byte keeps a split a split.
LEMMA FedType ==
    ASSUME NEW p \in Lists, NEW b \in Bytes
    PROVE  Fed(p, b) \in Lists
<1>1. p \in Seq(Seq(Bytes)) /\ Len(p) \in Nat /\ Len(p) > 0 /\ Len(p) \in DOMAIN p /\ p[Len(p)] \in Seq(Bytes)
  BY DEF Lists
<1>2. Append(p[Len(p)], b) \in Seq(Bytes) /\ << >> \in Seq(Bytes)
  BY <1>1
<1>3. Append(p, << >>) \in Seq(Seq(Bytes)) /\ Append(p, << >>) # << >>
  BY <1>1, <1>2
<1>4. ASSUME NEW e \in Seq(Bytes)
      PROVE  [p EXCEPT ![Len(p)] = e] \in Seq(Seq(Bytes)) /\ [p EXCEPT ![Len(p)] = e] # << >>
  <2>1. [p EXCEPT ![Len(p)] = e] \in Seq(Seq(Bytes)) /\ Len([p EXCEPT ![Len(p)] = e]) = Len(p)
    BY <1>1, ExceptSeq
  <2> QED
    BY <1>1, <2>1
<1> QED
  BY <1>2, <1>3, <1>4 DEF Fed, Lists

\* f is the split of s after each of its bytes.
Splits(f, s) == f = [i \in 0 .. Len(s) |-> IF i = 0 THEN << << >> >> ELSE Fed(f[i - 1], s[i])]

\* The split is what its definition says.
LEMMA SplitDef ==
    ASSUME NEW s \in Seq(Bytes)
    PROVE  /\ \A i \in 0 .. Len(s) : Split(s)[i] \in Lists
           /\ Split(s)[0] = << << >> >>
           /\ \A i \in 1 .. Len(s) : Split(s)[i] = Fed(Split(s)[i - 1], s[i])
<1> DEFINE n == Len(s)
           step == [i \in 1 .. n |-> [p \in Lists |-> Fed(p, s[i])]]
<1>1. n \in Nat /\ \A i \in 1 .. n : s[i] \in Bytes
  OBVIOUS
<1>2. << << >> >> \in Lists
  BY DEF Lists
<1>3. step \in [1 .. n -> [Lists -> Lists]]
  BY <1>1, FedType
<1> HIDE DEF step
<1>4. PICK f : Follows(f, n, Lists, << << >> >>, step)
  BY <1>1, <1>2, <1>3, Recursion
<1>5. ASSUME NEW i \in 1 .. n PROVE f[i] = Fed(f[i - 1], s[i])
  <2>1. f[i - 1] \in Lists
    BY <1>1, <1>4 DEF Follows
  <2>2. step[i][f[i - 1]] = Fed(f[i - 1], s[i])
    BY <2>1 DEF step
  <2> QED
    BY <1>4, <2>2 DEF Follows
<1>6. Splits(f, s)
  <2>1. f = [i \in 0 .. n |-> f[i]] /\ f[0] = << << >> >>
    BY <1>4 DEF Follows
  <2>2. \A i \in 0 .. n : i # 0 => i \in 1 .. n
    BY <1>1
  <2>3. \A i \in 0 .. n : f[i] = IF i = 0 THEN << << >> >> ELSE Fed(f[i - 1], s[i])
    BY <1>5, <2>1, <2>2
  <2> QED
    BY <2>1, <2>3 DEF Splits
<1>7. Split(s) = CHOOSE g : Splits(g, s)
  BY DEF Split, Splits
<1>8. Splits(Split(s), s)
  BY <1>6, <1>7
<1>9. /\ Split(s)[0] = << << >> >>
      /\ \A i \in 1 .. n : Split(s)[i] = Fed(Split(s)[i - 1], s[i])
  <2>1. \A i \in 0 .. n : Split(s)[i] = IF i = 0 THEN << << >> >> ELSE Fed(Split(s)[i - 1], s[i])
    BY <1>8 DEF Splits
  <2>2. 0 \in 0 .. n /\ \A i \in 1 .. n : i \in 0 .. n /\ i # 0
    BY <1>1
  <2> QED
    BY <2>1, <2>2
<1> DEFINE S == {i \in 0 .. n : Split(s)[i] \in Lists}
<1>10. 0 \in S
  BY <1>1, <1>2, <1>9
<1>11. ASSUME NEW i \in 0 .. n - 1, i \in S PROVE i + 1 \in S
  <2>1. i + 1 \in 1 .. n /\ i + 1 - 1 = i
    BY <1>1
  <2>2. Split(s)[i + 1] = Fed(Split(s)[i], s[i + 1])
    BY <1>9, <2>1
  <2>3. Split(s)[i + 1] \in Lists
    BY <1>1, <1>11, <2>1, <2>2, FedType
  <2> QED
    BY <1>1, <2>1, <2>3
<1> HIDE DEF S
<1>12. 0 .. n \subseteq S
  BY <1>1, <1>10, <1>11, UpTo
<1> QED
  BY <1>9, <1>12 DEF S

\* What follows does not change the split of what came before.
LEMMA SplitBefore ==
    ASSUME NEW s \in Seq(Bytes), NEW t \in Seq(Bytes)
    PROVE  Split(s \o t)[Len(s)] = Parts(s)
<1> DEFINE n == Len(s)
           u == s \o t
           S == {i \in 0 .. n : Split(u)[i] = Split(s)[i]}
<1>1. /\ u \in Seq(Bytes) /\ n \in Nat /\ Len(u) \in Nat /\ n <= Len(u)
      /\ \A i \in 1 .. n : u[i] = s[i]
  BY ConcatProperties
<1> HIDE DEF u
<1>2. 0 \in S
  <2>1. Split(u)[0] = << << >> >> /\ Split(s)[0] = << << >> >>
    BY <1>1, SplitDef
  <2> QED
    BY <1>1, <2>1
<1>3. ASSUME NEW i \in 0 .. n - 1, i \in S PROVE i + 1 \in S
  <2>1. i + 1 \in 1 .. n /\ i + 1 \in 1 .. Len(u) /\ i + 1 - 1 = i
    BY <1>1
  <2>2. Split(u)[i + 1] = Fed(Split(u)[i], u[i + 1])
    BY <1>1, <2>1, SplitDef
  <2>3. Split(s)[i + 1] = Fed(Split(s)[i], s[i + 1])
    BY <1>1, <2>1, SplitDef
  <2>4. Split(u)[i + 1] = Split(s)[i + 1]
    BY <1>1, <1>3, <2>1, <2>2, <2>3
  <2> QED
    BY <1>1, <2>1, <2>4
<1> HIDE DEF S
<1>4. 0 .. n \subseteq S
  BY <1>1, <1>2, <1>3, UpTo
<1>5. n \in S
  BY <1>1, <1>4
<1> QED
  BY <1>5 DEF S, u, Parts

\* The last part, with more bytes behind it.
Extended(p, t) == [p EXCEPT ![Len(p)] = p[Len(p)] \o t]

\* Text is made of bytes.
LEMMA TextBytes ==
    ASSUME NEW t \in Text
    PROVE  t \in Seq(Bytes) /\ Len(t) \in Nat /\ \A j \in 1 .. Len(t) : t[j] \in 0 .. 254
<1>1. 0 .. 254 \subseteq Bytes
  BY DEF Bytes
<1>2. t \in Seq(0 .. 254)
  BY DEF Text
<1>3. Len(t) \in Nat /\ t \in [1 .. Len(t) -> 0 .. 254]
  BY <1>2, LenProperties
<1>4. \A j \in 1 .. Len(t) : t[j] \in 0 .. 254
  BY <1>3
<1>5. t \in [1 .. Len(t) -> Bytes]
  BY <1>1, <1>3
<1>6. t \in Seq(Bytes)
  BY <1>3, <1>5
<1> QED
  BY <1>3, <1>4, <1>6

\* The facts about a split that the steps below use.
LEMMA LastPart ==
    ASSUME NEW p \in Lists
    PROVE  /\ p \in Seq(Seq(Bytes)) /\ Len(p) \in Nat /\ Len(p) \in 1 .. Len(p)
           /\ p[Len(p)] \in Seq(Bytes) /\ p \in [1 .. Len(p) -> Seq(Bytes)]
<1>1. p \in Seq(Seq(Bytes)) /\ p # << >>
  BY DEF Lists
<1>2. Len(p) \in Nat /\ Len(p) # 0 /\ p \in [1 .. Len(p) -> Seq(Bytes)]
  BY <1>1, LenProperties, EmptySeq
<1> QED
  BY <1>1, <1>2

\* A byte of text goes to the last part.
LEMMA FedText ==
    ASSUME NEW p \in Lists, NEW a \in Seq(Bytes), NEW b \in 0 .. 254
    PROVE  Fed(Extended(p, a), b) = Extended(p, a \o <<b>>)
<1> DEFINE n == Len(p)
           last == p[n]
           e == Extended(p, a)
<1>1. /\ p \in Seq(Seq(Bytes)) /\ n \in Nat /\ n \in 1 .. n /\ last \in Seq(Bytes)
      /\ p \in [1 .. n -> Seq(Bytes)]
  BY LastPart
<1>2. last \o a \in Seq(Bytes) /\ b \in Bytes /\ <<b>> \in Seq(Bytes)
  BY <1>1, ConcatProperties DEF Bytes
<1>3. Append(last \o a, b) = last \o (a \o <<b>>)
  <2>1. Append(last \o a, b) = (last \o a) \o <<b>>
    BY <1>2, AppendIsConcat
  <2>2. (last \o a) \o <<b>> = last \o (a \o <<b>>)
    <3> DEFINE z == <<b>>
    <3>1. z \in Seq(Bytes) /\ last \in Seq(Bytes)
      BY <1>1, <1>2
    <3> HIDE DEF z, last
    <3>2. (last \o a) \o z = last \o (a \o z)
      BY <3>1, ConcatAssociative
    <3> QED
      BY <3>2 DEF z
  <2> QED
    BY <2>1, <2>2
<1>4. Len(e) = n /\ e = [p EXCEPT ![n] = last \o a]
  BY <1>1, <1>2, ExceptSeq DEF Extended
<1>5. e[n] = last \o a
  BY <1>1, <1>4
<1> HIDE DEF e, n, last
<1>6. Fed(e, b) = [e EXCEPT ![n] = Append(last \o a, b)]
  <2>1. b # Separator
    BY DEF Separator
  <2> QED
    BY <1>4, <1>5, <2>1 DEF Fed
<1>7. [e EXCEPT ![n] = Append(last \o a, b)] = [p EXCEPT ![n] = Append(last \o a, b)]
  BY <1>1, <1>4
<1> QED
  BY <1>3, <1>6, <1>7 DEF Extended, e, n, last

\* Text behind what is split already extends the last part.
LEMMA PartsText ==
    ASSUME NEW s \in Seq(Bytes), NEW t \in Text
    PROVE  Parts(s \o t) = Extended(Parts(s), t)
<1> DEFINE m == Len(s)
           n == Len(t)
           u == s \o t
           P == Parts(s)
           S == {j \in 0 .. n : Split(u)[m + j] = Extended(P, SubSeq(t, 1, j))}
<1>1. t \in Seq(Bytes) /\ n \in Nat /\ \A j \in 1 .. n : t[j] \in 0 .. 254
  BY TextBytes
<1>2. /\ u \in Seq(Bytes) /\ m \in Nat /\ Len(u) = m + n
      /\ \A j \in 1 .. n : u[m + j] = t[j]
  BY <1>1, ConcatProperties
<1>3. P \in Lists
  BY <1>2, SplitDef DEF Parts
<1>4. Split(u)[m] = P
  BY <1>1, SplitBefore
<1> HIDE DEF u, P
<1>5. 0 \in S
  <2>1. SubSeq(t, 1, 0) = << >>
    BY SubSeqEmpty
  <2>2. P[Len(P)] \o << >> = P[Len(P)] /\ P \in [1 .. Len(P) -> Seq(Bytes)]
    BY <1>3, LastPart, ConcatEmptySeq
  <2>3. Extended(P, << >>) = P
    BY <2>2 DEF Extended
  <2>4. m + 0 = m /\ 0 \in 0 .. n
    BY <1>1, <1>2
  <2> QED
    BY <1>4, <2>1, <2>3, <2>4
<1>6. ASSUME NEW j \in 0 .. n - 1, j \in S PROVE j + 1 \in S
  <2>1. j \in Nat /\ j + 1 \in 1 .. n /\ m + (j + 1) \in 1 .. Len(u) /\ m + (j + 1) - 1 = m + j
    BY <1>1, <1>2
  <2>2. Split(u)[m + (j + 1)] = Fed(Split(u)[m + j], u[m + (j + 1)])
    <3> DEFINE k == m + (j + 1)
    <3>1. k \in 1 .. Len(u) /\ k - 1 = m + j
      BY <2>1
    <3> HIDE DEF k
    <3>2. Split(u)[k] = Fed(Split(u)[k - 1], u[k])
      BY <1>2, <3>1, SplitDef
    <3> QED
      BY <3>1, <3>2 DEF k
  <2>3. u[m + (j + 1)] = t[j + 1] /\ t[j + 1] \in 0 .. 254
    BY <1>1, <1>2, <2>1
  <2>4. Split(u)[m + j] = Extended(P, SubSeq(t, 1, j))
    BY <1>6
  <2>5. SubSeq(t, 1, j) \in Seq(Bytes)
    BY <1>1, <2>1, SubSeqProperties
  <2>6. Fed(Extended(P, SubSeq(t, 1, j)), t[j + 1]) = Extended(P, SubSeq(t, 1, j) \o <<t[j + 1]>>)
    BY <1>3, <2>3, <2>5, FedText
  <2>7. SubSeq(t, 1, j + 1) = SubSeq(t, 1, j) \o <<t[j + 1]>>
    <3>1. 1 \in 1 .. n /\ j + 1 \in 1 .. Len(t) /\ j + 1 - 1 = j
      BY <1>1, <2>1
    <3> QED
      BY <1>1, <3>1, SubSeqRecursiveSecond
  <2>8. Split(u)[m + (j + 1)] = Extended(P, SubSeq(t, 1, j + 1))
    BY <2>2, <2>3, <2>4, <2>6, <2>7
  <2> QED
    BY <1>1, <2>1, <2>8
<1> HIDE DEF S
<1>7. 0 .. n \subseteq S
  BY <1>1, <1>5, <1>6, UpTo
<1>8. n \in S
  BY <1>1, <1>7
<1>9. SubSeq(t, 1, n) = t
  BY <1>1, SubSeqFull
<1>10. Split(u)[m + n] = Extended(P, t)
  BY <1>8, <1>9 DEF S
<1> QED
  BY <1>2, <1>10 DEF Parts, u, P

\* A separator starts an empty part.
LEMMA PartsSeparator ==
    ASSUME NEW s \in Seq(Bytes)
    PROVE  Parts(s \o <<Separator>>) = Append(Parts(s), << >>)
<1> DEFINE m == Len(s)
           u == s \o <<Separator>>
<1>1. Separator \in Bytes /\ <<Separator>> \in Seq(Bytes) /\ Len(<<Separator>>) = 1
  BY DEF Separator, Bytes
<1>2. u \in Seq(Bytes) /\ m \in Nat /\ Len(u) = m + 1 /\ u[m + 1] = Separator
  BY <1>1, ConcatProperties
<1>3. Split(u)[m] = Parts(s)
  BY <1>1, SplitBefore
<1> HIDE DEF u
<1>4. Split(u)[m + 1] = Fed(Split(u)[m], u[m + 1])
  <2>1. m + 1 \in 1 .. Len(u) /\ m + 1 - 1 = m
    BY <1>2
  <2> QED
    BY <1>2, <2>1, SplitDef
<1> QED
  BY <1>2, <1>3, <1>4 DEF Fed, Parts, u

\* A separator and text are one part more.
LEMMA NextPart ==
    ASSUME NEW s \in Seq(Bytes), NEW t \in Text
    PROVE  Parts((s \o <<Separator>>) \o t) = Append(Parts(s), t)
<1> DEFINE P == Parts(s)
           Q == Append(P, << >>)
<1>1. t \in Seq(Bytes) /\ << >> \in Seq(Bytes) /\ <<Separator>> \in Seq(Bytes)
  BY DEF Text, Bytes, Separator
<1>2. s \o <<Separator>> \in Seq(Bytes)
  BY <1>1, ConcatProperties
<1>3. P \in Seq(Seq(Bytes)) /\ Len(P) \in Nat
  <2>1. P \in Lists
    BY SplitDef DEF Parts
  <2> QED
    BY <2>1, LastPart
<1>4. Parts((s \o <<Separator>>) \o t) = Extended(Q, t)
  BY <1>2, PartsText, PartsSeparator
<1> HIDE DEF P
<1>5. /\ Len(Q) = Len(P) + 1 /\ Q[Len(P) + 1] = << >> /\ Q \in Seq(Seq(Bytes))
      /\ \A i \in 1 .. Len(P) : Q[i] = P[i]
  BY <1>1, <1>3, AppendProperties
<1>6. /\ Len(Append(P, t)) = Len(P) + 1 /\ Append(P, t)[Len(P) + 1] = t /\ Append(P, t) \in Seq(Seq(Bytes))
      /\ \A i \in 1 .. Len(P) : Append(P, t)[i] = P[i]
  BY <1>1, <1>3, AppendProperties
<1> HIDE DEF Q
<1>7. << >> \o t = t
  BY <1>1, ConcatEmptySeq
<1>8. Extended(Q, t) = [Q EXCEPT ![Len(P) + 1] = t]
  BY <1>5, <1>7 DEF Extended
<1>9. /\ Extended(Q, t) \in Seq(Seq(Bytes)) /\ Len(Extended(Q, t)) = Len(P) + 1
      /\ \A i \in 1 .. Len(P) + 1 : Extended(Q, t)[i] = IF i = Len(P) + 1 THEN t ELSE Q[i]
  BY <1>1, <1>3, <1>5, <1>8, ExceptSeq
<1>10. \A i \in 1 .. Len(P) + 1 : Extended(Q, t)[i] = Append(P, t)[i]
  <2> SUFFICES ASSUME NEW i \in 1 .. Len(P) + 1 PROVE Extended(Q, t)[i] = Append(P, t)[i]
    OBVIOUS
  <2>1. CASE i = Len(P) + 1
    BY <1>6, <1>9, <2>1
  <2>2. CASE i # Len(P) + 1
    <3>1. i \in 1 .. Len(P)
      BY <1>3, <2>2
    <3>2. Extended(Q, t)[i] = Q[i]
      BY <1>9, <2>2
    <3> QED
      BY <1>5, <1>6, <3>1, <3>2
  <2> QED
    BY <2>1, <2>2
<1>11. Extended(Q, t) = Append(P, t)
  BY <1>6, <1>9, <1>10, SeqEqual
<1> QED
  BY <1>4, <1>11 DEF P

-----------------------------------------------------------------------------
(* Writing                                                                  *)

\* One entry more.
More(w, i, h, order) ==
    w \o (IF i = 1 THEN << >> ELSE <<Separator>>) \o order[i] \o <<Separator>> \o h[order[i]]

\* w is what is written after each entry.
Writes(w, h, order) ==
    w = [i \in 0 .. Len(order) |-> IF i = 0 THEN << >> ELSE More(w[i - 1], i, h, order)]

\* The keys and values of a session are text.
InText(h, order) == order \in Seq(Text) /\ \A i \in 1 .. Len(order) : h[order[i]] \in Text

\* An entry is bytes.
LEMMA MoreType ==
    ASSUME NEW h, NEW order, InText(h, order), NEW i \in 1 .. Len(order), NEW w \in Seq(Bytes)
    PROVE  /\ More(w, i, h, order) \in Seq(Bytes)
           /\ w \o (IF i = 1 THEN << >> ELSE <<Separator>>) \in Seq(Bytes)
           /\ w \o (IF i = 1 THEN << >> ELSE <<Separator>>) \o order[i] \in Seq(Bytes)
<1> DEFINE gap == IF i = 1 THEN << >> ELSE <<Separator>>
           sep == <<Separator>>
           key == order[i]
           value == h[key]
<1>1. gap \in Seq(Bytes) /\ sep \in Seq(Bytes)
  <2>1. << >> \in Seq(Bytes) /\ Separator \in Bytes
    BY DEF Separator, Bytes
  <2>2. <<Separator>> \in Seq(Bytes)
    BY <2>1
  <2> QED
    BY <2>1, <2>2
<1>2. key \in Text /\ value \in Text
  BY DEF InText
<1>3. key \in Seq(Bytes) /\ value \in Seq(Bytes)
  BY <1>2, TextBytes
<1> HIDE DEF gap, sep, key, value
<1>4. w \o gap \in Seq(Bytes)
  BY <1>1, ConcatProperties
<1>5. w \o gap \o key \in Seq(Bytes)
  BY <1>3, <1>4, ConcatProperties
<1>6. w \o gap \o key \o sep \in Seq(Bytes)
  BY <1>1, <1>5, ConcatProperties
<1>7. w \o gap \o key \o sep \o value \in Seq(Bytes)
  BY <1>3, <1>6, ConcatProperties
<1> QED
  BY <1>4, <1>5, <1>7 DEF More, gap, key, sep, value

\* What is written is what its definition says.
LEMMA EncodedDef ==
    ASSUME NEW h, NEW order, InText(h, order)
    PROVE  /\ \A i \in 0 .. Len(order) : Encoded(h, order)[i] \in Seq(Bytes)
           /\ Encoded(h, order)[0] = << >>
           /\ \A i \in 1 .. Len(order) : Encoded(h, order)[i] = More(Encoded(h, order)[i - 1], i, h, order)
<1> DEFINE n == Len(order)
           W == Encoded(h, order)
           step == [i \in 1 .. n |-> [w \in Seq(Bytes) |-> More(w, i, h, order)]]
<1>1. n \in Nat /\ << >> \in Seq(Bytes)
  BY DEF InText
<1>2. step \in [1 .. n -> [Seq(Bytes) -> Seq(Bytes)]]
  BY MoreType
<1> HIDE DEF step
<1>3. PICK f : Follows(f, n, Seq(Bytes), << >>, step)
  BY <1>1, <1>2, Recursion
<1>4. ASSUME NEW i \in 1 .. n PROVE f[i] = More(f[i - 1], i, h, order)
  <2>1. f[i - 1] \in Seq(Bytes)
    BY <1>1, <1>3 DEF Follows
  <2>2. step[i][f[i - 1]] = More(f[i - 1], i, h, order)
    BY <2>1 DEF step
  <2> QED
    BY <1>3, <2>2 DEF Follows
<1>5. Writes(f, h, order)
  <2>1. f = [i \in 0 .. n |-> f[i]] /\ f[0] = << >>
    BY <1>3 DEF Follows
  <2>2. \A i \in 0 .. n : i # 0 => i \in 1 .. n
    BY <1>1
  <2>3. \A i \in 0 .. n : f[i] = IF i = 0 THEN << >> ELSE More(f[i - 1], i, h, order)
    BY <1>4, <2>1, <2>2
  <2> QED
    BY <2>1, <2>3 DEF Writes
<1>6. W = CHOOSE w : Writes(w, h, order)
  BY DEF Encoded, Writes, More
<1>7. Writes(W, h, order)
  BY <1>5, <1>6
<1> HIDE DEF W
<1>8. W[0] = << >> /\ \A i \in 1 .. n : W[i] = More(W[i - 1], i, h, order)
  <2>1. \A i \in 0 .. n : W[i] = IF i = 0 THEN << >> ELSE More(W[i - 1], i, h, order)
    BY <1>7 DEF Writes
  <2>2. 0 \in 0 .. n /\ \A i \in 1 .. n : i \in 0 .. n /\ i # 0
    BY <1>1
  <2> QED
    BY <2>1, <2>2
<1> DEFINE S == {i \in 0 .. n : W[i] \in Seq(Bytes)}
<1>9. 0 \in S
  <2>1. 0 \in 0 .. n
    BY <1>1
  <2>2. W[0] \in Seq(Bytes)
    BY <1>1, <1>8
  <2> QED
    BY <2>1, <2>2
<1>10. ASSUME NEW i \in 0 .. n - 1, i \in S PROVE i + 1 \in S
  <2>1. i + 1 \in 1 .. n /\ i + 1 - 1 = i
    BY <1>1
  <2>2. W[i + 1] = More(W[i], i + 1, h, order)
    BY <1>8, <2>1
  <2>3. W[i + 1] \in Seq(Bytes)
    BY <1>10, <2>1, <2>2, MoreType
  <2> QED
    BY <1>1, <2>1, <2>3
<1> HIDE DEF S
<1>11. 0 .. n \subseteq S
  BY <1>1, <1>9, <1>10, UpTo
<1> QED
  BY <1>8, <1>11 DEF S, W

\* The parts are the keys and values of the first i entries, in turn.
Listed(parts, i, h, order) ==
    /\ parts \in Seq(Seq(Bytes)) /\ Len(parts) = 2 * i
    /\ \A j \in 1 .. i : parts[2 * j - 1] = order[j] /\ parts[2 * j] = h[order[j]]

\* The first key is the first part.
LEMMA FirstPart ==
    ASSUME NEW t \in Text
    PROVE  Parts(<< >> \o << >> \o t) = <<t>>
<1>1. << >> \in Seq(Bytes) /\ << >> \o << >> = << >> /\ Len(<< >>) = 0
  BY ConcatEmptySeq
<1>2. Parts(<< >>) = << << >> >>
  BY <1>1, SplitDef DEF Parts
<1>3. Parts(<< >> \o << >> \o t) = Extended(<< << >> >>, t)
  BY <1>1, <1>2, PartsText
<1>4. << >> \o t = t
  BY TextBytes, ConcatEmptySeq
<1>5. Extended(<< << >> >>, t) = [<< << >> >> EXCEPT ![1] = t]
  BY <1>4 DEF Extended
<1>6. [<< << >> >> EXCEPT ![1] = t] = <<t>>
  OBVIOUS
<1> QED
  BY <1>3, <1>5, <1>6

\* Splitting what was written gives the entries back.
LEMMA EncodedParts ==
    ASSUME NEW h, NEW order, InText(h, order), Len(order) > 0
    PROVE  Listed(Parts(Encoded(h, order)[Len(order)]), Len(order), h, order)
<1> DEFINE n == Len(order)
           W == Encoded(h, order)
           S == {i \in 0 .. n : i = 0 \/ Listed(Parts(W[i]), i, h, order)}
<1>1. n \in Nat /\ order \in Seq(Text)
  BY DEF InText
<1>2. /\ \A i \in 0 .. n : W[i] \in Seq(Bytes)
      /\ W[0] = << >>
      /\ \A i \in 1 .. n : W[i] = More(W[i - 1], i, h, order)
  BY EncodedDef
<1> HIDE DEF W
<1>3. 0 \in S
  BY <1>1
<1>4. ASSUME NEW i \in 0 .. n - 1, i \in S PROVE i + 1 \in S
  <2> DEFINE key == order[i + 1]
             value == h[key]
  <2>1. i \in Nat /\ i + 1 \in 1 .. n /\ i + 1 - 1 = i /\ i \in 0 .. n
    BY <1>1
  <2>2. key \in Text /\ value \in Text
    BY <1>1, <2>1 DEF InText
  <2>3. key \in Seq(Bytes) /\ value \in Seq(Bytes)
    BY <2>2, TextBytes
  <2>4. W[i] \in Seq(Bytes) /\ W[i + 1] = More(W[i], i + 1, h, order)
    BY <1>2, <2>1
  <2>5. CASE i = 0
    <3>1. W[i + 1] = << >> \o << >> \o key \o <<Separator>> \o value
      <4>1. i + 1 = 1 /\ W[i] = << >>
        BY <1>2, <2>5
      <4>2. W[i + 1] = More(<< >>, 1, h, order) /\ key = order[1]
        BY <2>4, <4>1
      <4> QED
        BY <4>2 DEF More
    <3>2. << >> \o << >> \o key \in Seq(Bytes)
      BY <2>3, ConcatProperties, ConcatEmptySeq
    <3> HIDE DEF key, value
    <3>3. Parts(W[i + 1]) = Append(<<key>>, value)
      BY <2>2, <3>1, <3>2, NextPart, FirstPart
    <3> DEFINE R == Append(<<key>>, value)
    <3>4. <<key>> \in Seq(Seq(Bytes)) /\ Len(<<key>>) = 1 /\ <<key>>[1] = key
      BY <2>3
    <3>5. R \in Seq(Seq(Bytes)) /\ Len(R) = 2 /\ R[1] = key /\ R[2] = value
      BY <2>3, <3>4, AppendProperties
    <3> HIDE DEF R
    <3>6. ASSUME NEW j \in 1 .. i + 1
          PROVE  R[2 * j - 1] = order[j] /\ R[2 * j] = h[order[j]]
      <4>1. j = i + 1 /\ 2 * j - 1 = 1 /\ 2 * j = 2
        BY <2>5
      <4> QED
        BY <3>5, <4>1 DEF key, value
    <3>7. Len(R) = 2 * (i + 1)
      BY <2>5, <3>5
    <3>8. Listed(R, i + 1, h, order)
      BY <3>5, <3>6, <3>7 DEF Listed
    <3>9. Listed(Parts(W[i + 1]), i + 1, h, order)
      BY <3>3, <3>8 DEF R
    <3> QED
      BY <1>1, <2>1, <3>9
  <2>6. CASE i # 0
    <3> DEFINE P == Parts(W[i])
               Q == Append(P, key)
               R == Append(Q, value)
    <3>1. W[i + 1] = W[i] \o <<Separator>> \o key \o <<Separator>> \o value
      <4>1. i + 1 # 1
        BY <2>1, <2>6
      <4> QED
        BY <2>4, <4>1 DEF More
    <3>2. <<Separator>> \in Seq(Bytes)
      BY DEF Separator, Bytes
    <3>3. W[i] \o <<Separator>> \in Seq(Bytes)
      BY <2>4, <3>2, ConcatProperties
    <3>4. W[i] \o <<Separator>> \o key \in Seq(Bytes)
      BY <2>3, <3>3, ConcatProperties
    <3>5. Parts(W[i + 1]) = R
      <4> HIDE DEF key, value
      <4>1. Parts(W[i] \o <<Separator>> \o key) = Q
        BY <2>2, <2>4, NextPart
      <4>2. Parts(W[i] \o <<Separator>> \o key \o <<Separator>> \o value) = Append(Q, value)
        BY <2>2, <3>4, <4>1, NextPart
      <4> QED
        BY <3>1, <4>2
    <3>6. Listed(P, i, h, order)
      BY <1>4, <2>6
    <3>7. /\ P \in Seq(Seq(Bytes)) /\ Len(P) = 2 * i
          /\ \A j \in 1 .. i : P[2 * j - 1] = order[j] /\ P[2 * j] = h[order[j]]
      BY <3>6 DEF Listed
    <3> HIDE DEF P, key, value
    <3>8. /\ Q \in Seq(Seq(Bytes)) /\ Len(Q) = 2 * i + 1 /\ Q[2 * i + 1] = key
          /\ \A k \in 1 .. 2 * i : Q[k] = P[k]
      BY <2>3, <3>7, AppendProperties
    <3> HIDE DEF Q
    <3>9. /\ R \in Seq(Seq(Bytes)) /\ Len(R) = 2 * i + 2 /\ R[2 * i + 2] = value
          /\ \A k \in 1 .. 2 * i + 1 : R[k] = Q[k]
      <4>1. Len(Q) + 1 = 2 * i + 2
        BY <2>1, <3>8
      <4>2. /\ R \in Seq(Seq(Bytes)) /\ Len(R) = Len(Q) + 1 /\ R[Len(Q) + 1] = value
            /\ \A k \in 1 .. Len(Q) : R[k] = Q[k]
        BY <2>3, <3>8, AppendProperties
      <4> HIDE DEF R
      <4> QED
        BY <3>8, <4>1, <4>2
    <3> HIDE DEF R
    <3>10. ASSUME NEW j \in 1 .. i + 1
           PROVE  R[2 * j - 1] = order[j] /\ R[2 * j] = h[order[j]]
      <4>1. CASE j = i + 1
        <5>1. 2 * j - 1 = 2 * i + 1 /\ 2 * j = 2 * i + 2 /\ 2 * i + 1 \in 1 .. 2 * i + 1
          BY <2>1, <4>1
        <5> QED
          BY <3>8, <3>9, <4>1, <5>1 DEF key, value
      <4>2. CASE j # i + 1
        <5>1. /\ j \in 1 .. i /\ 2 * j - 1 \in 1 .. 2 * i /\ 2 * j \in 1 .. 2 * i
              /\ 2 * j - 1 \in 1 .. 2 * i + 1 /\ 2 * j \in 1 .. 2 * i + 1
          BY <2>1, <4>2
        <5> QED
          BY <3>7, <3>8, <3>9, <5>1
      <4> QED
        BY <4>1, <4>2
    <3>11. Len(R) = 2 * (i + 1)
      BY <2>1, <3>9
    <3>12. Listed(Parts(W[i + 1]), i + 1, h, order)
      BY <3>5, <3>9, <3>10, <3>11 DEF Listed
    <3> QED
      BY <1>1, <2>1, <3>12
  <2> QED
    BY <2>5, <2>6
<1> HIDE DEF S
<1>5. 0 .. n \subseteq S
  BY <1>1, <1>3, <1>4, UpTo
<1>6. n \in S /\ n # 0
  BY <1>1, <1>5
<1> QED
  BY <1>6 DEF S, W

-----------------------------------------------------------------------------
(* Padding and reading                                                      *)

\* One of three consecutive lengths is a whole number of groups of three bytes.
LEMMA Fitting ==
    ASSUME NEW m \in Nat
    PROVE  \E k \in 0 .. 2 : ((m + k) * 8) % 6 = 0
<1> DEFINE q == m \div 3
<1>1. q \in Int
  OBVIOUS
<1>2. m = 3 * q \/ m = 3 * q + 1 \/ m = 3 * q + 2
  OBVIOUS
<1> HIDE DEF q
<1>3. ASSUME NEW x \in Int PROVE (6 * x) % 6 = 0
  OBVIOUS
<1>4. CASE m = 3 * q
  <2>1. (m + 0) * 8 = 6 * (4 * q) /\ 4 * q \in Int
    BY <1>1, <1>4
  <2>2. ((m + 0) * 8) % 6 = 0
    BY <1>3, <2>1
  <2> QED
    BY <2>2
<1>5. CASE m = 3 * q + 1
  <2>1. (m + 2) * 8 = 6 * (4 * q + 4) /\ 4 * q + 4 \in Int
    BY <1>1, <1>5
  <2>2. ((m + 2) * 8) % 6 = 0
    BY <1>3, <2>1
  <2> QED
    BY <2>2
<1>6. CASE m = 3 * q + 2
  <2>1. (m + 1) * 8 = 6 * (4 * q + 4) /\ 4 * q + 4 \in Int
    BY <1>1, <1>6
  <2>2. ((m + 1) * 8) % 6 = 0
    BY <1>3, <2>1
  <2> QED
    BY <2>2
<1> QED
  BY <1>2, <1>4, <1>5, <1>6

\* Three bytes are four characters of base64: at most two bytes are missing.
LEMMA PaddedBy ==
    ASSUME NEW s \in Seq(Bytes)
    PROVE  \/ Padded(s) = s
           \/ Padded(s) = s \o <<Separator>>
           \/ Padded(s) = s \o <<Separator>> \o <<Separator>>
<1> DEFINE Fits(k) == ((Len(s) + k) * 8) % 6 = 0
           n == CHOOSE k \in 0 .. 2 : Fits(k)
           pad == [i \in 1 .. n |-> Separator]
<1>1. \E k \in 0 .. 2 : Fits(k)
  <2>1. Len(s) \in Nat
    OBVIOUS
  <2> QED
    BY <2>1, Fitting
<1> HIDE DEF Fits
<1>2. n \in 0 .. 2
  BY <1>1
<1>3. Padded(s) = s \o pad
  BY DEF Padded, Fits
<1> HIDE DEF n
<1>4. <<Separator>> \in Seq(Bytes)
  BY DEF Separator, Bytes
<1>5. CASE n = 0
  <2>1. pad = << >>
    BY <1>5
  <2> QED
    BY <1>3, <2>1, ConcatEmptySeq
<1>6. CASE n = 1
  <2>1. pad = <<Separator>>
    BY <1>6
  <2> QED
    BY <1>3, <2>1
<1>7. CASE n = 2
  <2>1. pad = <<Separator, Separator>>
    BY <1>7
  <2>2. <<Separator>> \o <<Separator>> = <<Separator, Separator>>
    <3> DEFINE z == <<Separator>>
               w == <<Separator, Separator>>
    <3>1. z \in Seq(Bytes) /\ Len(z) = 1 /\ z[1] = Separator
      BY <1>4
    <3>2. Separator \in Bytes
      BY DEF Separator, Bytes
    <3>3. w \in Seq(Bytes) /\ Len(w) = 2 /\ w[1] = Separator /\ w[2] = Separator
      BY <3>2
    <3> HIDE DEF z, w
    <3>4. z \o z \in Seq(Bytes) /\ Len(z \o z) = 2 /\ (z \o z)[1] = Separator /\ (z \o z)[2] = Separator
      BY <3>1, ConcatProperties
    <3>5. \A i \in 1 .. 2 : (z \o z)[i] = w[i]
      BY <3>3, <3>4
    <3>6. z \o z = w
      BY <3>3, <3>4, <3>5, SeqEqual
    <3> QED
      BY <3>6 DEF z, w
  <2>3. s \o <<Separator>> \o <<Separator>> = s \o (<<Separator>> \o <<Separator>>)
    <3> DEFINE z == <<Separator>>
    <3> HIDE DEF z
    <3>1. z \in Seq(Bytes)
      BY <1>4 DEF z
    <3>2. s \o z \o z = s \o (z \o z)
      BY <3>1, ConcatAssociative
    <3> QED
      BY <3>2 DEF z
  <2> QED
    BY <1>3, <2>1, <2>2, <2>3
<1> QED
  BY <1>2, <1>5, <1>6, <1>7

\* The n pairs of L, and after them an empty key at most.
Beyond(P, L, n) ==
    /\ Len(P) \in 2 * n .. 2 * n + 2
    /\ \A i \in 1 .. 2 * n : P[i] = L[i]
    /\ Len(P) = 2 * n + 2 => P[2 * n + 1] = << >>

\* The parts that padding leaves: those written, and an empty key at most.
LEMMA PaddedParts ==
    ASSUME NEW h, NEW order, NEW n \in Nat, NEW s \in Seq(Bytes), Listed(Parts(s), n, h, order)
    PROVE  Beyond(Parts(Padded(s)), Parts(s), n)
<1> DEFINE L == Parts(s)
           Q == Append(L, << >>)
           R == Append(Q, << >>)
<1>1. L \in Seq(Seq(Bytes)) /\ Len(L) = 2 * n /\ << >> \in Seq(Bytes)
  BY DEF Listed
<1>2. <<Separator>> \in Seq(Bytes)
  BY DEF Separator, Bytes
<1>3. s \o <<Separator>> \in Seq(Bytes)
  BY <1>2, ConcatProperties
<1>4. Parts(s \o <<Separator>>) = Q /\ Parts(s \o <<Separator>> \o <<Separator>>) = R
  BY <1>3, PartsSeparator
<1>5. Parts(Padded(s)) \in {L, Q, R}
  BY <1>4, PaddedBy
<1> HIDE DEF L
<1>6. /\ Q \in Seq(Seq(Bytes)) /\ Len(Q) = Len(L) + 1 /\ Q[Len(L) + 1] = << >>
      /\ \A i \in 1 .. Len(L) : Q[i] = L[i]
  BY <1>1, AppendProperties
<1> HIDE DEF Q
<1>7. Len(R) = Len(Q) + 1 /\ \A i \in 1 .. Len(Q) : R[i] = Q[i]
  <2>1. Q \in Seq(Seq(Bytes)) /\ << >> \in Seq(Bytes)
    BY <1>1, <1>6
  <2> QED
    BY <2>1, AppendProperties
<1> HIDE DEF R
<1>8. Len(Q) = 2 * n + 1 /\ Len(R) = 2 * n + 2 /\ R[2 * n + 1] = << >>
  BY <1>1, <1>6, <1>7
<1>9. \A i \in 1 .. 2 * n : Q[i] = L[i] /\ R[i] = L[i]
  <2>1. \A i \in 1 .. 2 * n : i \in 1 .. Len(L) /\ i \in 1 .. Len(Q)
    BY <1>1, <1>8
  <2> QED
    BY <1>6, <1>7, <2>1
<1>10. ASSUME NEW P \in {L, Q, R}
       PROVE  Beyond(P, L, n)
  BY <1>1, <1>8, <1>9, <1>10 DEF Beyond
<1> QED
  BY <1>5, <1>10 DEF L

\* A pair is two parts.
LEMMA Halves ==
    ASSUME NEW n \in Nat
    PROVE  (2 * n) \div 2 = n /\ (2 * n + 1) \div 2 = n /\ (2 * n + 2) \div 2 = n + 1
  OBVIOUS

\* The first n entries as a map.
Entries(h, order, n) == [k \in {order[i] : i \in 1 .. n} |-> h[k]]

\* Reading stops where the entries end, so it finds each of them once.
LEMMA DecodeParts ==
    ASSUME NEW h, NEW order, NEW n \in Nat, NEW s, NEW b,
           Listed(b, n, h, order),
           \A i \in 1 .. n : order[i] # << >>,
           \A i, j \in 1 .. n : order[i] = order[j] => i = j,
           Beyond(Parts(s), b, n)
    PROVE  decode(s) = Entries(h, order, n)
<1> DEFINE parts == Parts(s)
           key(i) == parts[2 * i - 1]
           read == {i \in 1 .. (Len(parts) \div 2) : \A j \in 1 .. i : key(j) # << >>}
<1>0. /\ Len(parts) \in 2 * n .. 2 * n + 2
      /\ \A i \in 1 .. 2 * n : parts[i] = b[i]
      /\ Len(parts) = 2 * n + 2 => parts[2 * n + 1] = << >>
  BY DEF Beyond
<1>1. ASSUME NEW i \in 1 .. n PROVE key(i) = order[i] /\ parts[2 * i] = h[order[i]]
  <2>1. 2 * i - 1 \in 1 .. 2 * n /\ 2 * i \in 1 .. 2 * n
    OBVIOUS
  <2>2. parts[2 * i - 1] = b[2 * i - 1] /\ parts[2 * i] = b[2 * i]
    BY <1>0, <2>1
  <2> QED
    BY <2>2 DEF Listed
<1>2. read = 1 .. n
  <2> DEFINE m == Len(parts) \div 2
  <2>1. m \in {n, n + 1} /\ (m = n + 1 => Len(parts) = 2 * n + 2)
    <3> HIDE DEF parts
    <3>1. Len(parts) = 2 * n \/ Len(parts) = 2 * n + 1 \/ Len(parts) = 2 * n + 2
      BY <1>0
    <3>2. (m = n /\ Len(parts) # 2 * n + 2) \/ (m = n + 1 /\ Len(parts) = 2 * n + 2)
      BY <3>1, Halves
    <3> QED
      BY <3>2
  <2>2. ASSUME m = n + 1 PROVE key(n + 1) = << >>
    <3>1. 2 * (n + 1) - 1 = 2 * n + 1
      OBVIOUS
    <3> QED
      BY <1>0, <2>1, <2>2, <3>1
  <2> HIDE DEF m, parts
  <2>3. ASSUME NEW i \in 1 .. n PROVE i \in 1 .. m /\ \A j \in 1 .. i : key(j) # << >>
    <3>1. i \in 1 .. m
      BY <2>1
    <3>2. ASSUME NEW j \in 1 .. i PROVE key(j) # << >>
      <4>1. j \in 1 .. n
        OBVIOUS
      <4>2. key(j) = order[j]
        BY <1>1, <4>1
      <4> QED
        BY <4>1, <4>2
    <3> QED
      BY <3>1, <3>2
  <2>4. ASSUME NEW i \in 1 .. m, \A j \in 1 .. i : key(j) # << >> PROVE i \in 1 .. n
    <3>1. CASE i = n + 1
      <4>1. m = n + 1 /\ n + 1 \in 1 .. i
        BY <2>1, <3>1
      <4> QED
        BY <2>2, <2>4, <4>1
    <3> QED
      BY <2>1, <3>1
  <2> QED
    BY <2>3, <2>4 DEF m
<1>3. decode(s) = [k \in {key(i) : i \in read} |-> parts[2 * Max({i \in read : key(i) = k})]]
  BY DEF decode
<1> HIDE DEF read, parts
<1>4. {key(i) : i \in read} = {order[i] : i \in 1 .. n}
  <2>1. \A i \in read : key(i) = order[i] /\ i \in 1 .. n
    BY <1>1, <1>2
  <2>2. \A i \in 1 .. n : i \in read
    BY <1>2
  <2>3. ASSUME NEW x \in {key(i) : i \in read} PROVE x \in {order[i] : i \in 1 .. n}
    <3>1. PICK i \in read : x = key(i)
      OBVIOUS
    <3>2. x = order[i] /\ i \in 1 .. n
      BY <2>1, <3>1
    <3> QED
      BY <3>2
  <2>4. ASSUME NEW x \in {order[i] : i \in 1 .. n} PROVE x \in {key(i) : i \in read}
    <3>1. PICK i \in 1 .. n : x = order[i]
      OBVIOUS
    <3>2. x = key(i) /\ i \in read
      BY <2>1, <2>2, <3>1
    <3> QED
      BY <3>2
  <2> QED
    BY <2>3, <2>4
<1>5. ASSUME NEW k \in {order[i] : i \in 1 .. n}
      PROVE  parts[2 * Max({i \in read : key(i) = k})] = h[k]
  <2>1. PICK i \in 1 .. n : order[i] = k
    OBVIOUS
  <2>2. {j \in read : key(j) = k} = {i}
    BY <1>1, <1>2, <2>1
  <2>3. Max({i}) = i
    BY <2>1 DEF Max
  <2> QED
    BY <1>1, <2>1, <2>2, <2>3
<1> QED
  BY <1>3, <1>4, <1>5 DEF Entries

-----------------------------------------------------------------------------
(* The session                                                              *)

\* A map without keys is the empty one.
LEMMA NoKeys ==
    ASSUME NEW X, NEW h \in [{} -> X]
    PROVE  h = << >>
<1>1. 1 .. 0 = {}
  OBVIOUS
<1>2. h \in Seq(X) /\ Len(h) = 0
  BY <1>1
<1> QED
  BY <1>2

\* No cookie is an empty session.
LEMMA DecodeNothing == decode(<< >>) = << >>
<1> DEFINE parts == Parts(<< >>)
           key(i) == parts[2 * i - 1]
           read == {i \in 1 .. (Len(parts) \div 2) : \A j \in 1 .. i : key(j) # << >>}
           value(k) == parts[2 * Max({i \in read : key(i) = k})]
<1>1. << >> \in Seq(Bytes) /\ Len(<< >>) = 0
  OBVIOUS
<1>2. parts = << << >> >>
  BY <1>1, SplitDef DEF Parts
<1>3. Len(parts) \div 2 = 0
  BY <1>2
<1>4. decode(<< >>) = [k \in {key(i) : i \in read} |-> value(k)]
  BY DEF decode
<1> HIDE DEF parts, value
<1>5. {key(i) : i \in read} = {}
  BY <1>3
<1> HIDE DEF read
<1>6. decode(<< >>) = [k \in {} |-> value(k)]
  BY <1>4, <1>5
<1>7. decode(<< >>) \in [{} -> {}]
  BY <1>6
<1> QED
  BY <1>7, NoKeys

\* An order of the keys has each of them once.
LEMMA Ordered ==
    ASSUME NEW D, IsFiniteSet(D), NEW order \in SetToSeqs(D)
    PROVE  /\ order \in Seq(D) /\ Len(order) = Cardinality(D)
           /\ \A i, j \in 1 .. Len(order) : order[i] = order[j] => i = j
           /\ {order[i] : i \in 1 .. Len(order)} = D
<1> DEFINE n == Cardinality(D)
<1>1. n \in Nat
  BY FS_CardinalityType
<1>2. order \in [1 .. n -> D] /\ \A i, j \in 1 .. n : i # j => order[i] # order[j]
  BY DEF SetToSeqs
<1>3. order \in Injection(1 .. n, D)
  BY <1>2 DEF Injection, IsInjective
<1>4. Cardinality(1 .. n) = n
  BY <1>1, FS_Interval
<1>5. order \in Surjection(1 .. n, D)
  BY <1>3, <1>4, FS_Injection
<1> HIDE DEF n
<1>6. \A d \in D : \E i \in 1 .. n : order[i] = d
  BY <1>5 DEF Surjection
<1>7. order \in Seq(D) /\ Len(order) = n
  BY <1>1, <1>2
<1>8. {order[i] : i \in 1 .. n} = D
  BY <1>2, <1>6
<1> QED
  BY <1>2, <1>7, <1>8 DEF n

\* Whatever the order they were written in, the entries are read back.
LEMMA DecodeEncode ==
    ASSUME NEW D, IsFiniteSet(D), D # {}, D \subseteq Text \ {<< >>},
           NEW h \in [D -> Text], NEW order \in SetToSeqs(D)
    PROVE  decode(encode(h, order)) = h
<1> DEFINE n == Len(order)
           s == Encoded(h, order)[n]
           b == Parts(s)
<1>1. /\ order \in Seq(D) /\ n = Cardinality(D)
      /\ \A i, j \in 1 .. n : order[i] = order[j] => i = j
      /\ {order[i] : i \in 1 .. n} = D
  BY Ordered
<1>2. n \in Nat /\ n > 0
  <2>1. Cardinality(D) \in Nat /\ Cardinality(D) # 0
    BY FS_CardinalityType, FS_EmptySet
  <2> QED
    BY <1>1, <2>1
<1>3. \A i \in 1 .. n : order[i] \in D
  BY <1>1
<1>4. InText(h, order)
  <2>1. order \in [1 .. n -> Text]
    BY <1>1, <1>3
  <2>2. order \in Seq(Text)
    BY <1>2, <2>1
  <2> QED
    BY <1>3, <2>2 DEF InText
<1>5. s \in Seq(Bytes)
  BY <1>2, <1>4, EncodedDef
<1>6. Listed(b, n, h, order)
  BY <1>2, <1>4, EncodedParts
<1>7. encode(h, order) = Padded(s)
  BY DEF encode
<1> HIDE DEF n, s
<1>8. Beyond(Parts(Padded(s)), b, n)
  BY <1>2, <1>5, <1>6, PaddedParts
<1> HIDE DEF b
<1>9. \A i \in 1 .. n : order[i] # << >>
  BY <1>3
<1>10. decode(Padded(s)) = Entries(h, order, n)
  <2>1. \A i, j \in 1 .. n : order[i] = order[j] => i = j
    BY <1>1
  <2> QED
    BY <1>2, <1>6, <1>8, <1>9, <2>1, DecodeParts
<1>11. Entries(h, order, n) = h
  BY <1>1 DEF Entries
<1> QED
  BY <1>7, <1>10, <1>11

\* The strings of the model are text.
LEMMA StringsText == Strings \subseteq Text
<1> SUFFICES ASSUME NEW s \in Strings PROVE s \in Text
  OBVIOUS
<1>1. PICK m \in 0 .. MaxString : s \in [1 .. m -> Chars]
  BY DEF Strings, SeqOf
<1>2. m \in Nat
  BY CodecAssumption
<1>3. s \in [1 .. m -> 0 .. 254]
  BY <1>1, CodecAssumption
<1> QED
  BY <1>2, <1>3 DEF Text

\* A session: finitely many keys, none of them empty.
Stored(h) == IsFiniteSet(DOMAIN h) /\ DOMAIN h \subseteq Keys /\ h \in [DOMAIN h -> Strings]

\* A stored session is sound, and the cookie still holds it.
CodecInv == Stored(data) /\ RoundTrip

\* A handler leaves a sound session.
LEMMA ChangedSound ==
    ASSUME NEW h, Stored(h), NEW c \in Changed(h)
    PROVE  Stored(c)
<1> DEFINE inserted(k, v) == [x \in DOMAIN h \cup {k} |-> IF x = k THEN v ELSE h[x]]
           removed(k) == [x \in DOMAIN h \ {k} |-> h[x]]
<1>1. ASSUME NEW k \in Keys, NEW v \in Strings PROVE Stored(inserted(k, v))
  <2>1. inserted(k, v) \in [DOMAIN h \cup {k} -> Strings]
    BY DEF Stored
  <2>2. IsFiniteSet(DOMAIN h \cup {k})
    BY FS_AddElement DEF Stored
  <2> QED
    BY <2>1, <2>2 DEF Stored
<1>2. ASSUME NEW k \in Keys PROVE Stored(removed(k))
  <2>1. removed(k) \in [DOMAIN h \ {k} -> Strings]
    BY DEF Stored
  <2>2. IsFiniteSet(DOMAIN h \ {k})
    BY FS_RemoveElement DEF Stored
  <2> QED
    BY <2>1, <2>2 DEF Stored
<1>3. Changed(h) = {inserted(k, v) : k \in Keys, v \in Strings} \cup {removed(k) : k \in Keys}
  BY DEF Changed
<1> HIDE DEF inserted, removed
<1>4. \/ \E k \in Keys, v \in Strings : c = inserted(k, v)
      \/ \E k \in Keys : c = removed(k)
  BY <1>3
<1> QED
  BY <1>1, <1>2, <1>4

\* Before the first response there is no session and no cookie.
LEMMA InitCodec == CodecInit => CodecInv
<1> SUFFICES ASSUME CodecInit PROVE CodecInv
  OBVIOUS
<1>1. data = << >> /\ bytes = << >>
  BY DEF CodecInit
<1>2. DOMAIN << >> = {} /\ << >> \in [{} -> Strings]
  OBVIOUS
<1>3. Stored(data)
  BY <1>1, <1>2, FS_EmptySet DEF Stored
<1> QED
  BY <1>1, <1>3, DecodeNothing DEF CodecInv, RoundTrip

\* A request writes a cookie that reads as the session it leaves.
LEMMA StoreCodec == CodecInv /\ [StoreSession]_codecVars => CodecInv'
<1> SUFFICES ASSUME CodecInv, [StoreSession]_codecVars PROVE CodecInv'
  OBVIOUS
<1>1. CASE StoreSession
  <2>1. PICK h \in Changed(decode(bytes)) :
          /\ data' = h
          /\ IF h = << >> THEN bytes' = << >>
             ELSE \E order \in SetToSeqs(DOMAIN h) : bytes' = encode(h, order)
    BY <1>1 DEF StoreSession
  <2>2. Stored(h)
    BY <2>1, ChangedSound DEF CodecInv, RoundTrip
  <2>3. CASE h = << >>
    <3>1. bytes' = << >> /\ data' = << >>
      BY <2>1, <2>3
    <3> QED
      BY <2>2, <2>3, <3>1, DecodeNothing DEF CodecInv, RoundTrip, Stored
  <2>4. CASE h # << >>
    <3>1. PICK order \in SetToSeqs(DOMAIN h) : bytes' = encode(h, order)
      BY <2>1, <2>4
    <3>2. DOMAIN h # {}
      BY <2>2, <2>4, NoKeys DEF Stored
    <3>3. DOMAIN h \subseteq Text \ {<< >>} /\ h \in [DOMAIN h -> Text] /\ IsFiniteSet(DOMAIN h)
      BY <2>2, StringsText DEF Stored, Keys
    <3>4. decode(encode(h, order)) = h
      BY <3>2, <3>3, DecodeEncode
    <3>5. data' = h
      BY <2>1
    <3> QED
      BY <2>2, <3>1, <3>4, <3>5 DEF CodecInv, RoundTrip, Stored
  <2> QED
    BY <2>3, <2>4
<1>2. CASE UNCHANGED codecVars
  BY <1>2 DEF codecVars, CodecInv, RoundTrip, Stored
<1> QED
  BY <1>1, <1>2

\* decode reads what encode wrote: whatever order the HashMap gives its entries in, with
\* empty values and whatever the padding, the next request has the session of the last.
THEOREM SessionsSurvive == CodecSpec => []RoundTrip
<1>1. CodecInv => RoundTrip
  BY DEF CodecInv
<1> QED
  BY InitCodec, StoreCodec, <1>1, PTL DEF CodecSpec
=============================================================================
