---------------------------- MODULE PipelineProofs ----------------------------
(***************************************************************************)
(* Proofs about Pipeline for any finite number of requests side by side, of *)
(* any kinds, and for any configuration of the block rules.  What the order *)
(* of the layers buys is stated per request: how deep a request has come    *)
(* bounds what it can have touched and tells which checks it has passed.    *)
(***************************************************************************)
EXTENDS Pipeline, SequenceTheorems, FiniteSetTheorems, TLAPS

LayerNames ==
    {"normalize_path", "cors", "update_metrics", "timeout", "security_headers", "request_id",
     "require_user_agent", "catch_panic", "request_format", "block_traffic",
     "session", "authenticate", "verify_origin", "require_auth", "csrf_protect", "rate_limit"}

\* How many layers a route is behind.
Height(route) ==
    IF route \in ProtectedRoutes THEN 16
    ELSE IF route \in LimitedRoutes THEN 14
    ELSE IF route \in AppRoutes THEN 13 ELSE 10

-----------------------------------------------------------------------------
(* The inductive invariant, of a request of kind k at depth d, with answer  *)
(* a and traces D.                                                          *)

\* The checks a request has behind it.
Passed(k, d) ==
    /\ d > 7  => RequireUserAgent(k) = "pass"
    /\ d > 10 => BlockTraffic(k) = "pass"
    /\ d > 13 => VerifyOrigin(k) = "pass"
    /\ d > 14 /\ k.route \in ProtectedRoutes => k.cred \in {"cookie", "bearer"}
    /\ d > 15 /\ k.route \in ProtectedRoutes => EnforceCsrf(k) = "pass"

\* What it may have touched.
Touched(k, d, D) ==
    /\ "session" \in D => d > 11
    /\ "users" \in D => d > 12
    /\ "limiter" \in D => d > Height(k.route) /\ Height(k.route) > 13
    /\ "handler" \notin D /\ "dirty" \notin D

Descending(k, d, a, D) ==
    d \in 1 .. Height(k.route) + 1 /\ a = NoAnswer /\ Passed(k, d) /\ Touched(k, d, D)

\* Who a protected handler runs for.
Guarded(k) ==
    /\ k.cred \in {"cookie", "bearer"}
    /\ k.agent = "plain" /\ k.ip \notin BlockedIps /\ k.route \notin BlockedRoutes
    /\ Unsafe(k) => k.origin # "foreign"
    /\ Unsafe(k) /\ k.cred = "cookie" =>
          "right" \in {k.header, k.form} /\ k.header \in {"none", "right"}

\* What an answer says about the way its request went.
Ascending(k, d, a, D) ==
    /\ d \in 0 .. Height(k.route) /\ a.by # "none"
    /\ a.by \in {"normalize_path", "cors", "require_user_agent", "block_traffic"} => D = {}
    /\ "limiter" \in D => a.by \in {"rate_limit", "handler", "catch_panic", "timeout"}
    /\ "session" \in D \/ "limiter" \in D \/ "cookie" \in a.added => k.route \in AppRoutes
    /\ a.by \in {"normalize_path", "cors"} => d <= 1
    /\ a.by \in {"normalize_path", "cors", "timeout"} => d <= 3 /\ "id" \notin a.added
    /\ a.by \notin {"normalize_path", "cors", "timeout"} => d >= 6 \/ "id" \in a.added
    /\ "handler" \in D /\ k.route \in ProtectedRoutes => Guarded(k)
    /\ IsAppError(k, a.by, a.status) /\ a.by # "normalize_path" => a.format = k.format

RequestSound(k, p, d, a, D) ==
    /\ p = "unsent" => d = 1
    /\ p \in {"unsent", "down", "gone"} => Descending(k, d, a, D)
    /\ p \in {"up", "sending", "answered"} => Ascending(k, d, a, D)
    /\ p \in {"sending", "answered"} => d = 0

\* update_metrics is running the request, or was when its client hung up.
Inside(p, d) == (p \in {"down", "gone"} /\ d > 3) \/ (p = "up" /\ d >= 3)

\* update_metrics has counted its response.
Counted(p, d, a) == p \in {"up", "sending", "answered"} /\ d < 3 /\ a.by \notin {"normalize_path", "cors"}

Answers ==
    [status : {"none", "200", "400", "401", "403", "404", "408", "429", "500", "501", "503"},
     by     : LayerNames \cup {"none", "handler"},
     format : {"none", "json", "html", "hx"},
     added  : SUBSET {"security", "id", "cookie", "cors"}]

Traces == {"session", "users", "limiter", "handler", "dirty"}

Types ==
    /\ server \in {"serving", "draining", "stopped"}
    /\ kind \in [Requests -> AllKinds] /\ \A r \in Requests : kind[r] \in Kinds[r]
    /\ phase \in [Requests -> {"unsent", "down", "up", "sending", "answered", "gone"}]
    /\ depth \in [Requests -> Nat]
    /\ answer \in [Requests -> Answers]
    /\ did \in [Requests -> SUBSET Traces]
    /\ tokens \in [Buckets -> 0 .. Burst]
    /\ metrics \in [total : Nat, in_flight : Nat, responses : Nat]

InsideSet == {r \in Requests : Inside(phase[r], depth[r])}
CountedSet == {r \in Requests : Counted(phase[r], depth[r], answer[r])}

CountsExact ==
    /\ metrics.in_flight = Cardinality(InsideSet)
    /\ metrics.responses = Cardinality(CountedSet)
    /\ metrics.total = metrics.in_flight + metrics.responses

PipelineInv ==
    /\ Types
    /\ \A r \in Requests : RequestSound(kind[r], phase[r], depth[r], answer[r], did[r])
    /\ CountsExact

-----------------------------------------------------------------------------
(* The stack                                                                *)

\* ConcatProperties with a name for the concatenation.
LEMMA Concat ==
    ASSUME NEW S, NEW s \in Seq(S), NEW t \in Seq(S), NEW u, u = s \o t
    PROVE  /\ u \in Seq(S) /\ Len(u) = Len(s) + Len(t)
           /\ \A i \in 1 .. Len(s) + Len(t) :
                u[i] = IF i <= Len(s) THEN s[i] ELSE t[i - Len(s)]
  BY ConcatProperties, Zenon

\* build_handler and apply_axum_middleware, outermost first.
LEMMA InfraShape ==
    /\ InfraLayers \in Seq(LayerNames) /\ Len(InfraLayers) = 10
    /\ InfraLayers[1] = "normalize_path" /\ InfraLayers[2] = "cors"
    /\ InfraLayers[3] = "update_metrics" /\ InfraLayers[4] = "timeout"
    /\ InfraLayers[5] = "security_headers" /\ InfraLayers[6] = "request_id"
    /\ InfraLayers[7] = "require_user_agent" /\ InfraLayers[8] = "catch_panic"
    /\ InfraLayers[9] = "request_format" /\ InfraLayers[10] = "block_traffic"
<1>1. InfraLayers \in Seq(LayerNames)
  BY DEF InfraLayers, LayerNames
<1> QED
  BY <1>1 DEF InfraLayers

\* With the layers of apply_app_middleware inside them.
LEMMA AppShape ==
    ASSUME NEW A, A = InfraLayers \o AppLayers
    PROVE  /\ A \in Seq(LayerNames) /\ Len(A) = 13
           /\ \A i \in 1 .. 10 : A[i] = InfraLayers[i]
           /\ A[11] = "session" /\ A[12] = "authenticate" /\ A[13] = "verify_origin"
<1>1. /\ AppLayers \in Seq(LayerNames) /\ Len(AppLayers) = 3
      /\ AppLayers[1] = "session" /\ AppLayers[2] = "authenticate" /\ AppLayers[3] = "verify_origin"
  BY DEF AppLayers, LayerNames
<1>2. InfraLayers \in Seq(LayerNames)
  BY InfraShape
<1>3. AppLayers \in Seq(LayerNames)
  BY <1>1
<1>4. /\ A \in Seq(LayerNames) /\ Len(A) = Len(InfraLayers) + Len(AppLayers)
      /\ \A i \in 1 .. Len(InfraLayers) + Len(AppLayers) :
           A[i] = IF i <= Len(InfraLayers) THEN InfraLayers[i] ELSE AppLayers[i - Len(InfraLayers)]
  BY <1>2, <1>3, Concat
<1>5. Len(A) = 13 /\ \A i \in 1 .. 13 : A[i] = IF i <= 10 THEN InfraLayers[i] ELSE AppLayers[i - 10]
  <2>1. Len(InfraLayers) = 10 /\ Len(AppLayers) = 3
    BY <1>1, InfraShape
  <2>2. Len(InfraLayers) + Len(AppLayers) = 13
    BY ONLY <2>1
  <2>3. Len(A) = 13 /\ \A i \in 1 .. 13 :
           A[i] = IF i <= Len(InfraLayers) THEN InfraLayers[i] ELSE AppLayers[i - Len(InfraLayers)]
    BY ONLY <1>4, <2>2
  <2> QED
    BY ONLY <2>1, <2>3
<1> QED
  BY <1>1, <1>4, <1>5

\* The layers of a route in their order.
LEMMA StackShape ==
    ASSUME NEW route
    PROVE  LET L == Stack(route) IN
           /\ L \in Seq(LayerNames) /\ Len(L) = Height(route)
           /\ \A i \in 1 .. 10 : L[i] = InfraLayers[i]
           /\ Height(route) > 10 =>
                L[11] = "session" /\ L[12] = "authenticate" /\ L[13] = "verify_origin"
           /\ Height(route) = 14 => L[14] = "rate_limit"
           /\ Height(route) = 16 =>
                L[14] = "require_auth" /\ L[15] = "csrf_protect" /\ L[16] = "rate_limit"
<1> DEFINE L == Stack(route)
           A == InfraLayers \o AppLayers
           G == GroupLayers(route)
<1>1. /\ A \in Seq(LayerNames) /\ Len(A) = 13
      /\ \A i \in 1 .. 10 : A[i] = InfraLayers[i]
      /\ A[11] = "session" /\ A[12] = "authenticate" /\ A[13] = "verify_origin"
  BY AppShape
<1>2. route \in AppRoutes => L = A \o G
  BY DEF Stack
<1> HIDE DEF A, G, L
<1>3. ASSUME route \in AppRoutes, G \in Seq(LayerNames)
      PROVE  /\ L \in Seq(LayerNames) /\ Len(L) = 13 + Len(G)
             /\ \A i \in 1 .. 13 + Len(G) : L[i] = IF i <= 13 THEN A[i] ELSE G[i - 13]
  <2>1. A \in Seq(LayerNames) /\ L = A \o G
    BY <1>1, <1>2, <1>3
  <2>2. /\ L \in Seq(LayerNames) /\ Len(L) = Len(A) + Len(G)
        /\ \A i \in 1 .. Len(A) + Len(G) : L[i] = IF i <= Len(A) THEN A[i] ELSE G[i - Len(A)]
    BY <1>3, <2>1, Concat
  <2> QED
    BY <1>1, <2>2
<1>4. CASE route \in ProtectedRoutes
  <2>1. G = <<"require_auth", "csrf_protect", "rate_limit">>
    BY <1>4 DEF G, GroupLayers, ProtectedRoutes, LimitedRoutes
  <2>2. /\ G \in Seq(LayerNames) /\ Len(G) = 3
        /\ G[1] = "require_auth" /\ G[2] = "csrf_protect" /\ G[3] = "rate_limit"
    BY <2>1 DEF LayerNames
  <2>3. route \in AppRoutes /\ Height(route) = 16
    BY <1>4 DEF AppRoutes, Height
  <2>4. /\ L \in Seq(LayerNames) /\ Len(L) = 16
        /\ \A i \in 1 .. 16 : L[i] = IF i <= 13 THEN A[i] ELSE G[i - 13]
    BY <1>3, <2>2, <2>3
  <2> QED
    BY <1>1, <2>2, <2>3, <2>4 DEF L
<1>5. CASE route \in LimitedRoutes
  <2>1. G = <<"rate_limit">>
    BY <1>5 DEF G, GroupLayers, ProtectedRoutes, LimitedRoutes
  <2>2. G \in Seq(LayerNames) /\ Len(G) = 1 /\ G[1] = "rate_limit"
    BY <2>1 DEF LayerNames
  <2>3. route \in AppRoutes /\ Height(route) = 14
    BY <1>5 DEF AppRoutes, Height, ProtectedRoutes, LimitedRoutes
  <2>4. /\ L \in Seq(LayerNames) /\ Len(L) = 14
        /\ \A i \in 1 .. 14 : L[i] = IF i <= 13 THEN A[i] ELSE G[i - 13]
    BY <1>3, <2>2, <2>3
  <2> QED
    BY <1>1, <2>2, <2>3, <2>4 DEF L
<1>6. CASE route \in AppRoutes \ (ProtectedRoutes \cup LimitedRoutes)
  <2>1. G = << >> /\ Height(route) = 13
    BY <1>6 DEF G, GroupLayers, Height
  <2>2. G \in Seq(LayerNames) /\ Len(G) = 0
    BY <2>1
  <2>3. /\ L \in Seq(LayerNames) /\ Len(L) = 13
        /\ \A i \in 1 .. 13 : L[i] = IF i <= 13 THEN A[i] ELSE G[i - 13]
    BY <1>3, <1>6, <2>2
  <2> QED
    BY <1>1, <2>1, <2>3 DEF L
<1>7. CASE route \notin AppRoutes
  <2>1. L = InfraLayers /\ Height(route) = 10
    BY <1>7 DEF L, Stack, Height, AppRoutes
  <2> QED
    BY <2>1, InfraShape DEF L
<1> QED
  BY <1>4, <1>5, <1>6, <1>7

\* A stack has one of four heights; only a protected or limited route has a rate_limit.
LEMMA Heights ==
    ASSUME NEW route
    PROVE  /\ Height(route) \in {10, 13, 14, 16}
           /\ Height(route) > 10 <=> route \in AppRoutes
           /\ Height(route) = 16 <=> route \in ProtectedRoutes
  BY DEF Height, AppRoutes, ProtectedRoutes, LimitedRoutes

\* Every layer is in a stack once, at the same index whatever the route, except rate_limit,
\* which is the innermost.
LEMMA LayerIndex ==
    ASSUME NEW route, NEW i \in 1 .. Height(route)
    PROVE  LET l == Stack(route)[i] IN
           /\ l \in LayerNames
           /\ l = "normalize_path" <=> i = 1
           /\ l = "cors" <=> i = 2
           /\ l = "update_metrics" <=> i = 3
           /\ l = "timeout" <=> i = 4
           /\ l = "security_headers" <=> i = 5
           /\ l = "request_id" <=> i = 6
           /\ l = "require_user_agent" <=> i = 7
           /\ l = "catch_panic" <=> i = 8
           /\ l = "request_format" <=> i = 9
           /\ l = "block_traffic" <=> i = 10
           /\ l = "session" <=> i = 11
           /\ l = "authenticate" <=> i = 12
           /\ l = "verify_origin" <=> i = 13
           /\ l = "require_auth" <=> i = 14 /\ Height(route) = 16
           /\ l = "csrf_protect" <=> i = 15
           /\ l = "rate_limit" <=> i = Height(route) /\ i > 13
<1> DEFINE l == Stack(route)[i]
           h == Height(route)
<1>1. h \in {10, 13, 14, 16} /\ i \in 1 .. h
  BY Heights
<1>2. CASE i <= 10
  <2>1. l = InfraLayers[i] /\ i \in 1 .. 10
    BY <1>1, <1>2, StackShape
  <2>2. i \in {1, 2, 3, 4, 5, 6, 7, 8, 9, 10}
    BY <2>1
  <2> HIDE DEF l, h
  <2>3. \/ i = 1 /\ l = "normalize_path"
        \/ i = 2 /\ l = "cors"
        \/ i = 3 /\ l = "update_metrics"
        \/ i = 4 /\ l = "timeout"
        \/ i = 5 /\ l = "security_headers"
        \/ i = 6 /\ l = "request_id"
        \/ i = 7 /\ l = "require_user_agent"
        \/ i = 8 /\ l = "catch_panic"
        \/ i = 9 /\ l = "request_format"
        \/ i = 10 /\ l = "block_traffic"
    <3>1. /\ InfraLayers[1] = "normalize_path" /\ InfraLayers[2] = "cors"
          /\ InfraLayers[3] = "update_metrics" /\ InfraLayers[4] = "timeout"
          /\ InfraLayers[5] = "security_headers" /\ InfraLayers[6] = "request_id"
          /\ InfraLayers[7] = "require_user_agent" /\ InfraLayers[8] = "catch_panic"
          /\ InfraLayers[9] = "request_format" /\ InfraLayers[10] = "block_traffic"
      BY InfraShape
    <3> QED
      BY ONLY <2>1, <2>2, <3>1
  <2> QED
    BY ONLY <2>3, <1>1 DEF LayerNames, l, h
<1>3. CASE i > 10
  <2>1. \/ i = 11 /\ l = "session"
        \/ i = 12 /\ l = "authenticate"
        \/ i = 13 /\ l = "verify_origin"
        \/ i = 14 /\ h = 14 /\ l = "rate_limit"
        \/ i = 14 /\ h = 16 /\ l = "require_auth"
        \/ i = 15 /\ h = 16 /\ l = "csrf_protect"
        \/ i = 16 /\ h = 16 /\ l = "rate_limit"
    <3>1. \/ i = 11 /\ h > 10
          \/ i = 12 /\ h > 10
          \/ i = 13 /\ h > 10
          \/ i = 14 /\ h = 14
          \/ i = 14 /\ h = 16
          \/ i = 15 /\ h = 16
          \/ i = 16 /\ h = 16
      <4> HIDE DEF h
      <4>1. i \in Int /\ i > 10 /\ i <= h
        BY <1>1, <1>3
      <4>2. h = 10 \/ h = 13 \/ h = 14 \/ h = 16
        BY <1>1
      <4> QED
        BY ONLY <4>1, <4>2
    <3>2. /\ h > 10 => /\ Stack(route)[11] = "session" /\ Stack(route)[12] = "authenticate"
                      /\ Stack(route)[13] = "verify_origin"
          /\ h = 14 => Stack(route)[14] = "rate_limit"
          /\ h = 16 => /\ Stack(route)[14] = "require_auth" /\ Stack(route)[15] = "csrf_protect"
                      /\ Stack(route)[16] = "rate_limit"
      BY StackShape
    <3> HIDE DEF h
    <3> QED
      BY <3>1, <3>2
  <2> HIDE DEF l, h
  <2> QED
    BY ONLY <2>1, <1>1 DEF LayerNames, l, h
<1> QED
  BY <1>1, <1>2, <1>3

\* IndexIn finds the layers TimeOut, Panic and InMetrics look for.
LEMMA LayerFound ==
    ASSUME NEW r
    PROVE  /\ IndexIn(r, "update_metrics") = 3
           /\ IndexIn(r, "timeout") = 4
           /\ IndexIn(r, "catch_panic") = 8
<1> DEFINE L == LayersOf(r)
           h == Height(kind[r].route)
<1>1. DOMAIN L = 1 .. h /\ h \in {10, 13, 14, 16}
  BY StackShape, Heights, LenProperties DEF LayersOf
<1>2. \A i \in 1 .. h : /\ L[i] = "update_metrics" <=> i = 3
                        /\ L[i] = "timeout" <=> i = 4
                        /\ L[i] = "catch_panic" <=> i = 8
  BY LayerIndex DEF LayersOf
<1> HIDE DEF L, h
<1>3. 3 \in DOMAIN L /\ 4 \in DOMAIN L /\ 8 \in DOMAIN L
  BY <1>1
<1> QED
  BY <1>1, <1>2, <1>3 DEF IndexIn, L

-----------------------------------------------------------------------------
(* What a step makes of one request                                         *)

\* A layer that answers is one of nine, and each of these answers with its own statuses.
LEMMA WhoAnswers ==
    ASSUME NEW l \in LayerNames, NEW k \in AllKinds, NEW s \in Verdicts(l, k) \ {"pass"}
    PROVE  /\ l \in {"normalize_path", "cors", "require_user_agent", "block_traffic",
                     "authenticate", "verify_origin", "require_auth", "csrf_protect", "rate_limit"}
           /\ s \in {"200", "400", "401", "403", "429", "500", "503"}
<1>1. /\ RequireUserAgent(k) \in {"pass", "403"} /\ BlockTraffic(k) \in {"pass", "403", "503"}
      /\ VerifyOrigin(k) \in {"pass", "400"} /\ EnforceCsrf(k) \in {"pass", "400"}
      /\ RateLimit(k) \subseteq {"pass", "429"}
  BY DEF RequireUserAgent, BlockTraffic, VerifyOrigin, EnforceCsrf, RateLimit
<1>2. /\ EnforceAuthentication(k) \subseteq {"pass", "401", "403"}
      /\ Authenticate(k) \subseteq {"pass", "401", "403", "500"}
  BY DEF EnforceAuthentication, Authenticate
<1> QED
  BY <1>1, <1>2 DEF Verdicts, LayerNames

\* A layer that lets a request through has checked what Passed says of the depth below.
LEMMA PassStep ==
    ASSUME NEW k \in AllKinds, NEW d \in 1 .. Height(k.route), Passed(k, d),
           "pass" \in Verdicts(Stack(k.route)[d], k)
    PROVE  Passed(k, d + 1)
<1> DEFINE l == Stack(k.route)[d]
           h == Height(k.route)
<1>1. /\ d \in Nat /\ (d = 7 => l = "require_user_agent") /\ (d = 10 => l = "block_traffic")
      /\ d = 13 => l = "verify_origin"
      /\ d = 14 /\ k.route \in ProtectedRoutes => l = "require_auth"
      /\ d = 15 => l = "csrf_protect"
  BY LayerIndex, Heights
<1>2. "pass" \in Verdicts(l, k)
  OBVIOUS
<1> HIDE DEF l
<1>3. /\ l = "require_user_agent" => RequireUserAgent(k) = "pass"
      /\ l = "block_traffic" => BlockTraffic(k) = "pass"
      /\ l = "verify_origin" => VerifyOrigin(k) = "pass"
      /\ l = "csrf_protect" => EnforceCsrf(k) = "pass"
  BY <1>2 DEF Verdicts
<1>4. l = "require_auth" => k.cred \in {"cookie", "bearer"}
  BY <1>2 DEF Verdicts, EnforceAuthentication
<1> QED
  BY <1>1, <1>3, <1>4 DEF Passed

\* What a layer touches.
LEMMA TouchedBy ==
    ASSUME NEW l \in LayerNames, NEW k \in AllKinds
    PROVE  /\ Touches(l, k) \subseteq {"session", "users", "limiter"}
           /\ "session" \in Touches(l, k) => l = "session"
           /\ "users" \in Touches(l, k) => l \in {"authenticate", "require_auth"}
           /\ "limiter" \in Touches(l, k) => l = "rate_limit"
           /\ l \in {"normalize_path", "cors", "require_user_agent", "block_traffic"} => Touches(l, k) = {}
  BY DEF Touches

\* A request that passes a layer is as sound one layer further in.
LEMMA EnterSound ==
    ASSUME NEW k \in AllKinds, NEW d \in 1 .. Height(k.route), NEW D \in SUBSET Traces,
           Descending(k, d, NoAnswer, D), "pass" \in Verdicts(Stack(k.route)[d], k)
    PROVE  Descending(k, d + 1, NoAnswer, D \cup Touches(Stack(k.route)[d], k))
<1> DEFINE l == Stack(k.route)[d]
           h == Height(k.route)
<1>1. d \in Nat /\ h \in Nat /\ d + 1 \in 1 .. h + 1
  BY Heights
<1>2. Passed(k, d + 1)
  BY PassStep DEF Descending
<1>3. /\ l \in LayerNames /\ (l = "session" => d = 11) /\ (l = "authenticate" => d = 12)
      /\ (l = "require_auth" => d = 14) /\ (l = "rate_limit" => d = h /\ d > 13)
  BY LayerIndex
<1>4. Touched(k, d, D)
  BY DEF Descending
<1> HIDE DEF l
<1>5. Touched(k, d + 1, D \cup Touches(l, k))
  BY <1>1, <1>3, <1>4, TouchedBy DEF Touched
<1> QED
  BY <1>1, <1>2, <1>5 DEF Descending, l

\* A request that a layer answers: what it touched, and how deep the answer starts.
LEMMA RefuseSound ==
    ASSUME NEW k \in AllKinds, NEW d \in 1 .. Height(k.route), NEW D \in SUBSET Traces,
           Descending(k, d, NoAnswer, D),
           NEW l, l = Stack(k.route)[d], NEW s \in Verdicts(l, k) \ {"pass"},
           NEW a, a.by = l, a.status = s, a.added = {},
           IsAppError(k, l, s) /\ l # "normalize_path" => a.format = k.format
    PROVE  Ascending(k, d - 1, a, D \cup Touches(l, k))
<1> DEFINE h == Height(k.route)
           T == Touches(l, k)
<1>1. d \in Nat /\ d > 0 /\ d <= h /\ h \in {10, 13, 14, 16} /\ (h > 10 <=> k.route \in AppRoutes)
  BY Heights
<1>2. /\ l \in LayerNames /\ (l = "normalize_path" <=> d = 1) /\ (l = "cors" <=> d = 2)
      /\ (l = "require_user_agent" => d = 7) /\ (l = "block_traffic" => d = 10)
      /\ (l = "session" => d = 11) /\ (l = "authenticate" => d = 12)
      /\ (l = "verify_origin" => d = 13) /\ (l = "require_auth" => d = 14)
      /\ (l = "csrf_protect" => d = 15) /\ (l = "rate_limit" <=> d = h /\ d > 13)
  BY LayerIndex
<1>3. l \in {"normalize_path", "cors", "require_user_agent", "block_traffic",
             "authenticate", "verify_origin", "require_auth", "csrf_protect", "rate_limit"}
  BY <1>2, WhoAnswers
<1>4. /\ "session" \in D => d > 11
      /\ "users" \in D => d > 12
      /\ "limiter" \notin D /\ "handler" \notin D /\ "dirty" \notin D
  BY <1>1 DEF Descending, Touched
<1>5. /\ T \subseteq {"session", "users", "limiter"}
      /\ "session" \in T => l = "session"
      /\ "limiter" \in T => l = "rate_limit"
      /\ l \in {"normalize_path", "cors", "require_user_agent", "block_traffic"} => T = {}
  BY <1>2, TouchedBy
<1> HIDE DEF T, h
<1>6. d - 1 \in 0 .. h /\ l # "none"
  BY <1>1, <1>3
<1>7. l \in {"normalize_path", "cors", "require_user_agent", "block_traffic"} => D \cup T = {}
  BY <1>1, <1>2, <1>4, <1>5 DEF Traces
<1>8. "limiter" \in D \cup T => l = "rate_limit"
  BY <1>4, <1>5
<1>9. "session" \in D \cup T \/ "limiter" \in D \cup T => k.route \in AppRoutes
  BY <1>1, <1>2, <1>4, <1>5
<1>10. /\ l \in {"normalize_path", "cors"} => d - 1 <= 1
       /\ l \in {"normalize_path", "cors", "timeout"} => d - 1 <= 3
       /\ l \notin {"normalize_path", "cors", "timeout"} => d - 1 >= 6
  BY <1>1, <1>2, <1>3
<1>11. "handler" \notin D \cup T
  BY <1>4, <1>5
<1> QED
  BY <1>6, <1>7, <1>8, <1>9, <1>10, <1>11 DEF Ascending, T, h

\* Every check stands between the outside and a protected handler.
LEMMA PassedIsGuarded ==
    ASSUME NEW k \in AllKinds, k.route \in ProtectedRoutes, Passed(k, Height(k.route) + 1)
    PROVE  Guarded(k)
<1>1. Height(k.route) = 16
  BY Heights
<1>2. /\ RequireUserAgent(k) = "pass" /\ BlockTraffic(k) = "pass" /\ VerifyOrigin(k) = "pass"
      /\ k.cred \in {"cookie", "bearer"} /\ EnforceCsrf(k) = "pass"
  BY <1>1 DEF Passed
<1>3. k.agent \in {"none", "plain", "blocked"} /\ k.route \notin Downloads
  BY DEF AllKinds, ProtectedRoutes, Downloads
<1>4. k.agent # "blocked" /\ k.ip \notin BlockedIps /\ k.route \notin BlockedRoutes
  BY <1>2 DEF BlockTraffic
<1>5. k.agent = "plain"
  BY <1>2, <1>3, <1>4 DEF RequireUserAgent
<1>6. Unsafe(k) => k.origin # "foreign"
  BY <1>2 DEF VerifyOrigin
<1>7. Unsafe(k) /\ k.cred = "cookie" => ProvidedToken(k) = "right"
  BY <1>2 DEF EnforceCsrf, HasCookie
<1>8. ProvidedToken(k) = "right" => "right" \in {k.header, k.form} /\ k.header \in {"none", "right"}
  BY DEF ProvidedToken
<1> QED
  BY <1>2, <1>4, <1>5, <1>6, <1>7, <1>8 DEF Guarded

\* The handler answers, or catch_panic for it.
LEMMA HandlerSound ==
    ASSUME NEW k \in AllKinds, NEW D \in SUBSET Traces, NEW d \in 7 .. Height(k.route),
           Descending(k, Height(k.route) + 1, NoAnswer, D),
           NEW F, "session" \in F => "session" \in D, "limiter" \in F => "limiter" \in D,
           NEW a, a.by \in {"handler", "catch_panic"}, a.added = {},
           IsAppError(k, a.by, a.status) => a.format = k.format
    PROVE  Ascending(k, d, a, F)
<1>1. d >= 6 /\ d \in 0 .. Height(k.route) /\ Height(k.route) \in {10, 13, 14, 16}
  BY Heights
<1>2. "session" \in F \/ "limiter" \in F => k.route \in AppRoutes
  BY <1>1, Heights DEF Descending, Touched
<1>3. k.route \in ProtectedRoutes => Guarded(k)
  BY PassedIsGuarded DEF Descending
<1> QED
  BY <1>1, <1>2, <1>3 DEF Ascending

\* The timer answers for whatever was inside it.
LEMMA TimeOutSound ==
    ASSUME NEW k \in AllKinds, NEW D \in SUBSET Traces, NEW d, Descending(k, d, NoAnswer, D),
           NEW a, a.by = "timeout", a.status = "408", a.added = {}
    PROVE  Ascending(k, 3, a, D)
<1>1. 3 \in 0 .. Height(k.route) /\ Height(k.route) \in {10, 13, 14, 16}
  BY Heights
<1>2. "session" \in D \/ "limiter" \in D => k.route \in AppRoutes
  BY <1>1, Heights DEF Descending, Touched
<1>3. ~IsAppError(k, "timeout", "408") /\ "handler" \notin D
  BY DEF IsAppError, Descending, Touched
<1> QED
  BY <1>1, <1>2, <1>3 DEF Ascending

\* What a layer adds to an answer.
LEMMA AddedBy ==
    ASSUME NEW l, NEW r
    PROVE  /\ Adds(l, r) \subseteq {"security", "id", "cookie", "cors"}
           /\ "id" \in Adds(l, r) <=> l = "request_id"
           /\ "cookie" \in Adds(l, r) => l = "session"
  BY DEF Adds

\* An answer that passes a layer.
LEMMA LeaveSound ==
    ASSUME NEW k \in AllKinds, NEW d \in Nat \ {0}, NEW D, NEW a, Ascending(k, d, a, D),
           NEW r, NEW b, b.by = a.by, b.status = a.status, b.format = a.format,
           b.added = a.added \cup Adds(Stack(k.route)[d], r)
    PROVE  Ascending(k, d - 1, b, D)
<1> DEFINE l == Stack(k.route)[d]
           X == Adds(l, r)
           h == Height(k.route)
<1>1. h \in {10, 13, 14, 16} /\ (h > 10 <=> k.route \in AppRoutes) /\ d \in 1 .. h
  BY Heights DEF Ascending
<1>2. (l = "request_id" <=> d = 6) /\ (l = "session" <=> d = 11)
  BY <1>1, LayerIndex
<1> HIDE DEF l
<1>3. ("id" \in X <=> d = 6) /\ ("cookie" \in X => d = 11)
  BY <1>2, AddedBy
<1>4. b.added = a.added \cup X
  BY DEF l
<1> HIDE DEF X, h
<1>5. d - 1 \in 0 .. h
  BY <1>1
<1>6. /\ "cookie" \in b.added => k.route \in AppRoutes
      /\ b.by \in {"normalize_path", "cors", "timeout"} => d - 1 <= 3 /\ "id" \notin b.added
      /\ b.by \notin {"normalize_path", "cors", "timeout"} => d - 1 >= 6 \/ "id" \in b.added
      /\ b.by \in {"normalize_path", "cors"} => d - 1 <= 1
  BY <1>1, <1>3, <1>4 DEF Ascending
<1> QED
  BY <1>5, <1>6 DEF Ascending, h

-----------------------------------------------------------------------------
(* The counters of update_metrics                                           *)

\* The sets that the counters count are finite.
LEMMA CountedFinite ==
    /\ IsFiniteSet(InsideSet) /\ IsFiniteSet(CountedSet)
    /\ Cardinality(InsideSet) \in Nat /\ Cardinality(CountedSet) \in Nat
<1>1. InsideSet \subseteq Requests /\ CountedSet \subseteq Requests
  BY DEF InsideSet, CountedSet
<1>2. IsFiniteSet(InsideSet) /\ IsFiniteSet(CountedSet)
  BY <1>1, PipelineAssumption, FS_Subset
<1> QED
  BY <1>2, FS_CardinalityType

\* And disjoint: no counter exceeds the number of requests.
LEMMA CountedBound ==
    ASSUME Types
    PROVE  /\ Cardinality(Requests) \in Nat
           /\ Cardinality(InsideSet) + Cardinality(CountedSet) <= Cardinality(Requests)
<1>1. IsFiniteSet(Requests)
  BY PipelineAssumption
<1>2. Cardinality(Requests) \in Nat
  BY <1>1, FS_CardinalityType
<1>3. InsideSet \cup CountedSet \subseteq Requests
  BY DEF InsideSet, CountedSet
<1>4. \A r \in Requests : ~(Inside(phase[r], depth[r]) /\ Counted(phase[r], depth[r], answer[r]))
  BY DEF Inside, Counted, Types
<1>5. InsideSet \cap CountedSet = {}
  BY <1>4 DEF InsideSet, CountedSet
<1>6. Cardinality(InsideSet \cap CountedSet) = 0
  BY <1>5, FS_EmptySet
<1>7. Cardinality(InsideSet \cup CountedSet) =
        Cardinality(InsideSet) + Cardinality(CountedSet) - Cardinality(InsideSet \cap CountedSet)
  BY CountedFinite, FS_Union
<1>8. Cardinality(InsideSet \cup CountedSet) <= Cardinality(Requests)
  BY <1>1, <1>3, FS_Subset
<1> QED
  BY <1>2, <1>6, <1>7, <1>8, CountedFinite

\* A step that moves no request across update_metrics.
LEMMA CountsStay ==
    ASSUME CountsExact, metrics' = metrics,
           \A q \in Requests : /\ Inside(phase'[q], depth'[q]) <=> Inside(phase[q], depth[q])
                               /\ Counted(phase'[q], depth'[q], answer'[q]) <=>
                                    Counted(phase[q], depth[q], answer[q])
    PROVE  CountsExact'
<1>1. InsideSet' = InsideSet /\ CountedSet' = CountedSet
  BY DEF InsideSet, CountedSet
<1> QED
  BY <1>1 DEF CountsExact

\* update_metrics runs the request: one more in flight.
LEMMA CountsUp ==
    ASSUME CountsExact, metrics \in [total : Nat, in_flight : Nat, responses : Nat],
           metrics' = CountRequest(metrics), NEW r \in Requests,
           ~Inside(phase[r], depth[r]), Inside(phase'[r], depth'[r]),
           \A q \in Requests \ {r} : Inside(phase'[q], depth'[q]) <=> Inside(phase[q], depth[q]),
           \A q \in Requests : Counted(phase'[q], depth'[q], answer'[q]) <=>
                                 Counted(phase[q], depth[q], answer[q])
    PROVE  CountsExact'
<1>1. InsideSet' = InsideSet \cup {r} /\ r \notin InsideSet /\ CountedSet' = CountedSet
  BY DEF InsideSet, CountedSet
<1>2. Cardinality(InsideSet') = Cardinality(InsideSet) + 1
  BY <1>1, CountedFinite, FS_AddElement
<1>3. /\ metrics'.total = metrics.total + 1 /\ metrics'.in_flight = metrics.in_flight + 1
      /\ metrics'.responses = metrics.responses
  BY DEF CountRequest
<1>4. metrics.total \in Nat /\ metrics.in_flight \in Nat /\ metrics.responses \in Nat
  OBVIOUS
<1> QED
  BY <1>1, <1>2, <1>3, <1>4 DEF CountsExact

\* update_metrics sees the response: one less in flight, one more response.
LEMMA CountsOver ==
    ASSUME CountsExact, metrics \in [total : Nat, in_flight : Nat, responses : Nat],
           NEW s, metrics' = CountResponse(metrics, s), NEW r \in Requests,
           Inside(phase[r], depth[r]), ~Inside(phase'[r], depth'[r]),
           ~Counted(phase[r], depth[r], answer[r]), Counted(phase'[r], depth'[r], answer'[r]),
           \A q \in Requests \ {r} : /\ Inside(phase'[q], depth'[q]) <=> Inside(phase[q], depth[q])
                                     /\ Counted(phase'[q], depth'[q], answer'[q]) <=>
                                          Counted(phase[q], depth[q], answer[q])
    PROVE  CountsExact' /\ metrics.in_flight > 0
<1>1. /\ InsideSet' = InsideSet \ {r} /\ r \in InsideSet
      /\ CountedSet' = CountedSet \cup {r} /\ r \notin CountedSet
  BY DEF InsideSet, CountedSet
<1>2. Cardinality(InsideSet') = Cardinality(InsideSet) - 1
  BY <1>1, CountedFinite, FS_RemoveElement
<1>3. Cardinality(CountedSet') = Cardinality(CountedSet) + 1
  BY <1>1, CountedFinite, FS_AddElement
<1>4. /\ metrics'.total = metrics.total /\ metrics'.in_flight = metrics.in_flight - 1
      /\ metrics'.responses = metrics.responses + 1
  BY DEF CountResponse
<1>5. metrics.total \in Nat /\ metrics.in_flight \in Nat /\ metrics.responses \in Nat
  OBVIOUS
<1>6. Cardinality(InsideSet) # 0
  BY <1>1, CountedFinite, FS_EmptySet
<1> QED
  BY <1>2, <1>3, <1>4, <1>5, <1>6, CountedFinite DEF CountsExact

-----------------------------------------------------------------------------
(* The steps                                                                *)

Sound(r) == RequestSound(kind[r], phase[r], depth[r], answer[r], did[r])

\* Nothing but request r moves.
OnlyMoves(r) ==
    \A q \in Requests \ {r} : /\ kind'[q] = kind[q] /\ phase'[q] = phase[q] /\ depth'[q] = depth[q]
                              /\ answer'[q] = answer[q] /\ did'[q] = did[q]

\* What is left to show of a step of request r that does not cross update_metrics.
LEMMA RequestMoves ==
    ASSUME PipelineInv, NEW r \in Requests, OnlyMoves(r), Types', Sound(r)', metrics' = metrics,
           Inside(phase'[r], depth'[r]) <=> Inside(phase[r], depth[r]),
           Counted(phase'[r], depth'[r], answer'[r]) <=> Counted(phase[r], depth[r], answer[r])
    PROVE  PipelineInv'
<1>1. \A q \in Requests : RequestSound(kind'[q], phase'[q], depth'[q], answer'[q], did'[q])
  BY DEF PipelineInv, OnlyMoves, Sound
<1>2. CountsExact'
  BY CountsStay DEF PipelineInv, OnlyMoves
<1> QED
  BY <1>1, <1>2 DEF PipelineInv

\* What the invariant says of one request and its stack.
LEMMA OfRequest ==
    ASSUME PipelineInv, NEW r \in Requests
    PROVE  /\ kind[r] \in AllKinds /\ kind[r] \in Kinds[r] /\ depth[r] \in Nat
           /\ phase[r] \in {"unsent", "down", "up", "sending", "answered", "gone"}
           /\ answer[r] \in Answers /\ did[r] \in SUBSET Traces /\ Sound(r)
           /\ Len(LayersOf(r)) = Height(kind[r].route)
           /\ LayerAt(r) = Stack(kind[r].route)[depth[r]]
           /\ Height(kind[r].route) \in {10, 13, 14, 16}
<1>1. Height(kind[r].route) \in {10, 13, 14, 16}
  BY Heights
<1>2. Len(LayersOf(r)) = Height(kind[r].route)
  BY StackShape DEF LayersOf
<1>3. Types /\ Sound(r)
  BY DEF PipelineInv, Sound
<1> QED
  BY <1>1, <1>2, <1>3 DEF Types, LayerAt, LayersOf

\* A request on its way down.
LEMMA OfDescent ==
    ASSUME PipelineInv, NEW r \in Requests, phase[r] \in {"unsent", "down"}
    PROVE  /\ answer[r] = NoAnswer
           /\ Descending(kind[r], depth[r], NoAnswer, did[r])
           /\ depth[r] \in 1 .. Height(kind[r].route) + 1
           /\ AtHandler(r) <=> depth[r] = Height(kind[r].route) + 1
           /\ ~AtHandler(r) <=> depth[r] \in 1 .. Height(kind[r].route)
<1>1. /\ answer[r] = NoAnswer /\ Descending(kind[r], depth[r], NoAnswer, did[r])
      /\ depth[r] \in 1 .. Height(kind[r].route) + 1
  BY OfRequest DEF Sound, RequestSound, Descending
<1>2. AtHandler(r) <=> depth[r] > Height(kind[r].route)
  BY OfRequest DEF AtHandler
<1>3. Height(kind[r].route) \in Nat
  BY Heights
<1> QED
  BY <1>1, <1>2, <1>3

\* How far the layers that decide on timeouts and formats are.
LEMMA WithinDepth ==
    ASSUME PipelineInv, NEW r \in Requests, phase[r] = "down"
    PROVE  /\ Within(r, "timeout") <=> depth[r] > 4
           /\ Within(r, "request_format") <=> depth[r] > 9
<1> DEFINE L == LayersOf(r)
           h == Height(kind[r].route)
           d == depth[r]
<1>1. h \in {10, 13, 14, 16} /\ d \in 1 .. h + 1
  BY OfDescent, Heights
<1>2. \A i \in 1 .. h : (L[i] = "timeout" <=> i = 4) /\ (L[i] = "request_format" <=> i = 9)
  BY LayerIndex DEF LayersOf
<1>3. /\ Within(r, "timeout") <=> \E i \in 1 .. d - 1 : L[i] = "timeout"
      /\ Within(r, "request_format") <=> \E i \in 1 .. d - 1 : L[i] = "request_format"
  BY DEF Within
<1> HIDE DEF L, h, d
<1>4. d \in Nat /\ h \in Nat /\ d <= h + 1 /\ h >= 10
  BY <1>1
<1>5. ASSUME NEW i \in 1 .. d - 1 PROVE i \in 1 .. h
  BY <1>4
<1>6. d > 4 => 4 \in 1 .. d - 1
  BY <1>4
<1>7. d > 9 => 9 \in 1 .. d - 1
  BY <1>4
<1>8. 4 \in 1 .. h /\ 9 \in 1 .. h
  BY <1>4
<1>9. Within(r, "timeout") => d > 4
  BY <1>2, <1>3, <1>4, <1>5
<1>10. Within(r, "request_format") => d > 9
  BY <1>2, <1>3, <1>4, <1>5
<1>11. d > 4 => Within(r, "timeout")
  BY <1>2, <1>3, <1>6, <1>8
<1>12. d > 9 => Within(r, "request_format")
  BY <1>2, <1>3, <1>7, <1>8
<1> QED
  BY <1>9, <1>10, <1>11, <1>12 DEF d

\* Initially nothing is sent and nothing counted.
LEMMA InitInv == Init => PipelineInv
<1> SUFFICES ASSUME Init PROVE PipelineInv
  OBVIOUS
<1>1. \A r \in Requests : /\ kind[r] \in Kinds[r] /\ kind[r] \in AllKinds /\ phase[r] = "unsent"
                          /\ depth[r] = 1 /\ answer[r] = NoAnswer /\ did[r] = {}
  <2>1. \A r \in Requests : Kinds[r] \subseteq AllKinds /\ Kinds[r] # {}
    BY PipelineAssumption
  <2> QED
    BY <2>1 DEF Init
<1>2. Types
  <2>1. kind \in [Requests -> AllKinds]
    BY <1>1 DEF Init
  <2>2. NoAnswer \in Answers
    BY DEF NoAnswer, Answers
  <2>3. tokens \in [Buckets -> 0 .. Burst]
    BY PipelineAssumption DEF Init
  <2>4. metrics \in [total : Nat, in_flight : Nat, responses : Nat]
    BY DEF Init, NoMetrics
  <2> QED
    BY <1>1, <2>1, <2>2, <2>3, <2>4 DEF Init, Types
<1>3. ASSUME NEW r \in Requests
      PROVE  Sound(r)
  <2>1. Height(kind[r].route) \in {10, 13, 14, 16}
    BY Heights
  <2> QED
    BY <1>1, <2>1 DEF Sound, RequestSound, Descending, Passed, Touched
<1>4. InsideSet = {} /\ CountedSet = {}
  BY <1>1 DEF InsideSet, CountedSet, Inside, Counted
<1>5. CountsExact
  BY <1>4, FS_EmptySet DEF Init, NoMetrics, CountsExact
<1> QED
  BY <1>2, <1>3, <1>5 DEF PipelineInv, Sound

\* A request is accepted.
LEMMA SendInv ==
    ASSUME PipelineInv, NEW r \in Requests, Send(r)
    PROVE  PipelineInv'
<1>1. PICK k \in Kinds[r] : kind' = [kind EXCEPT ![r] = k]
  BY DEF Send
<1>2. k \in AllKinds
  BY PipelineAssumption
<1>3. Types
  BY DEF PipelineInv
<1>4. Types'
  BY <1>1, <1>2, <1>3 DEF Types, Send
<1>5. kind'[r] = k /\ phase'[r] = "down" /\ depth'[r] = depth[r] /\ answer'[r] = answer[r] /\ did'[r] = did[r]
  BY <1>1, <1>3 DEF Types, Send
<1>6. OnlyMoves(r)
  BY <1>1, <1>3 DEF Types, Send, OnlyMoves
<1>7. phase[r] = "unsent" /\ depth[r] = 1 /\ answer[r] = NoAnswer /\ Touched(kind[r], 1, did[r])
  BY OfRequest, OfDescent DEF Send, Sound, RequestSound, Descending
<1>8. Height(k.route) \in {10, 13, 14, 16} /\ Height(kind[r].route) \in {10, 13, 14, 16}
  BY Heights
<1>9. Descending(k, 1, NoAnswer, did[r])
  BY <1>7, <1>8 DEF Descending, Passed, Touched
<1>10. Sound(r)'
  BY <1>5, <1>7, <1>9 DEF Sound, RequestSound
<1>11. /\ Inside(phase'[r], depth'[r]) <=> Inside(phase[r], depth[r])
       /\ Counted(phase'[r], depth'[r], answer'[r]) <=> Counted(phase[r], depth[r], answer[r])
  BY <1>5, <1>7 DEF Inside, Counted
<1> QED
  BY <1>4, <1>6, <1>10, <1>11, RequestMoves DEF Send

\* The counters stay numbers.
LEMMA CountRequestType ==
    ASSUME NEW m \in [total : Nat, in_flight : Nat, responses : Nat]
    PROVE  CountRequest(m) \in [total : Nat, in_flight : Nat, responses : Nat]
<1>1. m.total + 1 \in Nat /\ m.in_flight + 1 \in Nat
  OBVIOUS
<1>2. ASSUME NEW t \in Nat, NEW f \in Nat
      PROVE  [m EXCEPT !.total = t, !.in_flight = f] \in [total : Nat, in_flight : Nat, responses : Nat]
  OBVIOUS
<1> QED
  BY <1>1, <1>2 DEF CountRequest

\* Every kind of request has a bucket.
LEMMA BucketExists ==
    ASSUME NEW k \in AllKinds
    PROVE  BucketOf(k) \in Buckets
<1>1. k.ip \in Ips
  BY DEF AllKinds
<1>2. LimitedAction(k) \in {"PublicApiRead", "OAuthAuthorize", "FormSubmission", "ApiRequest"}
  BY DEF LimitedAction
<1> QED
  BY <1>1, <1>2 DEF BucketOf, Buckets

\* A layer passes a request on.
LEMMA EnterInv ==
    ASSUME PipelineInv, NEW r \in Requests, Enter(r)
    PROVE  PipelineInv'
<1> DEFINE k == kind[r]
           d == depth[r]
           l == LayerAt(r)
           T == Touches(l, k)
<1>1. /\ phase[r] = "down" /\ answer[r] = NoAnswer /\ Descending(k, d, NoAnswer, did[r])
      /\ d \in 1 .. Height(k.route) /\ l = Stack(k.route)[d]
      /\ k \in AllKinds /\ did[r] \in SUBSET Traces /\ "pass" \in Verdicts(l, k)
  BY OfRequest, OfDescent DEF Enter
<1>2. Descending(k, d + 1, NoAnswer, did[r] \cup T)
  BY <1>1, EnterSound
<1>3. Types
  BY DEF PipelineInv
<1>4. /\ kind'[r] = k /\ phase'[r] = "down" /\ depth'[r] = d + 1 /\ answer'[r] = NoAnswer
      /\ did'[r] = did[r] \cup T
  BY <1>1, <1>3 DEF Types, Enter
<1>5. l \in LayerNames /\ (l = "update_metrics" <=> d = 3) /\ d \in Nat
  BY <1>1, LayerIndex
<1>6. T \subseteq Traces
  BY <1>1, <1>5, TouchedBy DEF Traces
<1>7. tokens' \in [Buckets -> 0 .. Burst]
  <2>1. CASE l = "rate_limit"
    <3>1. "pass" \in RateLimit(k)
      BY <1>1, <2>1 DEF Verdicts
    <3>2. tokens[BucketOf(k)] > 0 /\ BucketOf(k) \in Buckets
      BY <1>1, <3>1, BucketExists DEF RateLimit
    <3>3. tokens' = [tokens EXCEPT ![BucketOf(k)] = @ - 1]
      BY <2>1 DEF Enter
    <3>4. tokens[BucketOf(k)] - 1 \in 0 .. Burst
      BY <1>3, <3>2, PipelineAssumption DEF Types
    <3> QED
      BY <1>3, <3>3, <3>4 DEF Types
  <2>2. CASE l # "rate_limit"
    BY <1>3, <2>2 DEF Enter, Types
  <2> QED
    BY <2>1, <2>2
<1>8. metrics' \in [total : Nat, in_flight : Nat, responses : Nat]
  <2>1. CASE l = "update_metrics"
    <3>1. metrics' = CountRequest(metrics) /\ metrics \in [total : Nat, in_flight : Nat, responses : Nat]
      BY <1>3, <2>1 DEF Types, Enter
    <3> QED
      BY <3>1, CountRequestType
  <2>2. CASE l # "update_metrics"
    BY <1>3, <2>2 DEF Types, Enter
  <2> QED
    BY <2>1, <2>2
<1> HIDE DEF k, d, l, T
<1>9. Types'
  <2>1. depth' \in [Requests -> Nat]
    BY <1>3, <1>5 DEF Types, Enter, d
  <2>2. did' \in [Requests -> SUBSET Traces]
    BY <1>1, <1>3, <1>6 DEF Types, Enter, T, k, l
  <2> QED
    BY <1>3, <1>7, <1>8, <2>1, <2>2 DEF Types, Enter
<1>10. OnlyMoves(r)
  BY <1>3 DEF Types, Enter, OnlyMoves
<1>11. Sound(r)'
  BY <1>2, <1>4 DEF Sound, RequestSound
<1>12. CASE l = "update_metrics"
  <2>1. metrics' = CountRequest(metrics)
    BY <1>12 DEF Enter, l
  <2>2. ~Inside(phase[r], depth[r]) /\ Inside(phase'[r], depth'[r])
    BY <1>1, <1>4, <1>5, <1>12 DEF Inside, d
  <2>3. ~Counted(phase[r], depth[r], answer[r]) /\ ~Counted(phase'[r], depth'[r], answer'[r])
    BY <1>1, <1>4 DEF Counted
  <2>4. \A q \in Requests \ {r} : /\ Inside(phase'[q], depth'[q]) <=> Inside(phase[q], depth[q])
                                  /\ Counted(phase'[q], depth'[q], answer'[q]) <=>
                                       Counted(phase[q], depth[q], answer[q])
    BY <1>10 DEF OnlyMoves
  <2>5. CountsExact'
    BY <1>3, <2>1, <2>2, <2>3, <2>4, CountsUp DEF PipelineInv, Types
  <2>6. \A q \in Requests : RequestSound(kind'[q], phase'[q], depth'[q], answer'[q], did'[q])
    BY <1>10, <1>11 DEF PipelineInv, OnlyMoves, Sound
  <2> QED
    BY <1>9, <2>5, <2>6 DEF PipelineInv
<1>13. CASE l # "update_metrics"
  <2>1. metrics' = metrics
    BY <1>13 DEF Enter, l
  <2>2. Inside(phase'[r], depth'[r]) <=> Inside(phase[r], depth[r])
    BY <1>1, <1>4, <1>5, <1>13 DEF Inside, d
  <2>3. ~Counted(phase[r], depth[r], answer[r]) /\ ~Counted(phase'[r], depth'[r], answer'[r])
    BY <1>1, <1>4 DEF Counted
  <2> QED
    BY <1>9, <1>10, <1>11, <2>1, <2>2, <2>3, RequestMoves
<1> QED
  BY <1>12, <1>13

\* The answer that a layer makes.
AnswerOf(r, by, status) ==
    [status |-> status, by |-> by, format |-> ErrorFormat(r, by, status), added |-> {}]

\* What an answer made inside update_metrics, by any of the steps that make one, leaves to
\* show.
LEMMA AnswerInv ==
    ASSUME PipelineInv, NEW r \in Requests, phase[r] = "down", NEW at \in Nat \ {0},
           NEW by \in LayerNames \cup {"handler"},
           NEW status \in {"200", "400", "401", "403", "404", "408", "429", "500", "501", "503"},
           Answer(r, at, by, status), NEW D \in SUBSET Traces, did' = [did EXCEPT ![r] = D],
           server' = server, kind' = kind, tokens' = tokens, metrics' = metrics,
           depth[r] > 3 <=> at > 3,
           at <= 3 => by \in {"normalize_path", "cors"},
           Ascending(kind[r], at - 1, AnswerOf(r, by, status), D)
    PROVE  PipelineInv'
<1> DEFINE a == AnswerOf(r, by, status)
<1>1. Types
  BY DEF PipelineInv
<1>2. ErrorFormat(r, by, status) \in {"none", "json", "html", "hx"}
  BY OfRequest DEF ErrorFormat, RequestFormat, AllKinds
<1>3. a \in Answers
  BY <1>2 DEF Answers, AnswerOf
<1>4. answer' = [answer EXCEPT ![r] = a]
  BY DEF Answer, AnswerOf
<1>5. Ascending(kind[r], at - 1, a, D)
  OBVIOUS
<1>6. at - 1 \in Nat
  OBVIOUS
<1>7. a.by = by
  BY DEF AnswerOf
<1> HIDE DEF a
<1>8. /\ kind'[r] = kind[r] /\ phase'[r] = "up" /\ depth'[r] = at - 1 /\ answer'[r] = a
      /\ did'[r] = D
  BY <1>1, <1>4 DEF Types, Answer
<1>9. Types'
  <2>1. answer' \in [Requests -> Answers]
    BY <1>1, <1>3, <1>4 DEF Types
  <2>2. did' \in [Requests -> SUBSET Traces]
    BY <1>1 DEF Types
  <2>3. depth' \in [Requests -> Nat] /\ phase' \in [Requests -> {"unsent", "down", "up", "sending", "answered", "gone"}]
    BY <1>1, <1>6 DEF Types, Answer
  <2> QED
    BY <1>1, <2>1, <2>2, <2>3 DEF Types
<1>10. OnlyMoves(r)
  BY <1>1 DEF Types, Answer, OnlyMoves
<1>11. Sound(r)'
  BY <1>5, <1>8 DEF Sound, RequestSound
<1>12. depth[r] \in Nat
  BY OfRequest
<1>13. Inside(phase'[r], depth'[r]) <=> Inside(phase[r], depth[r])
  BY <1>8, <1>12 DEF Inside
<1>14. Counted(phase'[r], depth'[r], answer'[r]) <=> Counted(phase[r], depth[r], answer[r])
  BY <1>7, <1>8, <1>12 DEF Counted
<1> QED
  BY <1>9, <1>10, <1>11, <1>13, <1>14, RequestMoves

\* A layer answers instead of passing the request on.
LEMMA RefuseInv ==
    ASSUME PipelineInv, NEW r \in Requests, Refuse(r)
    PROVE  PipelineInv'
<1> DEFINE k == kind[r]
           d == depth[r]
           l == LayerAt(r)
           T == Touches(l, k)
<1>1. /\ phase[r] = "down" /\ Descending(k, d, NoAnswer, did[r])
      /\ d \in 1 .. Height(k.route) /\ l = Stack(k.route)[d]
      /\ k \in AllKinds /\ did[r] \in SUBSET Traces
  BY OfRequest, OfDescent DEF Refuse
<1>2. PICK s \in Verdicts(l, k) \ {"pass"} : Answer(r, d, l, s)
  BY DEF Refuse
<1>3. /\ l \in LayerNames /\ (l = "normalize_path" <=> d = 1) /\ (l = "cors" <=> d = 2)
      /\ (l = "update_metrics" <=> d = 3) /\ (l = "verify_origin" => d = 13)
      /\ (l = "require_auth" => d = 14) /\ (l = "csrf_protect" => d = 15)
      /\ (l = "rate_limit" => d > 13) /\ d \in Nat \ {0}
  BY <1>1, LayerIndex
<1>4. /\ l # "update_metrics" /\ l # "handler" /\ s \in {"200", "400", "401", "403", "429", "500", "503"}
  BY <1>1, <1>2, <1>3, WhoAnswers
<1>5. T \subseteq Traces
  BY <1>1, <1>3, TouchedBy DEF Traces
<1>6. Within(r, "request_format") <=> d > 9
  BY <1>1, WithinDepth
<1>7. IsAppError(k, l, s) /\ l # "normalize_path" => ErrorFormat(r, l, s) = k.format
  <2> SUFFICES ASSUME IsAppError(k, l, s), l # "normalize_path"
               PROVE  ErrorFormat(r, l, s) = k.format
    OBVIOUS
  <2>1. l \in {"verify_origin", "require_auth", "csrf_protect", "rate_limit"}
    BY <1>4 DEF IsAppError
  <2>2. d > 9
    BY <1>3, <2>1
  <2> QED
    BY <1>6, <2>2 DEF ErrorFormat, RequestFormat
<1> HIDE DEF k, d, l, T
<1> DEFINE a == AnswerOf(r, l, s)
           D == did[r] \cup T
<1>8. a.by = l /\ a.status = s /\ a.added = {} /\ a.format = ErrorFormat(r, l, s)
  BY DEF AnswerOf
<1> HIDE DEF a
<1>9. Ascending(kind[r], d - 1, a, D)
  BY <1>1, <1>2, <1>7, <1>8, RefuseSound DEF T, k
<1>10. d <= 3 => l \in {"normalize_path", "cors"}
  BY <1>3, <1>4
<1>11. D \in SUBSET Traces /\ Answer(r, d, l, s)
  BY <1>1, <1>2, <1>5
<1>12. /\ d \in Nat \ {0} /\ l \in LayerNames \cup {"handler"}
       /\ s \in {"200", "400", "401", "403", "404", "408", "429", "500", "501", "503"}
       /\ depth[r] > 3 <=> d > 3
  BY <1>3, <1>4 DEF d
<1>13. did' = [did EXCEPT ![r] = D] /\ phase[r] = "down"
  BY <1>1 DEF Refuse, T, k, l
<1>14. server' = server /\ kind' = kind /\ tokens' = tokens /\ metrics' = metrics
  BY DEF Refuse
<1> HIDE DEF D
<1> QED
  BY <1>9, <1>10, <1>11, <1>12, <1>13, <1>14, AnswerInv DEF a

\* Statuses of handlers.
LEMMA HandlerStatusType ==
    ASSUME NEW route
    PROVE  HandlerStatuses(route) \subseteq {"200", "400", "401", "404", "500", "501", "503"}
  BY DEF HandlerStatuses, HealthCheck, MetricsHandler

\* The handler returns.
LEMMA HandleInv ==
    ASSUME PipelineInv, NEW r \in Requests, Handle(r)
    PROVE  PipelineInv'
<1> DEFINE k == kind[r]
           h == Height(kind[r].route)
<1>1. /\ phase[r] = "down" /\ Descending(k, h + 1, NoAnswer, did[r]) /\ depth[r] = h + 1
      /\ k \in AllKinds /\ did[r] \in SUBSET Traces /\ h \in {10, 13, 14, 16}
  BY OfRequest, OfDescent DEF Handle
<1>2. PICK s \in HandlerStatuses(k.route) : Answer(r, depth[r], "handler", s)
  BY DEF Handle
<1>3. PICK change \in SUBSET {"dirty"} :
         did' = [did EXCEPT ![r] = @ \cup {"handler"} \cup (IF k.route = "health" THEN {"users"} ELSE {}) \cup change]
  BY DEF Handle
<1> DEFINE E == {"handler"} \cup (IF k.route = "health" THEN {"users"} ELSE {}) \cup change
           D == did[r] \cup E
           a == AnswerOf(r, "handler", s)
<1>4. E \in SUBSET {"handler", "users", "dirty"}
  OBVIOUS
<1>5. did' = [did EXCEPT ![r] = D] /\ D \in SUBSET Traces
  BY <1>1, <1>3, <1>4 DEF Traces
<1>6. /\ s \in {"200", "400", "401", "403", "404", "408", "429", "500", "501", "503"}
      /\ "handler" \in LayerNames \cup {"handler"}
  BY HandlerStatusType
<1>7. a.by = "handler" /\ a.status = s /\ a.added = {} /\ a.format = ErrorFormat(r, "handler", s)
  BY DEF AnswerOf
<1>8. Within(r, "request_format")
  BY <1>1, WithinDepth
<1>9. IsAppError(k, a.by, a.status) => a.format = k.format
  BY <1>7, <1>8 DEF ErrorFormat, RequestFormat
<1> HIDE DEF a, E
<1>10. h \in 7 .. h /\ a.by \in {"handler", "catch_panic"}
  BY <1>1, <1>7
<1>11. Ascending(k, h, a, D)
  <2>1. k \in AllKinds /\ did[r] \in SUBSET Traces /\ Descending(k, Height(k.route) + 1, NoAnswer, did[r])
    BY <1>1
  <2>2. h \in 7 .. Height(k.route)
    BY <1>10
  <2>3. ("session" \in D => "session" \in did[r]) /\ ("limiter" \in D => "limiter" \in did[r])
    BY <1>4
  <2> HIDE DEF k, h, D
  <2> QED
    BY <1>7, <1>9, <1>10, <2>1, <2>2, <2>3, HandlerSound
<1>12. server' = server /\ kind' = kind /\ tokens' = tokens /\ metrics' = metrics
  BY DEF Handle
<1> DEFINE at == depth[r]
<1>13. at \in Nat \ {0} /\ at > 3 /\ (depth[r] > 3 <=> at > 3) /\ ~(at <= 3) /\ at - 1 = h
  BY <1>1
<1>14. Answer(r, at, "handler", s) /\ Ascending(kind[r], at - 1, a, D)
  BY <1>2, <1>11, <1>13
<1> HIDE DEF D, at
<1> QED
  BY <1>1, <1>5, <1>6, <1>12, <1>13, <1>14, AnswerInv DEF a

\* The handler panics.
LEMMA PanicInv ==
    ASSUME PipelineInv, NEW r \in Requests, Panic(r)
    PROVE  PipelineInv'
<1> DEFINE k == kind[r]
           h == Height(kind[r].route)
<1>1. /\ phase[r] = "down" /\ Descending(k, h + 1, NoAnswer, did[r]) /\ depth[r] = h + 1
      /\ k \in AllKinds /\ did[r] \in SUBSET Traces /\ h \in {10, 13, 14, 16}
  BY OfRequest, OfDescent DEF Panic
<1>2. Answer(r, 8, "catch_panic", "500")
  BY LayerFound DEF Panic
<1>3. PICK change \in SUBSET {"dirty"} : did' = [did EXCEPT ![r] = @ \cup {"handler"} \cup change]
  BY DEF Panic
<1> DEFINE E == {"handler"} \cup change
           D == did[r] \cup E
           a == AnswerOf(r, "catch_panic", "500")
<1>4. E \in SUBSET {"handler", "users", "dirty"}
  OBVIOUS
<1>5. did' = [did EXCEPT ![r] = D] /\ D \in SUBSET Traces
  BY <1>1, <1>3, <1>4 DEF Traces
<1>6. "catch_panic" \in LayerNames \cup {"handler"}
  BY DEF LayerNames
<1>7. a.by = "catch_panic" /\ a.status = "500" /\ a.added = {}
  BY DEF AnswerOf
<1>8. ~IsAppError(k, a.by, a.status)
  BY <1>7 DEF IsAppError
<1> HIDE DEF a, E
<1>9. 7 \in 7 .. h /\ a.by \in {"handler", "catch_panic"} /\ (IsAppError(k, a.by, a.status) => a.format = k.format)
  BY <1>1, <1>7, <1>8
<1>10. Ascending(k, 7, a, D)
  <2>1. k \in AllKinds /\ did[r] \in SUBSET Traces /\ Descending(k, Height(k.route) + 1, NoAnswer, did[r])
    BY <1>1
  <2>2. 7 \in 7 .. Height(k.route)
    BY <1>9
  <2>3. ("session" \in D => "session" \in did[r]) /\ ("limiter" \in D => "limiter" \in did[r])
    BY <1>4
  <2> HIDE DEF k, h, D
  <2> QED
    BY <1>7, <1>9, <2>1, <2>2, <2>3, HandlerSound
<1>11. server' = server /\ kind' = kind /\ tokens' = tokens /\ metrics' = metrics
  BY DEF Panic
<1> DEFINE at == 8
<1>12. at \in Nat \ {0} /\ at > 3 /\ (depth[r] > 3 <=> at > 3) /\ ~(at <= 3) /\ at - 1 = 7
  BY <1>1
<1>13. Answer(r, at, "catch_panic", "500") /\ Ascending(kind[r], at - 1, a, D)
  BY <1>2, <1>10, <1>12
<1> DEFINE s == "500"
           by == "catch_panic"
<1>14. s \in {"200", "400", "401", "403", "404", "408", "429", "500", "501", "503"}
  OBVIOUS
<1> HIDE DEF D, at
<1> QED
  BY <1>1, <1>5, <1>6, <1>11, <1>12, <1>13, <1>14, AnswerInv DEF a

\* The timer of TimeoutLayer fires.
LEMMA TimeOutInv ==
    ASSUME PipelineInv, NEW r \in Requests, TimeOut(r)
    PROVE  PipelineInv'
<1> DEFINE k == kind[r]
           d == depth[r]
           D == did[r]
           a == AnswerOf(r, "timeout", "408")
           at == 4
<1>1. /\ phase[r] = "down" /\ Descending(k, d, NoAnswer, D) /\ k \in AllKinds
      /\ D \in SUBSET Traces /\ d \in Nat /\ d > 4
  BY OfRequest, OfDescent, WithinDepth DEF TimeOut
<1>2. Answer(r, at, "timeout", "408")
  BY LayerFound DEF TimeOut
<1>3. did' = [did EXCEPT ![r] = D]
  BY DEF TimeOut, PipelineInv, Types
<1>4. a.by = "timeout" /\ a.status = "408" /\ a.added = {}
  BY DEF AnswerOf
<1> HIDE DEF a, D
<1>5. Ascending(k, 3, a, D)
  BY <1>1, <1>4, TimeOutSound
<1>6. server' = server /\ kind' = kind /\ tokens' = tokens /\ metrics' = metrics
  BY DEF TimeOut
<1>7. at \in Nat \ {0} /\ at > 3 /\ (depth[r] > 3 <=> at > 3) /\ ~(at <= 3) /\ at - 1 = 3
  BY <1>1
<1>8. Ascending(kind[r], at - 1, a, D)
  BY <1>5, <1>7
<1>9. /\ "408" \in {"200", "400", "401", "403", "404", "408", "429", "500", "501", "503"}
      /\ "timeout" \in LayerNames \cup {"handler"}
  BY DEF LayerNames
<1> HIDE DEF at
<1> QED
  BY <1>1, <1>2, <1>3, <1>6, <1>7, <1>8, <1>9, AnswerInv DEF a

\* The counters stay numbers.
LEMMA CountResponseType ==
    ASSUME NEW m \in [total : Nat, in_flight : Nat, responses : Nat], m.in_flight > 0, NEW s
    PROVE  CountResponse(m, s) \in [total : Nat, in_flight : Nat, responses : Nat]
<1>1. m.in_flight - 1 \in Nat /\ m.responses + 1 \in Nat
  OBVIOUS
<1>2. ASSUME NEW f \in Nat, NEW t \in Nat
      PROVE  [m EXCEPT !.in_flight = f, !.responses = t] \in [total : Nat, in_flight : Nat, responses : Nat]
  OBVIOUS
<1> QED
  BY <1>1, <1>2 DEF CountResponse

\* An answer with what a layer adds.
LEMMA AnswerAdded ==
    ASSUME NEW a \in Answers, NEW X \in SUBSET {"security", "id", "cookie", "cors"}
    PROVE  LET b == [a EXCEPT !.added = @ \cup X] IN
           /\ b \in Answers /\ b.added = a.added \cup X
           /\ b.by = a.by /\ b.status = a.status /\ b.format = a.format
  BY DEF Answers

\* An answer passes a layer.
LEMMA LeaveInv ==
    ASSUME PipelineInv, NEW r \in Requests, Leave(r)
    PROVE  PipelineInv'
<1> DEFINE k == kind[r]
           d == depth[r]
           l == LayerAt(r)
           a == answer[r]
           b == [answer[r] EXCEPT !.added = @ \cup Adds(l, r)]
<1>1. /\ phase[r] = "up" /\ Ascending(k, d, a, did[r]) /\ k \in AllKinds /\ d \in Nat \ {0}
      /\ l = Stack(k.route)[d] /\ a \in Answers
  BY OfRequest DEF Leave, Sound, RequestSound
<1>2. Types
  BY DEF PipelineInv
<1>3. d \in 1 .. Height(k.route)
  BY <1>1, Heights DEF Ascending
<1>4. l = "update_metrics" <=> d = 3
  BY <1>1, <1>3, LayerIndex
<1>5. /\ b \in Answers /\ b.added = a.added \cup Adds(l, r)
      /\ b.by = a.by /\ b.status = a.status /\ b.format = a.format
  BY <1>1, AddedBy, AnswerAdded
<1>6. answer' = [answer EXCEPT ![r] = b]
  BY <1>2 DEF Leave, Types
<1> HIDE DEF b
<1>7. Ascending(k, d - 1, b, did[r])
  BY <1>1, <1>5, LeaveSound
<1>8. /\ kind'[r] = k /\ phase'[r] = "up" /\ depth'[r] = d - 1 /\ answer'[r] = b
      /\ did'[r] = did[r]
  BY <1>1, <1>2, <1>6 DEF Types, Leave
<1>9. OnlyMoves(r)
  BY <1>2, <1>6 DEF Types, Leave, OnlyMoves
<1>10. Sound(r)'
  BY <1>7, <1>8 DEF Sound, RequestSound
<1>11. \A q \in Requests : RequestSound(kind'[q], phase'[q], depth'[q], answer'[q], did'[q])
  BY <1>9, <1>10 DEF PipelineInv, OnlyMoves, Sound
<1>12. answer' \in [Requests -> Answers] /\ depth' \in [Requests -> Nat]
  <2>1. answer' \in [Requests -> Answers]
    BY <1>2, <1>5, <1>6 DEF Types
  <2>2. d - 1 \in Nat
    BY <1>1
  <2> QED
    BY <1>2, <2>1, <2>2 DEF Types, Leave
<1>13. a.by \in {"normalize_path", "cors"} => d <= 1
  BY <1>1 DEF Ascending
<1> HIDE DEF k, d, l, a
<1>14. CASE l = "update_metrics"
  <2>1. metrics' = CountResponse(metrics, a.status)
    BY <1>14 DEF Leave, l, a
  <2>2. d = 3 /\ a.by \notin {"normalize_path", "cors"}
    BY <1>4, <1>13, <1>14
  <2>3. Inside(phase[r], depth[r]) /\ ~Inside(phase'[r], depth'[r])
    BY <1>1, <1>8, <2>2 DEF Inside, d
  <2>4. ~Counted(phase[r], depth[r], answer[r]) /\ Counted(phase'[r], depth'[r], answer'[r])
    BY <1>1, <1>5, <1>8, <2>2 DEF Counted, d
  <2>5. \A q \in Requests \ {r} : /\ Inside(phase'[q], depth'[q]) <=> Inside(phase[q], depth[q])
                                  /\ Counted(phase'[q], depth'[q], answer'[q]) <=>
                                       Counted(phase[q], depth[q], answer[q])
    BY <1>9 DEF OnlyMoves
  <2>6. CountsExact /\ metrics \in [total : Nat, in_flight : Nat, responses : Nat]
    BY <1>2 DEF PipelineInv, Types
  <2>7. CountsExact' /\ metrics.in_flight > 0
    BY <2>1, <2>3, <2>4, <2>5, <2>6, CountsOver
  <2>8. metrics' \in [total : Nat, in_flight : Nat, responses : Nat]
    BY <2>1, <2>6, <2>7, CountResponseType
  <2>9. Types'
    BY <1>2, <1>12, <2>8 DEF Types, Leave
  <2> QED
    BY <1>11, <2>7, <2>9 DEF PipelineInv
<1>15. CASE l # "update_metrics"
  <2>1. metrics' = metrics
    BY <1>15 DEF Leave, l
  <2>2. Inside(phase'[r], depth'[r]) <=> Inside(phase[r], depth[r])
    BY <1>1, <1>4, <1>8, <1>15 DEF Inside, d
  <2>3. Counted(phase'[r], depth'[r], answer'[r]) <=> Counted(phase[r], depth[r], answer[r])
    <3>1. CASE d < 3
      BY <1>1, <1>5, <1>8, <3>1 DEF Counted, d, a
    <3>2. CASE d > 3
      BY <1>1, <1>8, <3>2 DEF Counted, d
    <3> QED
      BY <1>1, <1>4, <1>15, <3>1, <3>2
  <2>4. Types'
    BY <1>2, <1>12, <2>1 DEF Types, Leave
  <2> QED
    BY <1>9, <1>10, <2>1, <2>2, <2>3, <2>4, RequestMoves
<1> QED
  BY <1>14, <1>15

\* An answer has left or was read, or its client is gone.
LEMMA EndInv ==
    ASSUME PipelineInv, NEW r \in Requests, Deliver(r) \/ Receive(r) \/ HangUp(r)
    PROVE  PipelineInv'
<1>1. Types /\ Sound(r)
  BY DEF PipelineInv, Sound
<1>2. /\ kind' = kind /\ depth' = depth /\ answer' = answer /\ did' = did /\ metrics' = metrics
      /\ server' = server /\ tokens' = tokens
  BY DEF Deliver, Receive, HangUp
<1>3. Types' /\ OnlyMoves(r)
  BY <1>1, <1>2 DEF Types, OnlyMoves, Deliver, Receive, HangUp
<1>4. \/ phase[r] = "up" /\ depth[r] = 0 /\ phase'[r] = "sending"
      \/ phase[r] = "sending" /\ phase'[r] = "answered"
      \/ phase[r] = "down" /\ phase'[r] = "gone"
  BY <1>1 DEF Types, Deliver, Receive, HangUp
<1>5. Sound(r)'
  BY <1>1, <1>2, <1>4 DEF Sound, RequestSound
<1>6. /\ Inside(phase'[r], depth'[r]) <=> Inside(phase[r], depth[r])
      /\ Counted(phase'[r], depth'[r], answer'[r]) <=> Counted(phase[r], depth[r], answer[r])
  BY <1>2, <1>4 DEF Inside, Counted
<1> QED
  BY <1>2, <1>3, <1>5, <1>6, RequestMoves

\* A step that concerns no request.
LEMMA ElsewhereInv ==
    ASSUME PipelineInv, kind' = kind, phase' = phase, depth' = depth, answer' = answer, did' = did,
           metrics' = metrics, server' \in {"serving", "draining", "stopped"},
           tokens' \in [Buckets -> 0 .. Burst]
    PROVE  PipelineInv'
<1>1. Types'
  BY DEF PipelineInv, Types
<1>2. CountsExact'
  BY CountsStay DEF PipelineInv
<1> QED
  BY <1>1, <1>2 DEF PipelineInv

\* Every step keeps the invariant.
LEMMA StepInv == PipelineInv /\ [Next]_vars => PipelineInv'
<1> SUFFICES ASSUME PipelineInv, [Next]_vars PROVE PipelineInv'
  OBVIOUS
<1>1. server \in {"serving", "draining", "stopped"} /\ tokens \in [Buckets -> 0 .. Burst]
  BY DEF PipelineInv, Types
<1>2. ASSUME NEW r \in Requests, RequestStep(r)
      PROVE  PipelineInv'
  BY <1>2, SendInv, EnterInv, RefuseInv, HandleInv, PanicInv, TimeOutInv, LeaveInv, EndInv DEF RequestStep
<1>3. ASSUME NEW b \in Buckets, Refill(b)
      PROVE  PipelineInv'
  <2>1. tokens[b] + 1 \in 0 .. Burst
    BY <1>1, <1>3, PipelineAssumption DEF Refill
  <2>2. tokens' \in [Buckets -> 0 .. Burst]
    BY <1>1, <1>3, <2>1 DEF Refill
  <2> QED
    BY <1>1, <1>3, <2>2, ElsewhereInv DEF Refill
<1>4. CASE ShutdownSignal
  BY <1>1, <1>4, ElsewhereInv DEF ShutdownSignal
<1>5. CASE Stop
  BY <1>1, <1>5, ElsewhereInv DEF Stop
<1>6. CASE UNCHANGED vars
  BY <1>1, <1>6, ElsewhereInv DEF vars
<1> QED
  BY <1>2, <1>3, <1>4, <1>5, <1>6 DEF Next

\* The invariant of the request pipeline, for any number of requests of any kinds.
THEOREM PipelineSound == Spec => []PipelineInv
  BY InitInv, StepInv, PTL DEF Spec

-----------------------------------------------------------------------------
(* What follows                                                             *)

\* The four properties of one request, from what the invariant says of it.
LEMMA RequestFacts ==
    ASSUME PipelineInv, NEW r \in Requests
    PROVE  /\ answer[r].by \in {"normalize_path", "cors", "require_user_agent", "block_traffic"}
                => did[r] = {}
           /\ "limiter" \in did[r]
                => answer[r].by \in {"none", "rate_limit", "handler", "catch_panic", "timeout"}
           /\ kind[r].route \notin AppRoutes
                => did[r] \cap {"session", "limiter"} = {} /\ "cookie" \notin answer[r].added
           /\ phase[r] \in {"sending", "answered"}
                => ("id" \in answer[r].added <=>
                       answer[r].by \notin {"normalize_path", "cors", "timeout"})
           /\ IsAppError(kind[r], answer[r].by, answer[r].status) /\ answer[r].by # "normalize_path"
                => answer[r].format = kind[r].format
           /\ "handler" \in did[r] /\ kind[r].route \in ProtectedRoutes => Guarded(kind[r])
<1>1. Height(kind[r].route) > 10 <=> kind[r].route \in AppRoutes
  BY Heights
<1>2. Height(kind[r].route) \in {10, 13, 14, 16}
  BY Heights
<1>3. CASE phase[r] \in {"unsent", "down", "gone"}
  <2>1. Descending(kind[r], depth[r], answer[r], did[r]) /\ depth[r] \in Nat
    BY <1>3, OfRequest DEF Sound, RequestSound
  <2>2. answer[r].by = "none" /\ answer[r].added = {} /\ answer[r].status = "none"
    BY <2>1 DEF Descending, NoAnswer
  <2>3. ~IsAppError(kind[r], answer[r].by, answer[r].status)
    BY <2>2 DEF IsAppError
  <2>4. "handler" \notin did[r]
    BY <2>1 DEF Descending, Touched
  <2>5. kind[r].route \notin AppRoutes => did[r] \cap {"session", "limiter"} = {}
    BY <1>1, <1>2, <2>1 DEF Descending, Touched
  <2> QED
    BY <1>3, <2>2, <2>3, <2>4, <2>5
<1>4. CASE phase[r] \in {"up", "sending", "answered"}
  <2>1. Ascending(kind[r], depth[r], answer[r], did[r]) /\ (phase[r] \in {"sending", "answered"} => depth[r] = 0)
    BY <1>4, OfRequest DEF Sound, RequestSound
  <2> QED
    BY <2>1 DEF Ascending
<1> QED
  BY <1>3, <1>4, OfRequest

\* The order of apply_axum_middleware, apply_app_middleware and the route groups keeps costs
\* behind the checks before them: a request the infrastructure layers refuse costs nothing,
\* one that is refused further in no rate-limit token, an operational one no session.
THEOREM OrderKeepsCostsInside == Spec => []NothingUntilAdmitted
<1>1. PipelineInv => NothingUntilAdmitted
  BY RequestFacts DEF NothingUntilAdmitted, RefusedUntouched, RefusalsAreFree, OpsStayCheap
<1> QED
  BY <1>1, PipelineSound, PTL

\* Every answer from inside the request-id layer carries the request id, and every
\* application error the format its client asked for.
THEOREM AnswersAreComplete == Spec => []AnswersComplete
<1>1. PipelineInv => AnswersComplete
  BY RequestFacts DEF AnswersComplete, IdOnAnswers, ErrorsInClientFormat
<1> QED
  BY <1>1, PipelineSound, PTL

\* A protected handler runs only for a live credential that passed every block rule, the
\* Origin check and the CSRF check.
THEOREM GuardsAreComplete == Spec => []ProtectedHandlersGuarded
<1>1. PipelineInv => ProtectedHandlersGuarded
  BY RequestFacts DEF ProtectedHandlersGuarded, Guarded
<1> QED
  BY <1>1, PipelineSound, PTL

\* requests_total, requests_in_flight and the responses counted agree with the requests
\* themselves, whatever answers, panics, times out or hangs up, and no bucket leaves its range.
THEOREM CountersAlwaysAgree == Spec => []CountersAgree
<1>1. PipelineInv => CountersAgree
  <2> SUFFICES ASSUME PipelineInv PROVE CountersAgree
    OBVIOUS
  <2>1. Types /\ CountsExact
    BY DEF PipelineInv
  <2>2. ASSUME NEW r \in Requests
        PROVE  InMetrics(r) <=> Inside(phase[r], depth[r])
    BY LayerFound DEF InMetrics, Inside
  <2>3. {r \in Requests : InMetrics(r)} = InsideSet
    BY <2>2 DEF InsideSet
  <2>4. GaugeIsExact /\ EveryRequestCounted
    BY <2>1, <2>3 DEF GaugeIsExact, EveryRequestCounted, CountsExact
  <2>5. \A m \in {"total", "in_flight", "responses"} : metrics[m] \in 0 .. Cardinality(Requests)
    <3>1. metrics.total <= Cardinality(Requests) /\ metrics.in_flight <= Cardinality(Requests)
          /\ metrics.responses <= Cardinality(Requests) /\ Cardinality(Requests) \in Nat
      BY <2>1, CountedBound, CountedFinite DEF CountsExact
    <3>2. metrics.total \in Nat /\ metrics.in_flight \in Nat /\ metrics.responses \in Nat
      BY <2>1 DEF Types
    <3> QED
      BY <3>1, <3>2
  <2>6. ASSUME NEW r \in Requests
        PROVE  depth[r] \in 0 .. Len(LayersOf(r)) + 1
    <3>1. Len(LayersOf(r)) = Height(kind[r].route) /\ Height(kind[r].route) \in Nat
      BY OfRequest, Heights
    <3>2. depth[r] \in 0 .. Height(kind[r].route) + 1
      BY <3>1, OfRequest DEF Sound, RequestSound, Descending, Ascending
    <3> QED
      BY <3>1, <3>2
  <2>7. TypeOK
    BY <2>1, <2>5, <2>6 DEF TypeOK, Types, Traces
  <2> QED
    BY <2>4, <2>7 DEF CountersAgree
<1> QED
  BY <1>1, PipelineSound, PTL

-----------------------------------------------------------------------------
(* Why everything ends.  Liveness itself is TLC's; these are its premises:  *)
(* every request has a number of steps ahead that each of its own steps     *)
(* lowers, and while it is in the stack a step it has needs no peer.        *)

\* A bound on the steps ahead of a request in phase p at depth d: down through at most
\* 16 layers to the handler, up again, and out.
Ahead(p, d) ==
    IF p = "unsent" THEN 36
    ELSE IF p = "down" THEN 36 - d
    ELSE IF p = "up" THEN d + 2
    ELSE IF p = "sending" THEN 1 ELSE 0

\* The bound is a number: a request takes at most 36 steps.
AheadBounded == \A r \in Requests : Ahead(phase[r], depth[r]) \in 0 .. 36

\* Request r moves on, or does not move.
MovesOn(r) ==
    \/ phase'[r] = phase[r] /\ depth'[r] = depth[r]
    \/ Ahead(phase'[r], depth'[r]) < Ahead(phase[r], depth[r])

\* A layer outside the timeout has a verdict, the timer can fire, or the answer can leave.
\* These are the guards of OutsideTimeout, TimeOut, Leave and Deliver.
CanMove(r) ==
    \/ phase[r] = "down" /\ Within(r, "timeout")
    \/ phase[r] = "down" /\ ~Within(r, "timeout") /\ ~AtHandler(r) /\ Verdicts(LayerAt(r), kind[r]) # {}
    \/ phase[r] = "up" /\ (depth[r] > 0 \/ depth[r] = 0)

\* Where a request stands, by its phase.
LEMMA DepthRange ==
    ASSUME PipelineInv, NEW r \in Requests
    PROVE  /\ depth[r] \in Nat
           /\ phase[r] \in {"unsent", "down", "up", "sending", "answered", "gone"}
           /\ phase[r] = "unsent" => depth[r] = 1
           /\ phase[r] = "down" => depth[r] \in 1 .. 17
           /\ phase[r] = "up" => depth[r] \in 0 .. 16
<1>1. /\ depth[r] \in Nat /\ Sound(r) /\ Height(kind[r].route) \in {10, 13, 14, 16}
      /\ phase[r] \in {"unsent", "down", "up", "sending", "answered", "gone"}
  BY OfRequest
<1>2. phase[r] = "unsent" => depth[r] = 1
  BY <1>1 DEF Sound, RequestSound
<1>3. phase[r] = "down" => depth[r] \in 1 .. Height(kind[r].route) + 1
  BY <1>1 DEF Sound, RequestSound, Descending
<1>4. phase[r] = "up" => depth[r] \in 0 .. Height(kind[r].route)
  BY <1>1 DEF Sound, RequestSound, Ascending
<1> QED
  BY <1>1, <1>2, <1>3, <1>4

\* An answer turns a request around nearer to the end than it was.
LEMMA AnswerMoves ==
    ASSUME PipelineInv, NEW r \in Requests, phase[r] = "down",
           NEW at \in 1 .. 17, NEW l, NEW status, Answer(r, at, l, status)
    PROVE  MovesOn(r)
<1>1. phase'[r] = "up" /\ depth'[r] = at - 1
  BY DEF Answer, PipelineInv, Types
<1>2. depth[r] \in 1 .. 17
  BY DepthRange
<1>3. Ahead(phase'[r], depth'[r]) = at - 1 + 2
  BY <1>1 DEF Ahead
<1>4. Ahead(phase[r], depth[r]) = 36 - depth[r]
  BY DEF Ahead
<1>5. at - 1 + 2 < 36 - depth[r]
  BY <1>2
<1> QED
  BY <1>3, <1>4, <1>5 DEF MovesOn

\* A step of a request moves it on.
LEMMA StepMoves ==
    ASSUME PipelineInv, NEW r \in Requests, RequestStep(r)
    PROVE  MovesOn(r)
<1>1. Types /\ depth[r] \in Nat
  BY DepthRange DEF PipelineInv
<1>2. CASE Send(r)
  <2>1. phase[r] = "unsent" /\ phase'[r] = "down" /\ depth'[r] = 1
    BY <1>1, <1>2, DepthRange DEF Send, Types
  <2>2. Ahead(phase[r], depth[r]) = 36 /\ Ahead(phase'[r], depth'[r]) = 35
    BY <2>1 DEF Ahead
  <2> QED
    BY <2>2 DEF MovesOn
<1>3. CASE Enter(r)
  <2>1. phase[r] = "down" /\ phase'[r] = "down" /\ depth'[r] = depth[r] + 1
    BY <1>1, <1>3 DEF Enter, Types
  <2>2. Ahead(phase[r], depth[r]) = 36 - depth[r] /\ Ahead(phase'[r], depth'[r]) = 36 - (depth[r] + 1)
    BY <2>1 DEF Ahead
  <2>3. 36 - (depth[r] + 1) < 36 - depth[r]
    BY <1>1
  <2> QED
    BY <2>2, <2>3 DEF MovesOn
<1>4. CASE Refuse(r)
  <2>1. phase[r] = "down" /\ \E status : Answer(r, depth[r], LayerAt(r), status)
    BY <1>4 DEF Refuse
  <2>2. depth[r] \in 1 .. 17
    BY <2>1, DepthRange
  <2> QED
    BY <2>1, <2>2, AnswerMoves
<1>5. CASE Handle(r)
  <2>1. phase[r] = "down" /\ \E status : Answer(r, depth[r], "handler", status)
    BY <1>5 DEF Handle
  <2>2. depth[r] \in 1 .. 17
    BY <2>1, DepthRange
  <2> QED
    BY <2>1, <2>2, AnswerMoves
<1>6. CASE Panic(r)
  <2>1. phase[r] = "down" /\ Answer(r, 8, "catch_panic", "500")
    BY <1>6, LayerFound DEF Panic
  <2>2. 8 \in 1 .. 17
    OBVIOUS
  <2> QED
    BY <2>1, <2>2, AnswerMoves
<1>7. CASE TimeOut(r)
  <2>1. phase[r] = "down" /\ Answer(r, 4, "timeout", "408")
    BY <1>7, LayerFound DEF TimeOut
  <2>2. 4 \in 1 .. 17
    OBVIOUS
  <2> QED
    BY <2>1, <2>2, AnswerMoves
<1>8. CASE Leave(r)
  <2>1. phase[r] = "up" /\ phase'[r] = "up" /\ depth'[r] = depth[r] - 1
    BY <1>1, <1>8 DEF Leave, Types
  <2>2. Ahead(phase[r], depth[r]) = depth[r] + 2 /\ Ahead(phase'[r], depth'[r]) = depth[r] - 1 + 2
    BY <2>1 DEF Ahead
  <2>3. depth[r] - 1 + 2 < depth[r] + 2
    BY <1>1
  <2> QED
    BY <2>2, <2>3 DEF MovesOn
<1>9. CASE Deliver(r)
  <2>1. phase[r] = "up" /\ depth[r] = 0 /\ phase'[r] = "sending"
    BY <1>1, <1>9 DEF Deliver, Types
  <2>2. Ahead(phase[r], depth[r]) = 2 /\ Ahead(phase'[r], depth'[r]) = 1
    BY <2>1 DEF Ahead
  <2> QED
    BY <2>2 DEF MovesOn
<1>10. CASE HangUp(r)
  <2>1. phase[r] = "down" /\ phase'[r] = "gone"
    BY <1>1, <1>10 DEF HangUp, Types
  <2>2. Ahead(phase[r], depth[r]) = 36 - depth[r] /\ Ahead(phase'[r], depth'[r]) = 0
    BY <2>1 DEF Ahead
  <2>3. 0 < 36 - depth[r]
    BY <2>1, DepthRange
  <2> QED
    BY <2>2, <2>3 DEF MovesOn
<1>11. CASE Receive(r)
  <2>1. phase[r] = "sending" /\ phase'[r] = "answered"
    BY <1>1, <1>11 DEF Receive, Types
  <2>2. Ahead(phase[r], depth[r]) = 1 /\ Ahead(phase'[r], depth'[r]) = 0
    BY <2>1 DEF Ahead
  <2> QED
    BY <2>2 DEF MovesOn
<1> QED
  BY <1>2, <1>3, <1>4, <1>5, <1>6, <1>7, <1>8, <1>9, <1>10, <1>11 DEF RequestStep

\* A step of one request leaves the others where they are.
LEMMA OthersStay ==
    ASSUME PipelineInv, NEW r \in Requests, RequestStep(r), NEW q \in Requests, q # r
    PROVE  phase'[q] = phase[q] /\ depth'[q] = depth[q]
<1>1. Types
  BY DEF PipelineInv
<1>2. CASE Send(r) \/ Enter(r) \/ Leave(r) \/ Deliver(r) \/ Receive(r) \/ HangUp(r)
  BY <1>1, <1>2 DEF Types, Send, Enter, Leave, Deliver, Receive, HangUp
<1>3. ASSUME NEW at, NEW l, NEW status, Answer(r, at, l, status)
      PROVE  phase'[q] = phase[q] /\ depth'[q] = depth[q]
  BY <1>1, <1>3 DEF Types, Answer
<1>4. CASE Refuse(r) \/ Handle(r) \/ Panic(r) \/ TimeOut(r)
  <2>1. \E at, l, status : Answer(r, at, l, status)
    BY <1>4 DEF Refuse, Handle, Panic, TimeOut
  <2> QED
    BY <1>3, <2>1
<1> QED
  BY <1>2, <1>4 DEF RequestStep

\* No request ever moves back: whatever layers, handlers, the timer and clients do, each
\* step of a request lowers a number of at most 36.  With NothingIsStuck, what
\* the answer to every request and graceful shutdown (EverythingEnds) rest on.
THEOREM RequestsMoveOn == Spec => [][\A r \in Requests : MovesOn(r)]_vars /\ []AheadBounded
<1>1. PipelineInv => AheadBounded
  <2> SUFFICES ASSUME PipelineInv, NEW r \in Requests PROVE Ahead(phase[r], depth[r]) \in 0 .. 36
    BY DEF AheadBounded
  <2> QED
    BY DepthRange DEF Ahead
<1>2. PipelineInv /\ [Next]_vars => [\A r \in Requests : MovesOn(r)]_vars
  <2> SUFFICES ASSUME PipelineInv, Next, NEW q \in Requests PROVE MovesOn(q)
    OBVIOUS
  <2>1. ASSUME NEW r \in Requests, RequestStep(r) PROVE MovesOn(q)
    <3>1. CASE q = r
      BY <2>1, <3>1, StepMoves
    <3>2. CASE q # r
      BY <2>1, <3>2, OthersStay DEF MovesOn
    <3> QED
      BY <3>1, <3>2
  <2>2. CASE \E b \in Buckets : Refill(b)
    BY <2>2 DEF Refill, MovesOn
  <2>3. CASE ShutdownSignal \/ Stop
    BY <2>3 DEF ShutdownSignal, Stop, MovesOn
  <2> QED
    BY <2>1, <2>2, <2>3 DEF Next
<1> QED
  BY <1>1, <1>2, PipelineSound, PTL DEF Spec

\* A request in the stack can always take a step that no handler, database or client has to
\* make: the layers around TimeoutLayer decide by themselves, inside it the timer can fire,
\* and an answer can leave.  Once it has, only its client is waited for.
THEOREM NothingIsStuck == Spec => [](\A r \in Live : CanMove(r))
<1>1. PipelineInv => \A r \in Live : CanMove(r)
  <2> SUFFICES ASSUME PipelineInv, NEW r \in Requests, phase[r] \in {"down", "up"} PROVE CanMove(r)
    BY DEF Live
  <2>1. CASE phase[r] = "up"
    BY <2>1, DepthRange DEF CanMove
  <2>2. CASE phase[r] = "down" /\ Within(r, "timeout")
    BY <2>2 DEF CanMove
  <2>3. CASE phase[r] = "down" /\ ~Within(r, "timeout")
    <3>1. depth[r] \in 1 .. 4
      BY <2>3, DepthRange, WithinDepth
    <3>2. ~AtHandler(r) /\ depth[r] \in 1 .. Height(kind[r].route)
      BY <2>3, <3>1, OfDescent, OfRequest
    <3>3. LayerAt(r) \in {"normalize_path", "cors", "update_metrics", "timeout"}
      <4>1. LayerAt(r) = Stack(kind[r].route)[depth[r]]
        BY OfRequest
      <4> QED
        BY <3>1, <3>2, <4>1, LayerIndex
    <3>4. Verdicts(LayerAt(r), kind[r]) # {}
      BY <3>3 DEF Verdicts
    <3> QED
      BY <2>3, <3>2, <3>4 DEF CanMove
  <2> QED
    BY <2>1, <2>2, <2>3
<1> QED
  BY <1>1, PipelineSound, PTL
=============================================================================
