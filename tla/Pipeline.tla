------------------------------- MODULE Pipeline -------------------------------
(***************************************************************************)
(* The middleware stack around every handler: apply_axum_middleware,        *)
(* apply_app_middleware and rate_limit (src/middleware/mod.rs), the route   *)
(* groups of build_axum_router (src/router.rs), and the server that runs    *)
(* them until it is told to stop (src/bin/main.rs).                         *)
(*                                                                          *)
(* A request descends through the layers of its route, is answered by one   *)
(* of them or by the handler, and the answer ascends through the layers it  *)
(* passed.  Crossing a layer is one step, so requests interleave between    *)
(* any two layers; a handler may panic or never return, the 30 second timer *)
(* may fire, and the client may hang up, anywhere inside.                   *)
(*                                                                          *)
(* Compression, the body timeout, log_request and error_handler change      *)
(* nothing modelled here (the last two only log).                           *)
(***************************************************************************)
EXTENDS Naturals, Sequences, SequencesExt, FiniteSets, FiniteSetsExt

CONSTANTS
    Requests,        \* the requests made, each once
    Kinds,           \* what each request may be: a subset of AllKinds
    Ips,             \* client addresses, as real_ip finds them
    BlockedIps, BlockedRoutes,
    Burst,           \* the most tokens in a bucket
    Impatient        \* whether a client may hang up

\* Routes of each group.
StaticRoutes == {"static", "static_download"}
OpsRoutes == {"health", "metrics"} \cup StaticRoutes
LimitedRoutes == {"list_posts", "oauth_authorize", "contact_submit"}
ProtectedRoutes == {"create_post", "list_tokens"}
AppRoutes == {"home"} \cup LimitedRoutes \cup ProtectedRoutes
UnmatchedRoutes == {"unmatched", "download"}
Routes == OpsRoutes \cup AppRoutes \cup UnmatchedRoutes

\* The routes block_routes can name: nest_service and the fallback leave no MatchedPath.
MatchedRoutes == AppRoutes \cup (OpsRoutes \ StaticRoutes)

\* Paths that end in "download": a file under /static, or no route at all.
Downloads == {"static_download", "download"}

\* header, form: the CSRF tokens a request carries, if any.
\* format: RequestFormat::from_headers, an HTMX request before one that accepts HTML.
AllKinds ==
    [route : Routes, preflight : BOOLEAN, path : {"inside", "escapes"},
     agent : {"none", "plain", "blocked"}, ip : Ips,
     origin : {"none", "allowed", "foreign"},
     cred : {"anonymous", "cookie", "stale_cookie", "bearer", "dead_bearer"},
     header : {"none", "empty", "right", "wrong"},
     form : {"none", "right", "wrong", "oversized"},
     format : {"json", "html", "hx"}]

ASSUME PipelineAssumption ==
    /\ IsFiniteSet(Requests)
    /\ Kinds \in [Requests -> (SUBSET AllKinds) \ {{}}]
    /\ BlockedIps \subseteq Ips /\ BlockedRoutes \subseteq MatchedRoutes
    /\ Burst \in Nat \ {0}
    /\ Impatient \in BOOLEAN

VARIABLES
    server,      \* "serving", "draining" or "stopped"
    kind,        \* what each request is
    phase,       \* "unsent", "down", "up", "sending", "answered" or "gone"
    depth,       \* the layer it crosses next
    answer,      \* status, the layer it comes from, what the layers added
    did,         \* what the request made the application do
    tokens,      \* tokens of each rate-limit bucket
    metrics      \* requests_total, requests_in_flight, responses counted

vars == <<server, kind, phase, depth, answer, did, tokens, metrics>>

NoAnswer == [status |-> "none", by |-> "none", format |-> "none", added |-> {}]

-----------------------------------------------------------------------------
(* The stack, outermost first                                               *)

\* Mutant: no request timeout.
WithoutTimeout ==
    <<"normalize_path", "cors", "update_metrics", "security_headers",
      "request_id", "require_user_agent", "catch_panic", "request_format", "block_traffic">>

\* Mutant: metrics are taken inside the timeout.
MetricsInsideTimeout ==
    <<"normalize_path", "cors", "timeout", "update_metrics", "security_headers",
      "request_id", "require_user_agent", "catch_panic", "request_format", "block_traffic">>

\* Mutant: the user agent is checked before the request has its id.
AgentBeforeId ==
    <<"normalize_path", "cors", "update_metrics", "timeout", "security_headers",
      "require_user_agent", "request_id", "catch_panic", "request_format", "block_traffic">>

\* Mutant: no request_format around the routes.
WithoutFormat ==
    <<"normalize_path", "cors", "update_metrics", "timeout", "security_headers",
      "request_id", "require_user_agent", "catch_panic", "block_traffic">>

\* build_handler and apply_axum_middleware
InfraLayers ==
    <<"normalize_path", "cors", "update_metrics", "timeout", "security_headers",
      "request_id", "require_user_agent", "catch_panic", "request_format", "block_traffic">>

AppLayers == <<"session", "authenticate", "verify_origin">>

\* Mutant: rate_limit is the outermost of the protected routes' layers.
LimitFirst(route) ==
    CASE route \in ProtectedRoutes -> <<"rate_limit", "require_auth", "csrf_protect">>
      [] route \in LimitedRoutes   -> <<"rate_limit">>
      [] OTHER                     -> << >>

\* Mutant: the protected routes are merged without csrf_protect.
WithoutCsrf(route) ==
    CASE route \in ProtectedRoutes -> <<"require_auth", "rate_limit">>
      [] route \in LimitedRoutes   -> <<"rate_limit">>
      [] OTHER                     -> << >>

\* The route_layers of build_axum_router's groups.
GroupLayers(route) ==
    CASE route \in ProtectedRoutes -> <<"require_auth", "csrf_protect", "rate_limit">>
      [] route \in LimitedRoutes   -> <<"rate_limit">>
      [] OTHER                     -> << >>

\* Mutant: the application layers go around the whole router.
AppLayersEverywhere(route) == InfraLayers \o AppLayers \o GroupLayers(route)

\* Mutant: block_traffic is an application layer, inside session and authenticate.
BlockInside(route) ==
    IF route \in AppRoutes
    THEN Front(InfraLayers) \o AppLayers \o <<"block_traffic">> \o GroupLayers(route)
    ELSE InfraLayers

Stack(route) ==
    IF route \in AppRoutes THEN InfraLayers \o AppLayers \o GroupLayers(route)
                           ELSE InfraLayers

LayersOf(r) == Stack(kind[r].route)
LayerAt(r) == LayersOf(r)[depth[r]]
IndexIn(r, layer) == CHOOSE i \in DOMAIN LayersOf(r) : LayersOf(r)[i] = layer

\* Request r has crossed the layer on its way down.
Within(r, layer) == \E i \in 1 .. depth[r] - 1 : LayersOf(r)[i] = layer
AtHandler(r) == depth[r] > Len(LayersOf(r))

-----------------------------------------------------------------------------
(* Error bodies                                                             *)

\* request_format(): the default outside the scope of the request_format layer
RequestFormat(r) == IF Within(r, "request_format") THEN kind[r].format ELSE "json"

\* Answers that are an AppError, and so made by build_error_response.
IsAppError(k, layer, status) ==
    \/ layer \in {"normalize_path", "verify_origin", "require_auth", "csrf_protect", "rate_limit"}
    \/ layer = "handler" /\ k.route \notin OpsRoutes /\ status \in {"404", "500"}

\* build_error_response
ErrorFormat(r, layer, status) == IF IsAppError(kind[r], layer, status) THEN RequestFormat(r) ELSE "none"

-----------------------------------------------------------------------------
(* What a layer decides                                                     *)

Unsafe(k) == k.route \in {"create_post", "contact_submit"}
HasCookie(k) == k.cred \in {"cookie", "stale_cookie"}

\* require_user_agent
RequireUserAgent(k) == IF k.agent = "none" /\ k.route \notin Downloads THEN "403" ELSE "pass"

\* block_by_ip, block_by_header, block_routes
BlockTraffic(k) ==
    IF k.ip \in BlockedIps \/ k.agent = "blocked" THEN "403"
    ELSE IF k.route \in BlockedRoutes THEN "503" ELSE "pass"

\* extract_csrf_token: the header if there is one, else the form field, unless
\* the body is too large to be searched.
ProvidedToken(k) ==
    IF k.header # "none" THEN k.header
    ELSE IF k.form \in {"right", "wrong"} THEN k.form ELSE "none"

\* enforce_csrf.  A cookie session always has state worth protecting.
EnforceCsrf(k) ==
    IF Unsafe(k) /\ HasCookie(k) /\ ProvidedToken(k) # "right" THEN "400" ELSE "pass"

\* verify_origin
VerifyOrigin(k) == IF Unsafe(k) /\ k.origin = "foreign" THEN "400" ELSE "pass"

\* authenticate: validate_token for a bearer token; the errors of its statements are 500,
\* but for the lookup of the owner, which is 401.
Authenticate(k) ==
    CASE k.cred = "bearer"      -> {"pass", "401", "500"}
      [] k.cred = "dead_bearer" -> {"401", "403", "500"}
      [] OTHER                  -> {"pass"}

\* enforce_authentication; bearer tokens were validated by authenticate, and a user who
\* cannot be read is taken for one who does not exist.
EnforceAuthentication(k) ==
    CASE k.cred = "bearer"       -> {"pass"}
      [] k.cred = "cookie"       -> {"pass", "401"}
      [] k.cred = "stale_cookie" -> {"401", "403"}
      [] OTHER                   -> {"401"}

\* determine_limited_action, and the key check_rate_limit is given with it
LimitedAction(k) ==
    CASE k.route = "list_posts"      -> "PublicApiRead"
      [] k.route = "oauth_authorize" -> "OAuthAuthorize"
      [] k.route = "contact_submit"  -> "FormSubmission"
      [] OTHER                       -> "ApiRequest"
Buckets == (Ips \cup {"user"}) \X {"PublicApiRead", "OAuthAuthorize", "FormSubmission", "ApiRequest"}
BucketOf(k) == <<IF HasCookie(k) \/ k.cred = "bearer" THEN "user" ELSE k.ip, LimitedAction(k)>>

\* Mutant: an empty bucket gives one more.
RateLimitLate(k) == {"429"} \cup IF tokens[BucketOf(k)] >= 0 THEN {"pass"} ELSE {}

\* rate_limit; a statement that fails refuses too.
RateLimit(k) == {"429"} \cup IF tokens[BucketOf(k)] > 0 THEN {"pass"} ELSE {}

\* The verdicts layer may give on a request of kind k: "pass" or a status.
Verdicts(layer, k) ==
    CASE layer = "normalize_path"     -> {IF k.path = "escapes" THEN "400" ELSE "pass"}
      [] layer = "cors"               -> {IF k.preflight THEN "200" ELSE "pass"}
      [] layer = "require_user_agent" -> {RequireUserAgent(k)}
      [] layer = "block_traffic"      -> {BlockTraffic(k)}
      [] layer = "authenticate"       -> Authenticate(k)
      [] layer = "verify_origin"      -> {VerifyOrigin(k)}
      [] layer = "require_auth"       -> EnforceAuthentication(k)
      [] layer = "csrf_protect"       -> {EnforceCsrf(k)}
      [] layer = "rate_limit"         -> RateLimit(k)
      [] OTHER                        -> {"pass"}

\* What crossing it touches, whatever the verdict.
Touches(layer, k) ==
    CASE layer = "session"                                         -> {"session"}
      [] layer = "authenticate" /\ k.cred \in {"bearer", "dead_bearer"} -> {"users"}
      [] layer = "require_auth" /\ HasCookie(k)                    -> {"users"}
      [] layer = "rate_limit"                                      -> {"limiter"}
      [] OTHER                                                     -> {}

\* What a layer adds to an answer on the way up.
Adds(layer, r) ==
    CASE layer = "security_headers"                   -> {"security"}
      [] layer = "request_id"                         -> {"id"}
      [] layer = "session" /\ "dirty" \in did[r]      -> {"cookie"}
      [] layer = "cors" /\ kind[r].origin = "allowed" -> {"cors"}
      [] OTHER                                        -> {}

\* InstanceMetrics::new
NoMetrics == [total |-> 0, in_flight |-> 0, responses |-> 0]

\* Mutant: server errors are not counted.
CountUnlessError(m, status) ==
    IF status \in {"500", "503"} THEN [m EXCEPT !.in_flight = @ - 1]
    ELSE [m EXCEPT !.in_flight = @ - 1, !.responses = @ + 1]

\* update_metrics, before and after it runs the rest of the stack
CountRequest(m) == [m EXCEPT !.total = @ + 1, !.in_flight = @ + 1]
CountResponse(m, status) == [m EXCEPT !.in_flight = @ - 1, !.responses = @ + 1]

\* The statuses of the handlers: health_check, metrics_handler (with or without the
\* token it may ask for), the fallback; any other handler answers or fails.
HealthCheck == {"200", "503"}
MetricsHandler == {"200", "400", "401", "500", "501"}
HandlerStatuses(route) ==
    CASE route = "health"             -> HealthCheck
      [] route = "metrics"            -> MetricsHandler
      [] route \in UnmatchedRoutes    -> {"404"}
      [] OTHER                        -> {"200", "500"}

-----------------------------------------------------------------------------
(* Steps                                                                    *)

Init ==
    /\ server = "serving"
    /\ kind = [r \in Requests |-> CHOOSE k \in Kinds[r] : TRUE]
    /\ phase = [r \in Requests |-> "unsent"]
    /\ depth = [r \in Requests |-> 1]
    /\ answer = [r \in Requests |-> NoAnswer]
    /\ did = [r \in Requests |-> {}]
    /\ tokens = [b \in Buckets |-> Burst]
    /\ metrics = NoMetrics

\* axum::serve accepts a request; once the signal is received it accepts no more.
Send(r) ==
    /\ server = "serving" /\ phase[r] = "unsent"
    /\ \E k \in Kinds[r] : kind' = [kind EXCEPT ![r] = k]
    /\ phase' = [phase EXCEPT ![r] = "down"]
    /\ UNCHANGED <<server, depth, answer, did, tokens, metrics>>

\* The layer of index at answers the request itself.
Answer(r, at, layer, status) ==
    /\ answer' = [answer EXCEPT ![r] = [status |-> status, by |-> layer,
                      format |-> ErrorFormat(r, layer, status), added |-> {}]]
    /\ phase' = [phase EXCEPT ![r] = "up"]
    /\ depth' = [depth EXCEPT ![r] = at - 1]

\* The layer passes the request on.
Enter(r) ==
    /\ phase[r] = "down" /\ ~AtHandler(r)
    /\ "pass" \in Verdicts(LayerAt(r), kind[r])
    /\ depth' = [depth EXCEPT ![r] = @ + 1]
    /\ did' = [did EXCEPT ![r] = @ \cup Touches(LayerAt(r), kind[r])]
    /\ tokens' = IF LayerAt(r) = "rate_limit"
                 THEN [tokens EXCEPT ![BucketOf(kind[r])] = @ - 1] ELSE tokens
    /\ metrics' = IF LayerAt(r) = "update_metrics"
                  THEN CountRequest(metrics) ELSE metrics
    /\ UNCHANGED <<server, kind, phase, answer>>

\* The layer answers instead.
Refuse(r) ==
    /\ phase[r] = "down" /\ ~AtHandler(r)
    /\ \E status \in Verdicts(LayerAt(r), kind[r]) \ {"pass"} :
          Answer(r, depth[r], LayerAt(r), status)
    /\ did' = [did EXCEPT ![r] = @ \cup Touches(LayerAt(r), kind[r])]
    /\ UNCHANGED <<server, kind, tokens, metrics>>

\* The handler returns.  health_check asks the users table for a row, and the
\* application's handlers may write to the session.
Handle(r) ==
    /\ phase[r] = "down" /\ AtHandler(r)
    /\ LET route == kind[r].route
           work  == IF route = "health" THEN {"users"} ELSE {}
       IN  /\ \E status \in HandlerStatuses(route) : Answer(r, depth[r], "handler", status)
           /\ \E change \in (IF route \in AppRoutes THEN {{}, {"dirty"}} ELSE {{}}) :
                 did' = [did EXCEPT ![r] = @ \cup {"handler"} \cup work \cup change]
    /\ UNCHANGED <<server, kind, tokens, metrics>>

\* The handler panics: the layers inside CatchPanicLayer are unwound.
Panic(r) ==
    /\ phase[r] = "down" /\ AtHandler(r)
    /\ Answer(r, IndexIn(r, "catch_panic"), "catch_panic", "500")
    /\ \E change \in (IF kind[r].route \in AppRoutes THEN {{}, {"dirty"}} ELSE {{}}) :
          did' = [did EXCEPT ![r] = @ \cup {"handler"} \cup change]
    /\ UNCHANGED <<server, kind, tokens, metrics>>

\* TimeoutLayer: what is inside is dropped where it is.
TimeOut(r) ==
    /\ phase[r] = "down" /\ Within(r, "timeout")
    /\ Answer(r, IndexIn(r, "timeout"), "timeout", "408")
    /\ UNCHANGED <<server, kind, did, tokens, metrics>>

\* The answer passes a layer on the way out.
Leave(r) ==
    /\ phase[r] = "up" /\ depth[r] > 0
    /\ answer' = [answer EXCEPT ![r].added = @ \cup Adds(LayerAt(r), r)]
    /\ metrics' = IF LayerAt(r) = "update_metrics"
                  THEN CountResponse(metrics, answer[r].status) ELSE metrics
    /\ depth' = [depth EXCEPT ![r] = @ - 1]
    /\ UNCHANGED <<server, kind, phase, did, tokens>>

\* The answer has left the outermost layer: its head is sent, its body is streamed.
Deliver(r) ==
    /\ phase[r] = "up" /\ depth[r] = 0
    /\ phase' = [phase EXCEPT ![r] = "sending"]
    /\ UNCHANGED <<server, kind, depth, answer, did, tokens, metrics>>

\* The client has read the body, or closes the connection before the end.  No layer bounds
\* the time it takes: TimeoutLayer's timer ends with the head.
Receive(r) ==
    /\ phase[r] = "sending"
    /\ phase' = [phase EXCEPT ![r] = "answered"]
    /\ UNCHANGED <<server, kind, depth, answer, did, tokens, metrics>>

\* The client closes the connection: the server drops the request where it is.
HangUp(r) ==
    /\ Impatient /\ phase[r] = "down"
    /\ phase' = [phase EXCEPT ![r] = "gone"]
    /\ UNCHANGED <<server, kind, depth, answer, did, tokens, metrics>>

\* A bucket gains a token as time passes (RateLimiter has the detail).
Refill(b) ==
    /\ tokens[b] < Burst
    /\ tokens' = [tokens EXCEPT ![b] = @ + 1]
    /\ UNCHANGED <<server, kind, phase, depth, answer, did, metrics>>

\* shutdown_signal: SIGINT or SIGTERM
ShutdownSignal ==
    /\ server = "serving"
    /\ server' = "draining"
    /\ UNCHANGED <<kind, phase, depth, answer, did, tokens, metrics>>

\* The requests in the stack, and those that keep a connection.
Live == {r \in Requests : phase[r] \in {"down", "up"}}
Connected == {r \in Requests : phase[r] \in {"down", "up", "sending"}}

\* with_graceful_shutdown: serve returns once its connections are finished, the bodies
\* that are still being sent included.
Stop ==
    /\ server = "draining" /\ Connected = {}
    /\ server' = "stopped"
    /\ UNCHANGED <<kind, phase, depth, answer, did, tokens, metrics>>

RequestStep(r) ==
    \/ Send(r) \/ Enter(r) \/ Refuse(r) \/ Handle(r) \/ Panic(r)
    \/ TimeOut(r) \/ Leave(r) \/ Deliver(r) \/ Receive(r) \/ HangUp(r)

Next == (\E r \in Requests : RequestStep(r)) \/ (\E b \in Buckets : Refill(b)) \/ ShutdownSignal \/ Stop

Spec == Init /\ [][Next]_vars

\* What needs no peer runs: the layers outside the timeout, the timer, the way up.
\* Nothing makes a handler, or a layer that awaits the database, go on, nor a client read.
OutsideTimeout(r) == ~Within(r, "timeout") /\ (Enter(r) \/ Refuse(r))
Fairness ==
    /\ \A r \in Requests : /\ WF_vars(OutsideTimeout(r)) /\ WF_vars(TimeOut(r))
                           /\ WF_vars(Leave(r)) /\ WF_vars(Deliver(r))
    /\ WF_vars(Stop)

FairSpec == Spec /\ Fairness

-----------------------------------------------------------------------------
(* Properties                                                               *)

\* Type correctness: a bucket never leaves its range and no request is counted twice.
TypeOK ==
    /\ server \in {"serving", "draining", "stopped"}
    /\ \A r \in Requests :
          /\ kind[r] \in Kinds[r]
          /\ phase[r] \in {"unsent", "down", "up", "sending", "answered", "gone"}
          /\ depth[r] \in 0 .. Len(LayersOf(r)) + 1
          /\ did[r] \subseteq {"session", "users", "limiter", "handler", "dirty"}
    /\ \A b \in Buckets : tokens[b] \in 0 .. Burst
    /\ \A m \in {"total", "in_flight", "responses"} : metrics[m] \in 0 .. Cardinality(Requests)

\* A request the infrastructure layers answer (an escaping path, a preflight, no user
\* agent, a blocked address, agent or route) reaches nothing of the application: no
\* session is decoded, no user or token read, no rate-limit token taken.
RefusedUntouched ==
    \A r \in Requests :
        answer[r].by \in {"normalize_path", "cors", "require_user_agent", "block_traffic"}
            => did[r] = {}

\* A rate-limit token is taken only for a request that the other layers let through:
\* requests refused for their credentials, origin or CSRF token drain nobody's budget.
RefusalsAreFree ==
    \A r \in Requests :
        "limiter" \in did[r]
            => answer[r].by \in {"none", "rate_limit", "handler", "catch_panic", "timeout"}

\* Whatever goes wrong inside the request-id layer (refusals, panics, handler errors),
\* the client's answer carries the request id; only the layers around it answer without.
IdOnAnswers ==
    \A r \in Requests :
        phase[r] \in {"sending", "answered"}
            => ("id" \in answer[r].added <=>
                   answer[r].by \notin {"normalize_path", "cors", "timeout"})

\* An error of the application comes in the format the client asked for, wherever inside
\* the request_format layer it was made.
ErrorsInClientFormat ==
    \A r \in Requests :
        IsAppError(kind[r], answer[r].by, answer[r].status) /\ answer[r].by # "normalize_path"
            => answer[r].format = kind[r].format

\* Answers are completed by the layers around the one that makes them: with the request id
\* from the request-id layer inwards, with the client's format where the answer is an
\* AppError (a bare status, a refusal in plain text and the 500 of a panic have none).
AnswersComplete == IdOnAnswers /\ ErrorsInClientFormat

\* Probes and assets stay cheap: an operational route, or no route at all, never decodes
\* a session, takes a rate-limit token or sends a cookie.
OpsStayCheap ==
    \A r \in Requests :
        kind[r].route \notin AppRoutes
            => did[r] \cap {"session", "limiter"} = {} /\ "cookie" \notin answer[r].added

\* The order of the layers keeps costs behind the checks that stand before them: what the
\* infrastructure refuses costs nothing, what the application refuses no rate-limit token
\* (authenticate, require_auth and csrf_protect do decode the session and may read users),
\* and what is not for the application neither (the health check does read users).
NothingUntilAdmitted == RefusedUntouched /\ RefusalsAreFree /\ OpsStayCheap

\* The handler of a protected route runs only for a live token, or for the session of a
\* live user who, when the method is unsafe, sent no foreign Origin and that session's
\* CSRF token; never for a request any block rule names.
ProtectedHandlersGuarded ==
    \A r \in Requests :
        LET k == kind[r]
        IN  "handler" \in did[r] /\ k.route \in ProtectedRoutes =>
                /\ k.cred \in {"cookie", "bearer"}
                /\ k.agent = "plain" /\ k.ip \notin BlockedIps /\ k.route \notin BlockedRoutes
                /\ Unsafe(k) => k.origin # "foreign"
                /\ Unsafe(k) /\ k.cred = "cookie" =>
                      "right" \in {k.header, k.form} /\ k.header \in {"none", "right"}

\* Every request the metrics saw is a response counted or still counted in flight.
EveryRequestCounted == metrics.total = metrics.in_flight + metrics.responses

\* Request r is inside the metrics layer: counted on its way down, not yet on its way up.
InMetrics(r) ==
    LET i == IndexIn(r, "update_metrics")
    IN  \/ phase[r] \in {"down", "gone"} /\ depth[r] > i
        \/ phase[r] = "up" /\ depth[r] >= i

\* requests_in_flight counts the requests the metrics layer is running and those dropped
\* inside it when their client hung up, and nothing else: a refusal, a panic and a timeout
\* all take back what they added.
GaugeIsExact == metrics.in_flight = Cardinality({r \in Requests : InMetrics(r)})

\* However requests end, the counters agree with them: buckets and the instruments of
\* update_metrics stay in range, and none is taken for a request twice or not at all.
CountersAgree == TypeOK /\ EveryRequestCounted /\ GaugeIsExact

\* The head of an answer to every request is sent, or its client gives up, though its
\* handler may hang.
Answered == \A r \in Requests : (phase[r] = "down") ~> (phase[r] \in {"sending", "answered", "gone"})

\* No client holds the body of its answer for ever: the promise of the peers, not of the
\* server, which would wait.
ClientsRead == \A r \in Requests : []<>(phase[r] # "sending")

\* Once told to stop, the server drains and stops, though handlers may hang, if its clients
\* take their answers.
Drains == ClientsRead => ((server = "draining") ~> (server = "stopped"))

\* No handler holds anything for ever: TimeoutLayer bounds the time to the head of every
\* answer, and graceful shutdown is then held only by clients that do not read theirs.
EverythingEnds == Answered /\ Drains
=============================================================================
