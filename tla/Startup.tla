------------------------------- MODULE Startup -------------------------------
(***************************************************************************)
(* Starting a process: the commands of src/bin/main.rs, the configuration   *)
(* they read (src/config), App::new and build_handler.                      *)
(*                                                                          *)
(* A value of an environment variable is abstracted to what the code tells  *)
(* apart.  Variables are read in the order of the code; each reading, and   *)
(* each later stage of the start, is one step that succeeds, returns an     *)
(* error or panics.  A process that runs can then be asked for tokens of    *)
(* one rate-limit bucket, at the rate and burst it was configured with.     *)
(*                                                                          *)
(* Left out are the variables that can only fail to parse, before anything  *)
(* is opened, or take a default: DEV_DOCKER, HEROKU, PORT, SERVER_THREADS   *)
(* and SERVER_CORE_THREADS (with which build_runtime panics at 0, also      *)
(* before), DOMAIN_NAME, storage and OAuth redirect variables (parsed when  *)
(* a login begins), and a value that is not Unicode, an error everywhere.   *)
(***************************************************************************)
EXTENDS Integers, Sequences, FiniteSets

CONSTANTS
    Environments,   \* environments a process may be started in
    MaxTime,        \* bound: seconds a running process is observed for
    NotSet

\* What a variable may hold, beyond "unset".  "blank" is empty or white space.
Values ==
    [APP_ENV             |-> {"development", "test", "production", "typo"},
     WEB_ALLOWED_ORIGINS |-> {"good", "not_a_header"},
     BLOCKED_IPS         |-> {"blank", "good", "one_bad"},
     BLOCKED_ROUTES      |-> {"blank", "good"},
     BLOCKED_TRAFFIC     |-> {"blank", "good", "no_equals", "bad_header", "no_such_variable",
                              "bad_regex", "blank_values"},
     SESSION_KEY         |-> {"short", "sample", "long"},
     OAUTH_CREDENTIALS   |-> {"id", "secret", "both"},
     TRUSTED_PROXIES     |-> {"blank", "networks", "addresses", "junk"},
     RATE_LIMITER        |-> {"typo"},       \* in RATE_SECONDS or BURST of any action
     METRICS_TOKEN       |-> {"blank", "good"},
     SENTRY_DSN          |-> {"blank", "good"},
     LOG_FORMAT          |-> {"json", "typo"},
     SESSION_COOKIE_SECURE |-> {"true", "false", "typo"},
     SECURITY_HSTS_ENABLED |-> {"true", "false", "typo"},
     DATABASE_URL        |-> {"main", "not_a_url"},
     TEST_DATABASE_URL   |-> {"test"}]
Variables == DOMAIN Values

ASSUME StartupAssumption ==
    /\ \A e \in Environments : \A v \in Variables : e.vars[v] \in Values[v] \cup {"unset"}
    /\ \A e \in Environments : e.RATE_SECONDS \in Nat \cup {NotSet} /\ e.BURST \in Int \cup {NotSet}
    /\ MaxTime \in Nat
    /\ NotSet \notin Int /\ NotSet \notin [tokens : Int, last_refill : Int]

VARIABLES
    env,       \* the environment: .vars, and the two numbers of one limited action
    command,   \* "server", "background-worker" or "migrate"
    done,      \* stages passed
    status,    \* "starting", "running", "failed" or "panicked"
    touched,   \* what the process has changed or opened outside itself
    clock,     \* seconds it has been observed for
    bucket,    \* the rate_limit_buckets row, or NotSet
    admitted   \* history: requests the limiter let through

startVars == <<env, command, done, status, touched, clock, bucket, admitted>>

Get(v) == env.vars[v]

-----------------------------------------------------------------------------
(* The configuration                                                        *)

\* Mutant: without APP_ENV the process is in development.
OpenByDefault == IF Get("APP_ENV") = "unset" THEN "development" ELSE Get("APP_ENV")

\* Base::from_environment
AppEnv == IF Get("APP_ENV") = "unset" THEN "production" ELSE Get("APP_ENV")

\* Mutant: a malformed entry empties the list.
BlockedIpsOk == "ok"

\* parse_blocked_ips
ParseBlockedIps == IF Get("BLOCKED_IPS") = "one_bad" THEN "error" ELSE "ok"

\* parse_blocked_traffic and BlockCriteria::try_from
ParseBlockedTraffic ==
    IF Get("BLOCKED_TRAFFIC") \in {"no_equals", "bad_header", "no_such_variable", "bad_regex"}
    THEN "error" ELSE "ok"

\* Its result: a rule whose variable holds only blanks is dropped without a word.
TrafficRules == IF Get("BLOCKED_TRAFFIC") = "good" THEN {"rule"} ELSE {}

\* SESSION_KEY in Server::from_environment
SessionKey ==
    IF \/ Get("SESSION_KEY") = "unset"
       \/ AppEnv = "production" /\ Get("SESSION_KEY") \in {"short", "sample"}
    THEN "error" ELSE "ok"

\* The loop over provider_specs
OAuthProviders == IF Get("OAUTH_CREDENTIALS") \in {"id", "secret"} THEN "error" ELSE "ok"

\* parse_trusted_proxies.  IpNet parses networks only: an entry that is a bare address
\* is an error, and so are the two the code unwraps when there is no entry.
ParseTrustedProxies ==
    CASE Get("TRUSTED_PROXIES") \in {"addresses", "junk"} -> "error"
      [] Get("TRUSTED_PROXIES") = "blank"                 -> "panic"
      [] OTHER                                            -> "ok"

\* parse_rate_limiter_config: what is not a number is an error, any number is accepted
ParseRateLimiter == IF Get("RATE_LIMITER") = "typo" THEN "error" ELSE "ok"

\* require_non_empty
RequireNonEmpty(v) == IF Get(v) = "blank" THEN "error" ELSE "ok"

LogFormat == IF Get("LOG_FORMAT") = "typo" THEN "error" ELSE "ok"

\* required_var; what the origins are is only looked at by build_handler
AllowedOrigins == IF Get("WEB_ALLOWED_ORIGINS") = "unset" THEN "error" ELSE "ok"

\* The CORS layer of apply_axum_middleware: s.parse().unwrap()
BuildHandler == IF Get("WEB_ALLOWED_ORIGINS") = "not_a_header" THEN "panic" ELSE "ok"

\* Mutant: TEST_DATABASE_URL is a fallback in every environment.
TestDatabaseAnywhere ==
    IF Get("DATABASE_URL") # "unset" THEN Get("DATABASE_URL")
    ELSE IF Get("TEST_DATABASE_URL") # "unset" THEN "test" ELSE "default"

\* DatabaseConfig::from_environment
DatabaseUrl ==
    IF Get("DATABASE_URL") # "unset" THEN Get("DATABASE_URL")
    ELSE IF AppEnv = "test" /\ Get("TEST_DATABASE_URL") # "unset" THEN "test" ELSE "default"

\* connect_url
ConnectUrl == IF DatabaseUrl = "not_a_url" THEN "error" ELSE "ok"

\* SESSION_COOKIE_SECURE in apply_app_middleware
SecureCookies ==
    CASE Get("SESSION_COOKIE_SECURE") = "true"  -> TRUE
      [] Get("SESSION_COOKIE_SECURE") = "false" -> FALSE
      [] OTHER                                  -> AppEnv = "production"

\* hsts_enabled in SecurityHeadersConfig::for_env
HstsEnabled ==
    CASE Get("SECURITY_HSTS_ENABLED") = "true"  -> TRUE
      [] Get("SECURITY_HSTS_ENABLED") = "false" -> FALSE
      [] OTHER                                  -> AppEnv = "production"

\* The /debug route of build_axum_router
DebugRoute == AppEnv = "development"

\* parse_rate_limiter_config for ApiRequest, with its defaults
Rate == IF env.RATE_SECONDS = NotSet THEN 1 ELSE env.RATE_SECONDS
Burst == IF env.BURST = NotSet THEN 10 ELSE env.BURST

-----------------------------------------------------------------------------
(* The stages of each command                                               *)

\* Server::from_environment, in the order it reads
ConfigStages ==
    <<"base", "allowed_origins", "blocked_ips", "blocked_routes", "blocked_traffic", "session_key",
      "oauth", "trusted_proxies", "rate_limiter", "metrics_token", "sentry_dsn", "log_format">>

\* Mutant: the database is connected to first.
ConnectFirst ==
    [c \in {"server", "background-worker", "migrate"} |->
        CASE c = "server" -> <<"database_config", "connect">> \o ConfigStages \o <<"app", "handler", "bind">>
          [] c = "background-worker" -> ConfigStages \o <<"database_config", "connect", "app">>
          [] OTHER -> <<"database_config", "connect">>]

\* main: run_server, run_worker, run_migrate
Stages ==
    [c \in {"server", "background-worker", "migrate"} |->
        CASE c = "server" -> ConfigStages \o <<"database_config", "connect", "app", "handler", "bind">>
          [] c = "background-worker" -> ConfigStages \o <<"database_config", "connect", "app">>
          [] OTHER -> <<"database_config", "connect">>]

Stage == Stages[command][done + 1]

\* How a stage may end: opening the database, creating the storage directory and
\* binding the port may also fail for reasons outside the process.
Outcomes(stage) ==
    CASE stage = "base"            -> {IF AppEnv = "typo" THEN "error" ELSE "ok"}
      [] stage = "allowed_origins" -> {AllowedOrigins}
      [] stage = "blocked_ips"     -> {ParseBlockedIps}
      [] stage = "blocked_routes"  -> {"ok"}
      [] stage = "blocked_traffic" -> {ParseBlockedTraffic}
      [] stage = "session_key"     -> {SessionKey}
      [] stage = "oauth"           -> {OAuthProviders}
      [] stage = "trusted_proxies" -> {ParseTrustedProxies}
      [] stage = "rate_limiter"    -> {ParseRateLimiter}
      [] stage = "metrics_token"   -> {RequireNonEmpty("METRICS_TOKEN")}
      [] stage = "sentry_dsn"      -> {RequireNonEmpty("SENTRY_DSN")}
      [] stage = "log_format"      -> {LogFormat}
      [] stage = "database_config" -> {IF AppEnv = "typo" THEN "error" ELSE "ok"}
      [] stage = "connect"         -> {ConnectUrl, "error"}
      [] stage = "handler"         -> {BuildHandler}
      [] OTHER                     -> {"ok", "error"}

\* What it touches when it succeeds.
Opens(stage) ==
    CASE stage = "connect" -> {"database"}
      [] stage = "app"     -> {"storage"}
      [] stage = "bind"    -> {"port"}
      [] OTHER             -> {}

StartInit ==
    /\ env \in Environments
    /\ command \in {"server", "background-worker", "migrate"}
    /\ done = 0 /\ status = "starting" /\ touched = {}
    /\ clock = 0 /\ bucket = NotSet /\ admitted = 0

\* One stage ends well; after the last one the command runs.
Pass ==
    /\ status = "starting" /\ "ok" \in Outcomes(Stage)
    /\ done' = done + 1
    /\ status' = IF done + 1 = Len(Stages[command]) THEN "running" ELSE "starting"
    /\ touched' = touched \cup Opens(Stage)
    /\ UNCHANGED <<env, command, clock, bucket, admitted>>

\* One returns an error, which ends main, or panics.
Fail ==
    /\ status = "starting"
    /\ \E o \in Outcomes(Stage) \ {"ok"} :
          status' = IF o = "panic" THEN "panicked" ELSE "failed"
    /\ UNCHANGED <<env, command, done, touched, clock, bucket, admitted>>

-----------------------------------------------------------------------------
(* One bucket of the configured limiter                                     *)

AtMost(a, b) == IF a <= b THEN a ELSE b
NotBelowZero(a) == IF a >= 0 THEN a ELSE 0

\* Mutant: a new bucket holds burst tokens after the request that made it.
FullBucket == [tokens |-> Burst, last_refill |-> clock]

\* The row check_rate_limit inserts
NewBucket == [tokens |-> Burst - 1, last_refill |-> clock]

\* The row it updates.  PostgreSQL refuses to divide by a rate of zero; in SQLite the
\* quotient is NULL, no WHEN holds and the ELSE branches apply: no token either way.
Taken(b) ==
    IF Rate = 0 THEN [b EXCEPT !.tokens = -1]
    ELSE LET gained == (clock - b.last_refill) \div Rate
             have   == NotBelowZero(b.tokens) + gained
         IN  [tokens      |-> IF have >= 1 THEN AtMost(have, Burst) - 1 ELSE -1,
              last_refill |-> b.last_refill + gained * Rate]

Take ==
    /\ status = "running" /\ command = "server" /\ MaxTime > 0
    /\ admitted <= Burst + MaxTime
    /\ bucket' = IF bucket = NotSet THEN NewBucket ELSE Taken(bucket)
    /\ admitted' = IF bucket'.tokens >= 0 THEN admitted + 1 ELSE admitted
    /\ UNCHANGED <<env, command, done, status, touched, clock>>

Tick ==
    /\ status = "running" /\ command = "server" /\ clock < MaxTime
    /\ clock' = clock + 1
    /\ UNCHANGED <<env, command, done, status, touched, bucket, admitted>>

StartNext == Pass \/ Fail \/ Take \/ Tick

StartSpec == StartInit /\ [][StartNext]_startVars

-----------------------------------------------------------------------------
(* Properties                                                               *)

\* Type correctness: the bucket of the limiter stays in its range at every accepted burst.
StartTypeOK ==
    /\ env \in Environments
    /\ done \in 0 .. Len(Stages[command])
    /\ status \in {"starting", "running", "failed", "panicked"}
    /\ touched \subseteq {"database", "storage", "port"}
    /\ clock \in 0 .. MaxTime
    /\ bucket # NotSet => bucket.tokens \in -1 .. NotBelowZero(Burst) \cup {Burst - 1}

Runs == status = "running" /\ command # "migrate"

\* What the operator asks for: the variable of the control is not left out or left blank.
\* A blank credential counts, and so does a rule that names a variable of blanks.
Asked(v) == Get(v) \notin (IF v \in {"METRICS_TOKEN", "SENTRY_DSN"} THEN {"unset"} ELSE {"unset", "blank"})
Controls == {"BLOCKED_IPS", "BLOCKED_ROUTES", "BLOCKED_TRAFFIC", "TRUSTED_PROXIES", "RATE_LIMITER",
             "OAUTH_CREDENTIALS", "METRICS_TOKEN", "SENTRY_DSN"}

\* What the configuration holds is the whole of it.
InForce(v) ==
    CASE v = "BLOCKED_TRAFFIC"   -> TrafficRules # {}
      [] v = "TRUSTED_PROXIES"   -> Get(v) = "networks"
      [] v = "OAUTH_CREDENTIALS" -> Get(v) = "both"
      [] OTHER                   -> Get(v) = "good"

\* No control an operator asked for is lost on the way: a process that runs blocks every
\* address, route and header it was given, guards its metrics with the token it was given,
\* trusts only networks it was given, limits at the numbers and signs in with whole
\* credentials it was given.  The one exception is a BLOCKED_TRAFFIC rule whose variable
\* holds only blanks: the process runs, and blocks nothing by it.
NoControlIsLost ==
    Runs => \A v \in Controls :
        Asked(v) => InForce(v) \/ (v = "BLOCKED_TRAFFIC" /\ Get(v) = "blank_values")

\* Unless it says so, a process is a production one: without APP_ENV it signs cookies
\* with a private key, marks them Secure and sends HSTS unless told not to, has no debug
\* route and never opens the test database.
ProductionUnlessTold ==
    Runs /\ Get("APP_ENV") \notin {"development", "test"} =>
        /\ Get("SESSION_KEY") = "long"
        /\ Get("SESSION_COOKIE_SECURE") # "false" => SecureCookies
        /\ Get("SECURITY_HSTS_ENABLED") # "false" => HstsEnabled
        /\ ~DebugRoute

\* The test database is opened, served from or migrated in the test environment only.
TestDatabaseInTestsOnly ==
    "database" \in touched /\ DatabaseUrl = "test" => Get("APP_ENV") = "test"

\* A configuration that is refused while it is read has no effect.  What stops a server or
\* a worker after it has opened anything is the storage or the port, for reasons outside the
\* configuration, or an allowed origin that is no header value: build_handler panics on it
\* with the database and the storage open.
RefusedBeforeEffects ==
    status \in {"failed", "panicked"} /\ command # "migrate" /\ touched # {} =>
        \/ Stage \in {"app", "bind"}
        \/ Stage = "handler" /\ Get("WEB_ALLOWED_ORIGINS") = "not_a_header"

\* A control the environment asks for is in force in the process that runs, or the process
\* stops where it reads it, with nothing opened; the exceptions are the two named above.
InForceOrRefused == NoControlIsLost /\ RefusedBeforeEffects

\* Development and test settings, the test database among them, are reached only by
\* asking for that environment.
ProductionByDefault == ProductionUnlessTold /\ TestDatabaseInTestsOnly

\* Whatever rate and burst are configured, zero and below included, the limiter lets
\* through at most the burst and what the time since can have earned.
EdgesLimit ==
    admitted <= NotBelowZero(Burst) + (IF Rate = 0 THEN 0 ELSE clock \div Rate)

\* Every rate and burst that parse_rate_limiter_config accepts leaves a limiter that works:
\* its row stays in range and it admits no more than configured.
EveryLimitWorks == StartTypeOK /\ EdgesLimit
=============================================================================
