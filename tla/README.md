# A TLA+ model of axum-kickoff

axum-kickoff is a template for web applications in Rust: an axum server with
sessions, OAuth login, API tokens, a database-backed rate limiter, file storage
and a background-job worker. This directory holds TLA+ modules translated from
its source, TLC configurations that check them on small instances, and TLAPS
proofs of the most important properties for every instance. Paths below are
relative to the repository root.

## 1. Inventory

| Part | State | Operations | What is hard | What makes it correct |
|---|---|---|---|---|
| Job queue (`src/worker/runner.rs`, `models/background_job.rs`) | table `background_jobs`; per runner the captured `now`, the claimed row, the handler's result, `last_cleanup_enqueue` | `run`, `run_once`, `reserve_next`, `delete_job`, `update_job`, `mark_job_dead`, `enqueue_scheduled_jobs` | several runners, leases that expire while the handler runs, crashes, lost COMMIT acknowledgements, clocks of several hosts | an unexpired lease is never lost; a settled row never changes; the retry budget is exact; nothing is stranded; at-least-once; every job ends |
| Producers (`src/app.rs`) | the same table | `enqueue_job*` | none beyond the INSERT | rows start unclaimed and due |
| Rate limiter (`src/rate_limiter.rs`) | table `rate_limit_buckets` | `check_rate_limit`, `clear_key`, `clear_all` | the clock is read before the statement; rounding; deletion by the cleanup; a rate or burst of zero | no window admits more than the configured rate and burst; no drift; whoever waits one rate interval is served |
| Cleanup job (`src/worker/jobs.rs`) | the same table | one DELETE | races with the limiter | deletion never hands out extra tokens |
| Session middleware (`src/middleware/session.rs`) | a signed cookie in the browser that holds the whole session; a snapshot of it per request | decode, handlers' `insert`/`remove`/`clear`, write back when dirty | concurrent requests of one browser overwrite each other | what a response writes derives from what its request read |
| OAuth login (`src/controllers/auth.rs`, `src/oauth.rs`) | session entries `oauth_state`, `oauth_pkce_verifier`, `oauth_provider`, `redirect_to`; table `users` | `oauth_authorize`, `oauth_callback`, `logout_*` | interleaved flows, early returns between the removals, look up then create | a callback completes only the flow its session started, for the same provider |
| CSRF and origin (`src/middleware/csrf.rs`) | `csrf_token` in the session | generate, verify | a form rendered from an older session | unsafe methods need the current token |
| Authentication (`src/middleware/auth.rs`, `src/util/auth.rs`) | tables `api_tokens`, `users` | bearer or session lookup, scopes, `last_used_at` | revocation and expiry racing with use; two credentials in one request | revoked, expired, inactive and locked are refused; one identity per request |
| Tokens (`src/controllers/token.rs`, `src/models/token.rs`) | `api_tokens` | create, list, revoke | read-then-write; damaged scope columns | a user only touches his own tokens, within the scopes of his credential |
| Posts (`src/controllers/post.rs`) | `posts` | create, update, publish, unpublish, delete, list | owner check and write are two statements; pages are separate queries | only the owner changes a post; no lost update; a deleted post stays deleted; stable pages |
| Storage (`src/storage.rs`) | files | `upload`, `delete`, `delete_all_with_prefix`, `list` | each is several file system calls | nothing outside the prefix is touched; a walk misses nothing that stays |
| Client address, paths (`src/middleware/real_ip.rs`, `normalize_path.rs`) | none | pure functions | proxies that append, add a line, replace; headers the client made up; `..` | the address is the client's where the proxies' contract lets its record arrive; a path is refused iff it escapes |
| Filters and pipeline (`block_traffic.rs`, `require_user_agent.rs`, `metrics.rs`, `middleware/mod.rs`, `router.rs`) | metrics, buckets | the layers of a request, in order | refusal at every layer, panics, timeouts, hang-ups, graceful stop | each refusal costs no more than the layers before it; protected handlers are guarded; every request is answered and counted |
| Security headers (`middleware/security_headers.rs`) | settings; a nonce per request | settings to headers, nonce to page | unreadable settings; overlapping requests; fragments | who frames is known for every setting, and scripts run as asked for; a page has its own nonce and no cache keeps it |
| Configuration, entry points (`src/config`, `src/bin/main.rs`) | environment | the stages of `server`, `background-worker`, `migrate` | unreadable values, the order of stages | a control asked for is in force or the process does not run (with one exception, section 3) |
| Database handle, errors, tracing, example pages | - | set-up and formatting | - | - |

The parts meet in the database, in `App` and in the layers around a handler:
producers and the worker's own scheduler insert rows that runners claim; the
cleanup job that a runner executes deletes rows the limiter uses; `Pipeline`
composes the filters, session, authentication, CSRF and limiter layers that the
other modules model one by one; sessions carry the login to every later request;
what `Startup` reads decides which controls are there at all.

## 2. Modules

    AtLeastOnceQueue        what the queue promises: the ledger of jobs
      ^ refines
    JobQueue                the table, the runners, the producers
      ^ extends
    JobQueueAttempts        + history of attempts
    JobQueueProofs          TLAPS proofs
    MCJobQueue              an instance for TLC (symmetry, bounds)
    QueueProgress           the same loop in relative time, for liveness

    RateLimiter             one bucket row, concurrent requests, the cleanup
      ^ RateLimiterProofs, MCRateLimiter

    Login                   browsers, cookies, requests, flows, users, CSRF tokens
      ^ LoginProofs, MCLogin
    SessionCodec            encode and decode of the session cookie
      ^ LoginProofs, MCRequestInputs

    Scopes                  scope columns and AuthCheck, as operators
      ^ ScopeChecks         every small column against every check
      ^ ApiTokens           authentication and the token endpoints
          ^ ApiTokensProofs, MCApiTokens

    Posts                   the posts table, overlapping changes, a reader
      ^ PostsProofs, MCPosts
    Storage                 a file tree and tasks that work on it
      ^ StorageProofs, MCStorage

    Pipeline                the layers of a request, and the server around them
      ^ PipelineProofs, MCPipeline
    ClientAddress           client, proxies, real_ip
    NormalizePath           one pass over the segments of a path
    MCRequestInputs         ClientAddress, NormalizePath, SessionCodec and ScopeChecks for TLC
    Pages                   settings to headers, nonces, browser tabs
      ^ MCPages
    Startup                 environment, configuration, the stages of a command
      ^ MCStartup
    InputsProofs            TLAPS proofs about ClientAddress, NormalizePath, ScopeChecks,
                            Startup and Pages

### JobQueue

`rows` is `background_jobs` with the existence of the row and `failed_at` folded
into `status`; `queue`, `job_type` and `data` are left out because no statement
of the runner changes them and a runner only ever sees its own queue. `workers`
holds what a runner keeps across an `await`: program counter, `now`, the claimed
id, the `retries` it read, the time the handler failed, `last_cleanup_enqueue`.
`effects` is the outside world: jobs whose handler has returned `Ok`.

A transaction is one action. `Poll` reads the clock, `Reserve` runs later: the
lease is computed from the older reading, as in `run_once`. On PostgreSQL
`FOR UPDATE SKIP LOCKED` makes rows that other open transactions hold invisible;
`RowLocks` chooses which ones, so a runner may see none, or not the first.
`HandlerOk`/`HandlerErr` end the handler (`HandlerErr` also stands for a payload
that does not deserialize and for an unregistered type), `Finalize` is the second
transaction with the branch of `run_once`. Failure: `ReserveError`,
`FinalizeError`, `EnqueueScheduledError` apply nothing; `ReserveUnacknowledged`
and the second choice in `EnqueueScheduled` apply the write and report an error;
`Stop` is a crash or the shutdown branch of `select!`, which drops `run_once`
wherever it stands. A restarted process is a new element of `Workers`, since
`Runner::new` draws a fresh UUID.

Time is a counter in ticks. `clock` is the slowest host; a reading is anything in
`clock..clock+MaxSkew`.

### RateLimiter

`bucket` is the row of one key or `None`; `reqs[r]` is the `now` a request
captured and has not used yet. `Arrive` reads the clock, `Take` runs the upsert
and looks at the returned tokens; `TakeUnacknowledged` and `TakeError` are the
two ways the statement fails, both refused by the caller. `Refill` keeps the
difference between the backends: PostgreSQL floors, SQLite adds 0.002 s and
truncates towards zero. A tick stands for a millisecond or a multiple of it:
SQLite's date functions work in whole milliseconds, so its last_refill is exact
on that grid.
`Cleanup` is the DELETE of the cleanup job with its own stale clock reading;
`Clear` is `clear_key`/`clear_all`. `since`, `admitted` and `born` are history
variables: `Observe` restarts the count at any moment, so `WindowBound` speaks
about every window and not only about windows that start with the program.

### Login

The server keeps no session, so the model has none either. `cookies[b]` is the
session that browser `b` holds, `reqs[r]` a request in flight with its own copy
(`session`), the `dirty` flag, and what its handler keeps across awaits. A
handler's work between two awaits is one action. `Deliver` is the end of the
session middleware together with the browser: a dirty copy replaces the whole
cookie, an empty one removes it, and responses arrive in any order. `Lose` drops
a request at any point (`TimeoutLayer`, a crash, a broken connection).

`oauth_authorize` draws `state` and `code_verifier` together, so both are
represented by the *flow*, an element of `Flows`. `Callback` runs `oauth_callback`
up to the token request: provider, state and verifier are removed one after the
other, and `Consumed` keeps the keys that a failed check did not reach.
`Exchange`/`ExchangeError` are the calls to the provider, `LookupUser`,
`UpdateUser`, `CreateUser`, `DbError` the statements on `users`, with the unique
key on (provider, provider_user_id). `Complete` is the end of the handler.
`Page` is any handler with a `PageContext`. `SubmitLogout`, `logout` and
`LogoutRefused` are the logout routes behind `require_auth`, `csrf_protect` and
`rate_limit`; a refusal by the limiter has the effect of `DbError`. `Approve`
(the provider) and `Sanction` (an administrator, the end of a lock) are external.
`minted`, `barred` and the session field `by` are history. The keys `user_login`
(display only) and the profile columns are left out. Every request is a browser's here;
bearer tokens are in `ApiTokens`.

### SessionCodec

`encode` and `decode` byte by byte: entries in any order, 0xff between them, 0xff
padding up to a multiple of three bytes. `Login` takes the cookie as lossless;
`RoundTrip` is the reason why it may. `Encoded` is what has been written after each entry
and `Split` the parts after each byte, both recursive functions: the loop of `encode` and
`slice::split`.

### QueueProgress

`JobQueue` counts time up and needs a bound; a liveness property needs time that
does not end. Here a row holds what is *left* of its lease and of its backoff, so
the state space is finite without a clock bound. Reading the clock and reserving
are one step; the rest is `run_once`. `Crash` is followed by a restart under a new
`worker_id`. `JobsFit` says whether handlers return before their lease ends.

### Scopes, ApiTokens

A scope column is NULL or a set of entries, a pattern a sequence of characters,
because its meaning is a matter of prefixes. `ApiTokens` runs `authenticate`,
`validate_token`, `enforce_authentication`, `csrf_protect` and one of
`create_token`, `list_tokens`, `revoke_token` statement by statement: `LookupToken`
keeps a snapshot of the row, `LoadOwner` reads the user and the clock, `Touch`
writes `last_used_at` with that earlier clock, `FindOwn` and `Revoke` are the two
statements of the revocation. Between any two of them `Tick` may let the token
expire, `Sanction` may bar its owner, and other requests act. `doomed` and `used`
are history; so are the row fields `made_by` and `ended_by`, the credential a row was created
and revoked with: a token, or the user whose session it was, so that a request acting on
another user's rows shows whichever credential it carries.

### Posts

A mutating handler is `Find` (the row by id and owner) and then `Write` or
`delete_post`, by id. `update!` writes the columns it names, on the row as it is by
then, and nothing if the row is gone. `list_posts` is one query per page; `reader`
is somebody who walks through the pages, with history of what was published all
along. `Refuse` ends a request without effect wherever it stands. `updated_at`, which
nothing reads back, is left out; title and content are one value.

### Storage

`fs` maps a path to `none`, `dir` or `file`; `tasks` are the calls under way. Each
file system call is a step: `CreateDirs` and `WriteFile` of an upload, `ReadDir` and
one step per entry of a walk, `RemoveTree` for the closing `remove_dir_all`, which
may fail half way and whose error is ignored. The path checks (`Safe`,
`NamesSomething`) come before the first call. `Finish` also stands for a call whose
future is dropped. A directory is read at once, as `read_dir` does for small ones.

### Pipeline

A request is what the layers tell apart: route, preflight, path, user agent, address,
origin, credential, CSRF header and form, accepted format. `LayersOf` is the stack of
its route, outermost first, as `build_handler`, `apply_axum_middleware` and
`build_axum_router` compose it. A request descends one layer per step, is answered by
a layer or by the handler, and ascends through the layers it passed, which add
headers and count. Panics, the timer of `TimeoutLayer`, hang-ups (the future is
dropped where it stands) and `graceful_shutdown` are steps of their own. `did`
records what a request made the application do. `Deliver` is the head of the answer, after
which its body is `sending` until the client has taken it (`Receive`): no layer bounds that
time, and `Stop` waits for it, as `axum::serve` does for its connections.
`BlockedRoutes` names routes with a `MatchedPath`, which a file under `/static` has not;
`Downloads` are the paths that end in `download`, wherever they lead.

### ClientAddress, NormalizePath

A request leaves the client with any headers, passes proxies that record the peer
they see (append to the line, add a line, replace, or use `Forwarded`), and arrives at
`extract_real_ip`. A line that is not text is dropped whole, as `to_str` does. An entry
knows its form: an address, an address with a port, or neither. `sent` (the addresses the
client wrote itself) and `kept` (the first proxy's record is still there and on a line that
is text) are history. `NormalizePath` is the
stack pass of `normalize_path`, checked against a definition that counts.

### Pages

A setting is abstracted to what its parser tells apart, the unreadable values
included. The headers are generated as in `apply_headers`; what the browser makes of
them (the nonce of a script, frame-ancestors before X-Frame-Options) is external.
Tabs ask concurrently for what `Kinds` lists: pages and fragments rendered from a
`PageContext`, the pages of errors, which `build_error_response` gives a context with a nonce
of their own, error fragments, JSON, and files under `/static/`, HTML ones included. `stored`
holds the nonces in the bodies a cache may have kept.

### Startup

Each variable is read in the order of the code, and each reading may fail, panic or
fall back: the twelve stages of `ConfigStages` are those of `Server::from_environment`. Left out
are the variables that only parse or take a default (`DEV_DOCKER`, `HEROKU`, `PORT`, thread
counts, names, storage and OAuth redirect settings); they are listed in the module.
`Stages` lists what each command does before it runs. A running process can be asked for
tokens at the configured rate and burst, the accepted edge values 0 and below included.

## 3. Runs

| Run | Instance | Properties | Result |
|---|---|---|---|
| `job_queue` | one job, three runners (two after two ticks), lease of 1 tick, max_retries 4 with delays 1, 2, 2 (the cap is reached), 5 ticks; and two jobs of two priorities, two runners, SKIP LOCKED, clocks one tick apart | `LeaseHonored`, `RetryBudget`, `NoStranding`, `ExponentialPacing`, `AtLeastOnce` (refinement) | holds |
| `queue_progress` | two runners, two jobs, two crashes, lost finalizations, jobs that fit in their lease | `Settled` | holds |
| `attempts_not_bounded` | two runners, one job, max_retries 1: "once it has been attempted `max_retries` times it is marked dead" (`src/worker/runner.rs:16`) | `AttemptsBounded` | violated: see below |
| `rate_limiter_sqlite` | two requests in flight, 3 ticks per token, burst 2, clock readings up to 4 ticks old, 17 ticks, the cleanup | `WindowBound`, `NoDrift`, `RetryAfterHonoured` | holds |
| `login` | two browsers, two providers (one insists on PKCE), two flows, two tokens, a user who may be sanctioned | `LoginIsOwn`, `FlowKeysAgree`, `TokenPerLogin`, `OpenPagesStayValid`, `SanctionedStaysOut` | holds |
| `api_tokens` | two overlapping requests with one token while it expires, is revoked and its owner sanctioned; and, one request at a time, two users of whom one may be deleted, two tokens with four kinds of scopes, cookies and bearer strings mixed | `TypeOK`, `DeadOnArrival`, `LastUsedIsRecent`, `ActsAsItself`, `RevocationSticks` | holds |
| `posts` | two overlapping changes of one post by its owner and a stranger; and a reader of up to three posts that are created, published and deleted meanwhile | `TypeOK`, `NoLostWrite`, `OwnersOnly`, `WalkIsComplete`, `DeletedForGood` | holds |
| `storage` | two calls at once, of any of the four kinds, on a tree of six paths | `DeletesWhatItNames`, `ListIsComplete` | holds |
| `pipeline` | every kind of request alone, and a limited one next to another of its kind or to a health check, which share the bucket and the metrics; panics, hung handlers, timeouts, hang-ups, shutdown | `NothingUntilAdmitted`, `AnswersComplete`, `ProtectedHandlersGuarded`, `CountersAgree`, `EverythingEnds` | holds |
| `startup` | every command in every environment that differs from a good one in up to three variables; every rate in 0..2 and burst in -2..3 for 4 seconds | `InForceOrRefused`, `ProductionByDefault`, `EveryLimitWorks` | holds |
| `pages` | every combination of the settings that meet in one header; two tabs and four requests under the defaults | `OnlyAsOpenAsAsked`, `NonceServesOnce` | holds |
| `request_inputs` | up to three proxies and any small forwarding headers; paths of up to seven segments; session maps of up to two entries; every small scope column against every check | `ClientFound`, `PathIsNormalized`, `RoundTrip`, `ScopesOnlyRestrict` | holds |

What they say:

* *Queue.* No runner loses a lease that no clock says has expired. A live row has
  budget left and a dead one has used it exactly. Every live row becomes claimable by
  the passing of time alone, and none is retried before its backoff has passed. The
  queue implements `AtLeastOnceQueue`: a job leaves it only after it succeeded or after
  `max_retries` counted failures. In the end every job leaves it (`Settled`).
* *Limiter.* No window of time admits more than burst and rate allow, and idle time is
  never forgotten. Whoever leaves a key alone for one rate interval, which is what a refusal
  tells the client to do (`Retry-After`, `util/errors.rs:242`), is served. That a token in the
  row is usable by any request that finds it is *not* so, see below.
* *Login.* A browser is logged in only through a flow it started and an approval given
  to that flow; provider, state and verifier in a session are of one flow; a CSRF token
  belongs to one login; a form stays valid while its login lasts; whoever was
  sanctioned when looked at does not get in.
* *Tokens.* What is sent after a revocation, an expiry or a sanction never acts;
  `last_used_at` does not fall behind; a request has one identity and stays within its
  rights: rows are created, revoked and shown only for their owner, with a session of his or a
  token of his that covers it; nothing undoes a revocation.
* *Posts.* No change undoes another column's, is made by anyone but the owner or brings
  a deleted post back; a walk through the pages misses no post unless one before the
  position disappears, and repeats none unless one appears.
* *Storage.* A deletion takes what its path names and nothing else, and the root stays;
  a list has every file that was there throughout.
* *Pipeline.* What an infrastructure layer refuses decodes no session, reads no user and
  takes no rate-limit token; what `authenticate`, `verify_origin`, `require_auth` or
  `csrf_protect` refuses takes no token, though the session is decoded by then and users may
  have been read; routes outside the application decode no session and take no token (`/health`
  does read users). Answers made inside the request-id layer carry the id (those of
  `normalize_path`, CORS and the timeout are made outside), and `AppError`s made inside
  `request_format` have the client's format (bare statuses, plain-text refusals and the 500 of a
  panic have none). A protected handler runs only for a live credential with its CSRF token
  and origin; metrics and buckets agree with what happened (a request dropped by a
  hang-up stays counted as in flight, see below). Every request comes to the head of an answer
  or its client hangs up, and a server that is told to stop does, if its clients take their answers.
* *Start.* A control that is asked for is in force, or the process does not run; the one
  exception is a `BLOCKED_TRAFFIC` rule whose variable holds only blanks. A configuration
  that is refused while it is read has opened nothing; the one that is refused later, an allowed
  origin that is no header value, panics with the database and the storage open.
  Development settings need asking for; every rate and burst the parser accepts limits.
* *Pages.* Foreign scripts run only under a policy that asks for them. Other sites frame a
  page if they are the ancestors the operator named and the policy sent has them, or if it has
  none and the frame option is `allow-from`: then every site may. A setting that cannot be
  read counts as unset. No two pages share a nonce, pages of errors included, and no body with a
  nonce is kept by a cache.
* *Inputs.* The address is the client's if the first proxy's record of it arrives (no later
  proxy replaces the header, and it is not appended to a line that is not text); otherwise it
  is the client's, the connecting proxy's or one the client wrote itself, and nobody else's.
  A path is refused iff it escapes; what a cookie encodes it decodes; narrowing or damaging
  scopes never gains anything.

Several properties are conjunctions of named parts (`NothingUntilAdmitted` is
`RefusedUntouched`, `RefusalsAreFree` and `OpsStayCheap`, and so on); every part has its
own mutant of the modelled code that breaks it. Type correctness of `JobQueue`,
`RateLimiter`, `Login`, `ApiTokens` and `Posts` is proved (section 4); in `Storage`,
`Pipeline`, `Startup` and `Pages` it is a part of one of the properties, which are proved too.

Bounds. The MC modules explore the union of several focused instances: their next-state
relation is the module's, restricted to steps that stay in one of the cases the table
names (`OneJob` and `TwoJobs`, `Changing` and `Reading`, ...). Three runners are the
fewest with which a lease is taken over from a runner that itself took it over, for which
the first two ticks suffice (any number may crash, at most two run at once later); five
ticks are enough for three failures with their backoff and for an expired lease in
between. The history of one bucket repeats once it is full again, after `Burst * Rate`
ticks; 17 ticks contain a full refill, a deletion by the cleanup and a second burst. Two
requests of one browser are what it takes for a response to overwrite another; two
flows and two tokens allow a second login after a first, or one flow that overtakes
another. When a second browser or provider, a second kind of sanction or a redirect is
involved requests come one at a time, which is enough for a callback URL to reach the wrong browser, since the server keeps
nothing between requests.

`api_tokens` has three ticks with an hour of one tick: enough for a refresh, a stale row
and an expiry between two statements of the other request; the owner is barred and
reinstated at the first of them, where both requests can already be under way. Changes in `posts` overlap on
one row, since statements name one id; the reader has three posts, so that there are
pages before and behind it, and two instants, so that ties occur; it reads while one
request at a time changes what is published (an update changes no page boundary). The tree of `storage`
has files and directories at two levels below the prefix and one outside. `pipeline`
sends every kind alone, because refusals depend on no other request but through the
bucket. Three changed variables in `startup` cover every pair that the code relates and
one more. Three proxies give a first, a middle and a last one; paths of seven segments
climb and descend three levels; two entries of up to two characters produce every amount
of padding of a cookie, after an empty and after a non-empty last value. Every bound is a
named constant.

Deadlock is checked for login, tokens, posts and storage. It is not for the queue and the
limiter, whose clock is bounded, nor for pipeline, pages, start and inputs, where each
request or process really ends.

Fairness. `QueueProgress` assumes weak fairness of time and of each runner's polling
and handlers, since `run` loops for ever and a handler is awaited; and strong fairness
of the finalization, i.e. a database that is asked again and again does not fail every
time. Crashes are finitely many. `JobsFit` is not guaranteed by the code: it is the
operator's choice of `visibility_timeout`; without it a job slower than its lease is
passed back and forth between two runners for ever. `Pipeline` assumes that the layers
outside the timeout run, that the timer fires, that an answer ascends and its head is sent,
and that a drained server stops; nothing is assumed of handlers, which may hang: `EverythingEnds`
rests on `TimeoutLayer`. Nor is anything assumed of clients: that they take the bodies of
their answers is the hypothesis `ClientsRead` of `Drains`, because the server waits for
those that do not.

The disagreement that `attempts_not_bounded` shows: a runner counts *reported failures*.
An attempt that ends in a crash, in a shutdown, or after the lease was lost leaves
`retries` as it was, so a payload that kills its worker is attempted without limit.

Other differences between code and documentation that the modelling brought up; the
modules follow the code, and no run is about them:

* "If tokens are available, request proceeds" (`docs/RATE_LIMITING.md:25`) has exceptions.
  On PostgreSQL a request that read the clock just before another request
  refilled the bucket computes a small negative elapsed time; `FLOOR` turns it
  into -1, which eats the token in the row and denies the request. SQLite
  truncates to 0 and admits it, unless the reading is a whole interval old: that costs
  a token there too, and no code bounds its age below an interval (one second by default).
* `oauth_authorize` stores `redirect_to` only when it is given one and never
  removes an old one. After an abandoned attempt, one started without
  `redirect_to` lands on the page of the abandoned one. The links on `/login`
  always pass the parameter, so this takes a client that calls the endpoint
  itself.
* A request sent before a logout and answered after it, for example
  `oauth_authorize` from another tab, writes back the map it decoded, `user_id`
  included. The browser is logged in again although the logout was confirmed.
  Sessions are not kept on the server, so nothing can revoke the old cookie.
* Two requests that read a stale `last_used_at` both refresh it, although the comment
  promises one write per hour.
* `list_posts` lists everybody's published posts, not those of the current user.
* `delete_all_with_prefix` removes files uploaded behind its walk without reporting
  them; `list` reports a directory that vanished during the walk as a
  file and fails on a prefix that names one file.
* `requests_in_flight` is never decremented for a client that hangs up.
* Preflight answers, 408s and refused paths carry no security headers; the 400 for an
  escaping path is JSON for everybody; a missing user agent is a 403, not a 400;
  `/health` queries `users`.
* `SECURITY_FRAME_OPTIONS=allow-from:URL` is documented as allowing one URL
  (`docs/CONFIGURATION.md:354`, `docs/MIDDLEWARE.md:215`). Browsers ignore `ALLOW-FROM`, so when
  the policy sent has no frame-ancestors (a permissive one, a custom one without them, or the fallback for one that
  is no header value) every site may frame the page.
* A `BLOCKED_TRAFFIC` rule whose variable holds only blanks is dropped without a word
  (`config/server.rs:445`). An allowed origin that is no header value is found out by an
  `unwrap` in `apply_axum_middleware` (`middleware/mod.rs:69`), after the database and the
  storage have been opened.
* A server told to stop waits without limit for a client that does not read the body of its answer.
* A production process starts without `DATABASE_URL`. A blank
  `TRUSTED_PROXIES` panics instead of falling back, and plain
  addresses, the documented format, are refused.
* The inline script of a fragment has the nonce of its own response and is refused by
  the policy of the page it is swapped into;
  `SECURITY_FRAME_OPTIONS=sameorigin` has no effect beside the default policy.
* Two proxies that both replace `X-Forwarded-For`, which the contract allows, leave only
  trusted entries in it, and one that appends to a line that is not text loses its record
  with that line; the address is then taken from `Forwarded`, which neither
  wrote, although `real_ip.rs:28` says the client's own entries are never selected. `X-Real-IP` is never read.
* A job slower than its lease is passed back and forth for ever without an attempt being
  counted.

## 4. Proofs

**JobQueueProofs** proves, for any sets of workers and jobs and any timeouts,
`TypeOK`, `LeaseHonored`, `RetryBudget`, `NoStranding`, `SettledForever` and the
refinement `AtLeastOnce`. None of them is inductive. The finalization acts on the
strength of `locked_by = worker_id` alone, so what is needed is `ClaimIsCurrent`:
a runner that finds its own id in the row finds the claim it made, with its lease
and with the `retries` it read. That in turn holds because a runner holds at most
one claim at a time and the lease columns are written and cleared together
(`LeasePaired`). `LeaseKept` adds that a lease that cannot have expired on any
host's clock has not been taken over. `IndInv` is their conjunction; the refinement
uses it to show that a counted failure is really the next one and that a deleted
job had succeeded. `ExponentialPacing` needs `PacingInv` besides: a row is never leased
before its `run_at`, although `locked_until` alone decides once there has been a lease
(`LeasedWhenDue`), and a handler ends no earlier than the clock skew before its poll
(`EndsAfterPoll`), so each counted failure moves `run_at` by its whole backoff less the skew.
The sum of the backoffs is a recursive function; that it exists and obeys its equation is
proved first (`TotalBackoffDef`), by induction. Assumptions: the ranges in `QueueAssumption`, and that powers
of two are positive integers (`PowerAssumption`, an arithmetic fact the SMT
backend does not know; TLC evaluates it).

**RateLimiterProofs** proves `TypeOK` and `WindowBound` from `LimiterInv`, for
every rate, burst, retention time, lag and number of requests, on both backends.
The idea is a balance: what the current window has admitted plus the tokens on
hand is paid for by the burst, by the time up to `last_refill`, and by less than
one interval carried over (`Paid`); when the row is deleted, by time alone. The
retention time must be long enough for a bucket to fill up
(`Burst * Rate + MaxLag <= MaxAge`); the defaults (30 days, at most 180 s) satisfy
it by far. `TakenBounds` is the arithmetic heart: one statement never gives out
more than the row held plus what `last_refill` advanced by. `NoDrift` needs an
invariant of its own (`OnGrid`): `last_refill` is a whole number of intervals after
`born`, because a statement advances it by whole intervals and a deletion restarts both.
`RetryAfterHonoured` holds on both backends and for any lag. It needs `RefilledByStatement`: no
row's `last_refill` is later than the last statement on it, but for the 0.002 s that SQLite
adds to what has elapsed, and adds again when the next request looks; so a request that reads
the clock one interval after that statement finds at least one whole interval elapsed, and
a token to take whatever the row held.

**LoginProofs** proves `TypeOK`, `LoginIsOwn`, `FlowKeysAgree`, `TokenPerLogin`,
`OpenPagesStayValid` and `SanctionedStaysOut` for any number of browsers,
requests, providers, accounts and flows. They speak about cookies, but a cookie is
overwritten by whatever copy a request holds, so the invariant must hold of every
copy: `CookiesSound` and `RequestsSound` say the same of both. `CallbacksOwn`
carries the result of the state check across the awaits of the callback;
`FlowsStarted` says that approvals only exist for flows that were started;
`RedeemedOnce` that a code is spent by one request, which draws the flow's only
CSRF token (this is what makes open forms stay valid); `BarredWaiting` that a
sanctioned user's request has not passed its check. `LoginInv` is their
conjunction. Flows, approvals and tokens are only ever added, so soundness
survives them (`SoundGrows`); most steps move a single request (`QuietStep`).
Assumptions: `LoginAssumption` (the marker `None` is not a value of any set).

Its second half proves `RoundTrip` for sessions of any size and strings of any length: the
bounds `MaxString` and `MaxEntries` are arbitrary. `NextPart` is the heart: a separator
followed by text appends exactly that text to the parts already split off, because text has no
0xff. By induction over the entries (`EncodedParts`) the parts of what was written are
the keys and values in turn. Padding is at most two separators (`PaddedBy`), so it adds at
most an empty value and an empty key, at which `decode` stops
(`PaddedParts`, `DecodeParts`); and an order of a finite set of keys has each of them once
(`Ordered`), so no entry is lost or replaced. Assumption: `CodecAssumption` (strings are
bytes below 0xff, which is what UTF-8 uses).

Induction in both modules is by two lemmas about sets instead of predicates: `UpTo` (a
set with 0 and the successors of its members contains 0..N, by the pigeonhole principle) and
`Recursion` (a start and one function per step have a sequence of results), from which each
recursive function is shown to be what its definition says.

**PostsProofs** proves `TypeOK`, `OwnersOnly`, `NoLostWrite`, `DeletedForGood` and
`WalkIsComplete` for any number of users, posts and requests and any page size. The second
statement of a handler names the id alone, so the invariant `PostsInv` carries the first
statement's result across the gap: `RequestSound` says that the row a request is about to
write still has the owner it was found with, or is deleted, because no statement writes
`user_id`. `RowSound` ties a row to what was last written to each column. The walk
through the pages is about *ranks*: the rank of a published post is the number of
published posts before it in the order of `list_posts`, and a page is the posts whose
ranks fall in its window (`WindowIsSlice`). `WalkInv` says that every post published all
along whose rank is below the reader's offset has been seen, unless the table shrank in
front of the reader, and that everything seen has a rank below the offset, unless it
grew. A change moves the ranks of later posts by at most one, in the direction of what it
did (`RanksFollow`). Assumptions: `PostsAssumption` (the markers are no values, the page
size is a number).

**ApiTokensProofs** proves `TypeOK`, `DeadOnArrival`, `LastUsedIsRecent`, `ActsAsItself` and
`RevocationSticks` for any sets of users, tokens and requests. A request works with a
snapshot of its token that is several statements old, so `TokensInv` says how snapshot
and row still relate (`Snapshot`): owner and scopes are equal, because nothing writes them,
and `last_used_at` has not fallen back by more than a request's lifetime. `Placed` says
what a request has been through at each statement it can stand at, and `Stopped` that one
sent with a void credential has not got past the statement that finds out. For `last_used_at`
the invariant bounds the clock a request has read by its age (`Timely`), so a late write with
an old clock is still recent.
Assumption: `NullAssumption` (the marker is no value).

**PipelineProofs** proves `NothingUntilAdmitted`, `AnswersComplete`,
`ProtectedHandlersGuarded` and `CountersAgree` for any finite set of requests and any
non-empty choice of kinds (`PipelineAssumption`). The invariant `PipelineInv` reads the depth of a request in
the stack: how deep it has come bounds what it may have touched (`Touched`) and says which
checks it has passed (`Passed`); an answer on its way out says why it turned around and
how far (`Ascending`); and each counter is the size of the set of requests it stands for.
The order of the layers enters through the positions of the layers in `LayersOf`, computed
once per route.
For `EverythingEnds` the module proves the two premises that need no temporal reasoning: every
step of a request lowers a number of at most 36 and no other step touches it
(`RequestsMoveOn`), and a request in the stack can always take a step under one of the fairness
assumptions (`NothingIsStuck`: `CanMove` repeats the guards of those actions, since `ENABLED`
cannot be proved about). That fairness then brings every request to its end is TLC's part.

**StorageProofs** proves `DeletesWhatItNames` and `ListIsComplete` for any finite or infinite
set of paths that is closed under beginnings (`StorageAssumption`) and any number of
concurrent calls.
`StorageInv` says that `fs` is a tree (what exists has directories above it), that a task
only holds paths below its own, and that a walk is faithful: every file that has been there
throughout is reported already, among the entries at hand, or below an entry or a
directory still on the stack. The tree property is what makes the last alternative usable: a
directory that holds such a file cannot have vanished.

**InputsProofs** is about what the server is given: a request's address, path and scopes, and
the environment it is started in.
`ClientFound` holds for any number of proxies and any headers the client may send. It has two
parts: the client is found when its record arrives, and where it does not (`kept` is lost) nobody
is found but the client, the connecting proxy or an address the client wrote. The
invariant (`IInv`) follows the client's address: before the first proxy it is the peer;
after it, it is an entry that parses, on a line that is text, and everything to its right
is trusted (`Recorded`). `rfind` from the right then stops there (`RecordedIsFound`).
`LinesInOrder` is needed because a proxy that adds a line must not land on one that is
dropped. For the second part every entry of both headers is `Known`: the client's address, one
it wrote or a proxy's; what `rfind` returns exists because a non-empty set of positions has
a last one (`LastExists`, from the well-foundedness of the naturals). `PathIsNormalized` holds for any names and paths of any length. The reference
counts names and `..`; their difference is the depth of the walk after each segment. `PathInv`
says that the stack is as long as the depth, that the depth was never negative, and that level
`l` of the stack holds the segment after which the depth was `l` and below which it never fell
since (`At`). At the end the survivors are therefore in one-to-one correspondence with
the levels, in their order (`SurvivorsDescend`, `StackIsSurvivors`). `ScopesOnlyRestrict`
holds for all patterns, lists and checks: a pattern covers a set of names, a
column the union of what its patterns cover, and each check is monotone in that set.
Assumptions: `ClientAddressAssumption`, `NormalizePathAssumption` (the names are not
the special segments), `ScopesAssumption`, `ScopeChecksAssumption`.

Its second half is about `Startup` and `Pages`. `InForceOrRefused` and
`ProductionByDefault` hold for every environment. `StagesInv` says that every stage passed
has accepted its variable and that a process has touched only what a passed stage opens; the
order of the stages then does the rest, because in the server and in the worker the
stages of the configuration come before the first that opens anything (`ConfigFirst`); what
can stop a process after that is read off the remaining stages (`AfterOpening`): the storage, the
port, and the origin that is no header value. `EveryLimitWorks` holds for every rate,
burst and time. `LimitInv` is a balance: what was admitted and what is left, beyond the
burst, is paid for by the seconds up to `last_refill` (`Paid`). A new row holds the burst less
one, whatever the burst; a count below zero is refilled as if it were zero, and a rate of zero
never refills. These are the cases of the balance. For `Pages`, `PagesInv` says that the
nonces of all requests under way and all documents shown are different and that
a document rendered with one came with the headers for it, and that nothing a cache may keep
was rendered with one. `NonceServesOnce` follows;
`OnlyAsOpenAsAsked` is then a statement about the headers of one nonce, proved by cases on the
settings (`PolicyCases`, `ScriptsEnforced`, `FramesEnforced`). Assumptions:
`StartupAssumption`, `PagesAssumption`, `HeadersAssumption` (the values of the variables, and
that the marker is no value).

Only model-checked: liveness under fairness (`Settled`, `EverythingEnds`), which is outside the
prover's reach but for the premises of `EverythingEnds` named above. PostgreSQL's rounding in
the limiter is covered by the proofs, which hold for both backends, and by no run.

## 5. Not modelled

Every invariant and every action property of the passing runs is proved.

Left out for good: the database handle (the toasty library opens and pools
connections; transactions are atomic actions here), wording and layout of errors and
pages, log output and sampled pool gauges, the profile parsers of the providers,
downloads and public URLs of the storage, the counter and
contact examples, which keep nothing on the server. They keep no state that a property
could be about.
