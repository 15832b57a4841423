-------------------------------- MODULE Pages --------------------------------
(***************************************************************************)
(* What a browser is sent with a page: the security headers of              *)
(* src/middleware/security_headers.rs, the nonce that ties a page to its    *)
(* Content-Security-Policy, and the fragments HTMX swaps into a page that    *)
(* is already shown.                                                        *)
(*                                                                          *)
(* A setting is abstracted to what its parser tells apart: a value it knows, *)
(* one it cannot read ("typo"), an empty one ("blank", "custom_blank") and   *)
(* one that is read but is no header value ("bad", "custom_bad").  Nonces   *)
(* are numbers in the order they are made.  The requests of different tabs  *)
(* run concurrently.                                                        *)
(***************************************************************************)
EXTENDS Naturals, Sequences, FiniteSets

CONSTANTS
    Settings,    \* the environments a server may be started in
    Tabs,        \* browser tabs
    MaxMinted,   \* bound: nonces made
    Null

\* What each variable may hold.
SettingValues ==
    [APP_ENV            |-> {"production", "development"},
     CSP_MODE           |-> {"unset", "strict", "permissive", "custom", "custom_bad", "custom_blank", "typo"},
     FRAME_OPTIONS      |-> {"unset", "deny", "sameorigin", "allow_from", "allow_from_bad",
                             "allow_from_blank", "typo"},
     FRAME_ANCESTORS    |-> {"unset", "blank", "trusted", "bad"},
     HSTS_ENABLED       |-> {"unset", "true", "false", "typo"},
     HSTS_MAX_AGE       |-> {"unset", "zero", "typo"},
     HSTS_SUBDOMAINS    |-> {"unset", "true", "false", "typo"},
     HSTS_PRELOAD       |-> {"unset", "true", "false", "typo"},
     REFERRER_POLICY    |-> {"unset", "no-referrer", "unsafe-url", "typo"},
     PERMISSIONS_POLICY |-> {"unset", "permissive", "custom", "custom_bad", "custom_blank", "typo"}]
SettingNames == DOMAIN SettingValues

ASSUME PagesAssumption ==
    /\ \A e \in Settings : DOMAIN e = SettingNames /\ \A v \in SettingNames : e[v] \in SettingValues[v]
    /\ MaxMinted \in Nat
    /\ Null \notin Nat \cup SettingValues.FRAME_ANCESTORS

VARIABLES
    settings, \* the environment the server was started in
    minted,   \* nonces made so far
    request,  \* tab -> the request it waits for, or Null
    doc,      \* tab -> the document it shows, or Null
    stored    \* nonces in the bodies a cache on the way has kept

pageVars == <<settings, minted, request, doc, stored>>

-----------------------------------------------------------------------------
(* SecurityHeadersConfig::for_env                                           *)

\* .ok().and_then(|s| s.parse().ok()).unwrap_or(default)
Parsed(value, known, default) == IF value \in known THEN value ELSE default
ParsedBool(value, default) == IF value \in {"true", "false"} THEN value = "true" ELSE default

hsts_enabled(e) == ParsedBool(e.HSTS_ENABLED, e.APP_ENV = "production")

\* Mutant: a mode that is not known is permissive.
CspModeOpen(e) == Parsed(e.CSP_MODE, {"strict", "custom", "custom_bad"}, "permissive")

\* CspMode::from_str; "custom:" with nothing after it is an error
CspMode(e) == Parsed(e.CSP_MODE, {"strict", "permissive", "custom", "custom_bad"}, "strict")

\* FrameOptions::from_str
FrameOptions(e) == Parsed(e.FRAME_OPTIONS, {"deny", "sameorigin", "allow_from", "allow_from_bad"}, "deny")

\* Mutant: an empty value is used as it is.
BlankAncestors(e) == IF e.FRAME_ANCESTORS = "unset" THEN Null ELSE e.FRAME_ANCESTORS

FrameAncestors(e) == IF e.FRAME_ANCESTORS \in {"unset", "blank"} THEN Null ELSE e.FRAME_ANCESTORS

\* ReferrerPolicy::from_str
ReferrerPolicy(e) == Parsed(e.REFERRER_POLICY, {"no-referrer", "unsafe-url"}, "strict-origin-when-cross-origin")

\* PermissionsPolicy::from_str
PermissionsPolicy(e) == Parsed(e.PERMISSIONS_POLICY, {"permissive", "custom", "custom_bad"}, "restrictive")

-----------------------------------------------------------------------------
(* The headers.  A policy is the sequence of its directives.                *)

Directive(name, sources, nonces) == [name |-> name, sources |-> sources, nonces |-> nonces]
Plain(name, sources) == Directive(name, sources, {})

\* Mutant: the configured ancestors are appended as a second directive.
AppendedAncestors(e, nonce) ==
    CASE CspMode(e) = "strict" ->
            <<Plain("default-src", {"self"}), Directive("script-src", {"self"}, {nonce}),
              Plain("frame-ancestors", {})>>
            \o (IF FrameAncestors(e) = Null THEN <<>> ELSE <<Plain("frame-ancestors", {FrameAncestors(e)})>>)
      [] CspMode(e) = "permissive" ->
            <<Plain("default-src", {"self"}), Plain("script-src", {"self", "unsafe-inline", "unsafe-eval"})>>
      [] OTHER -> <<Plain("custom", {CspMode(e)})>>

\* generate_csp; the directives no property looks at are left out
GenerateCsp(e, nonce) ==
    CASE CspMode(e) = "strict" ->
            <<Plain("default-src", {"self"}), Directive("script-src", {"self"}, {nonce}),
              Plain("frame-ancestors", IF FrameAncestors(e) = Null THEN {} ELSE {FrameAncestors(e)})>>
      [] CspMode(e) = "permissive" ->
            <<Plain("default-src", {"self"}), Plain("script-src", {"self", "unsafe-inline", "unsafe-eval"})>>
            \o (IF FrameAncestors(e) = Null THEN <<>> ELSE <<Plain("frame-ancestors", {FrameAncestors(e)})>>)
      [] OTHER -> <<Plain("custom", {CspMode(e)})>>

\* HeaderValue::from_str(&csp) and its fallback
CspHeader(e, nonce) ==
    LET csp == GenerateCsp(e, nonce)
    IN  IF \E i \in DOMAIN csp : csp[i].sources \cap {"bad", "custom_bad"} # {}
        THEN <<Plain("default-src", {"self"})>> ELSE csp

\* generate_frame_options and its fallback
FrameOptionsHeader(e) == IF FrameOptions(e) = "allow_from_bad" THEN "deny" ELSE FrameOptions(e)

\* generate_hsts; Null when the header is not sent
HstsHeader(e) ==
    IF ~hsts_enabled(e) THEN Null
    ELSE [max_age    |-> IF e.HSTS_MAX_AGE = "zero" THEN "zero" ELSE "year",
          subdomains |-> ParsedBool(e.HSTS_SUBDOMAINS, TRUE),
          preload    |-> ParsedBool(e.HSTS_PRELOAD, FALSE)]

\* generate_permissions_policy and its fallback
PermissionsHeader(e) == IF PermissionsPolicy(e) = "custom_bad" THEN "three_denied" ELSE PermissionsPolicy(e)

\* What a request may be answered with: a page or a fragment rendered from a PageContext,
\* the page or, asked for by HTMX, the bare fragment of an error, JSON, or what ServeDir finds
\* under /static/: a script or a style sheet, or an HTML file.
Kinds == {"page", "fragment", "error", "hx_error", "json", "static", "static_html"}
IsHtml(kind) == kind \notin {"json", "static"}

\* build_error_response makes a PageContext of its own, with the nonce.
FromContext(kind) == kind \in {"page", "fragment", "error"}

\* A browser shows it in place of what it showed; an error fragment has HX-Reswap none.
IsDocument(kind) == kind \in {"page", "error", "static_html"}

\* Mutant: the content type is compared with its charset still on.
NoStoreExact(kind) == FALSE

\* Cache-Control in apply_security_headers
NoStore(kind) == IsHtml(kind) /\ kind # "static_html"

\* apply_security_headers
HeadersOf(e, nonce, kind) ==
    [csp         |-> CspHeader(e, nonce),
     frame       |-> FrameOptionsHeader(e),
     hsts        |-> HstsHeader(e),
     referrer    |-> ReferrerPolicy(e),
     permissions |-> PermissionsHeader(e),
     no_store    |-> NoStore(kind)]

\* The marker is none of the values that are made.
ASSUME HeadersAssumption ==
    \A e \in Settings, nonce \in 1 .. MaxMinted :
        /\ \A i \in DOMAIN CspHeader(e, nonce) : CspHeader(e, nonce)[i] # Null
        /\ \A kind \in Kinds : HeadersOf(e, nonce, kind) # Null

-----------------------------------------------------------------------------
(* What a browser makes of them                                             *)

\* The first directive of a name counts.
Sources(csp, name) ==
    LET at == {i \in DOMAIN csp : csp[i].name = name}
    IN  IF at = {} THEN Null ELSE csp[CHOOSE i \in at : \A j \in at : i <= j]

\* May an inline script run that carries this nonce?
ScriptRuns(csp, nonce) ==
    LET script == IF Sources(csp, "script-src") = Null THEN Sources(csp, "default-src") ELSE Sources(csp, "script-src")
    IN  script # Null => nonce \in script.nonces \/ "unsafe-inline" \in script.sources

Sites == {"self", "trusted", "other"}

\* Who may show the page in a frame: X-Frame-Options only counts when the policy has no
\* frame-ancestors, and browsers ignore ALLOW-FROM.
Framers(headers) ==
    IF Sources(headers.csp, "frame-ancestors") # Null
    THEN Sources(headers.csp, "frame-ancestors").sources
    ELSE CASE headers.frame = "deny"       -> {}
           [] headers.frame = "sameorigin" -> {"self"}
           [] OTHER                        -> Sites

-----------------------------------------------------------------------------
(* The requests                                                             *)

PageInit ==
    /\ settings \in Settings
    /\ minted = 0
    /\ request = [t \in Tabs |-> Null]
    /\ doc = [t \in Tabs |-> Null]
    /\ stored = {}

\* Mutant: the nonce of the request before.
OldNonce == minted

\* generate_nonce
GenerateNonce == minted + 1

\* security_headers_middleware: a nonce for the extensions and the task-local.  HTMX asks
\* for fragments from a page that is shown.
Ask(t, kind) ==
    /\ request[t] = Null /\ minted < MaxMinted
    /\ kind = "fragment" => doc[t] # Null
    /\ minted' = minted + 1
    /\ request' = [request EXCEPT ![t] = [kind |-> kind, at |-> "handler", nonce |-> GenerateNonce,
                                          body |-> Null, headers |-> Null]]
    /\ UNCHANGED <<settings, doc, stored>>

\* Mutant: one cell of the process holds the nonce of the latest request.
NonceOfTheProcess(t) == minted

\* current_csp_nonce, and the extension PageContext reads
CurrentCspNonce(t) == request[t].nonce

\* PageContext::from_request_parts and HtmlTemplate, or build_error_response
Render(t) ==
    /\ request[t] # Null /\ request[t].at = "handler"
    /\ request' = [request EXCEPT ![t].at = "rendered",
                                  ![t].body = IF FromContext(request[t].kind) THEN CurrentCspNonce(t) ELSE Null]
    /\ UNCHANGED <<settings, minted, doc, stored>>

\* The rest of security_headers_middleware
Apply(t) ==
    /\ request[t] # Null /\ request[t].at = "rendered"
    /\ request' = [request EXCEPT ![t].at = "sent",
                                  ![t].headers = HeadersOf(settings, request[t].nonce, request[t].kind)]
    /\ UNCHANGED <<settings, minted, doc, stored>>

\* HTMX puts a fragment into a document.
Swapped(d, body) == [d EXCEPT !.fragments = @ \cup {body}]

\* The answer arrives: a page takes the place of the document, a fragment is put into it
\* and stays under the headers the document came with.  A cache keeps what it may.
Show(t) ==
    /\ request[t] # Null /\ request[t].at = "sent"
    /\ LET r == request[t] IN
       /\ doc' = [doc EXCEPT ![t] =
             CASE r.kind = "fragment" -> Swapped(doc[t], r.body)
               [] IsDocument(r.kind)  -> [headers |-> r.headers, nonce |-> r.body, fragments |-> {}]
               [] OTHER               -> doc[t]]
       /\ stored' = IF r.headers.no_store THEN stored ELSE stored \cup ({r.body} \ {Null})
    /\ request' = [request EXCEPT ![t] = Null]
    /\ UNCHANGED <<settings, minted>>

PageNext == \E t \in Tabs : Render(t) \/ Apply(t) \/ Show(t) \/ \E kind \in Kinds : Ask(t, kind)

PageSpec == PageInit /\ [][PageNext]_pageVars

-----------------------------------------------------------------------------
(* Properties                                                               *)

\* Type correctness; the headers are there once, and only once, apply_headers has run.
PageTypeOK ==
    /\ settings \in Settings
    /\ minted \in 0 .. MaxMinted
    /\ \A t \in Tabs : request[t] # Null =>
          /\ request[t].kind \in Kinds /\ request[t].at \in {"handler", "rendered", "sent"}
          /\ request[t].nonce \in 1 .. minted
          /\ (request[t].at = "sent") = (request[t].headers # Null)
    /\ stored \subseteq 1 .. minted

Shown == {t \in Tabs : doc[t] # Null}
Rendered == {t \in Shown : doc[t].nonce # Null}

\* A rendered page, an error page included, and the policy it came with carry one nonce,
\* and no two pages share it, however their requests overlap: under the strict policy the
\* page's own scripts run and those of no other page do.
NonceOfItsOwn ==
    \A t, u \in Rendered :
        /\ CspMode(settings) = "strict" /\ FrameAncestors(settings) # "bad"
             => (ScriptRuns(doc[t].headers.csp, doc[u].nonce) <=> t = u)
        /\ doc[t].nonce = doc[u].nonce => t = u

\* A script without the page's nonce runs only if the operator chose another policy than
\* the strict one; a mode that cannot be read or sent does not open the policy.
ScriptsOnlyAsAsked ==
    \A t \in Shown : ScriptRuns(doc[t].headers.csp, 0) => settings.CSP_MODE \in {"permissive", "custom"}

\* Is the policy sent one that has frame-ancestors?  (A custom one is taken to have none.)
AncestorsSent(e) ==
    /\ FrameAncestors(e) # "bad"
    /\ CspMode(e) = "strict" \/ (CspMode(e) = "permissive" /\ FrameAncestors(e) # Null)

\* Which other sites may frame a page: the ancestors the operator names, if the policy sent
\* has them; none, if it has none and the frame option is deny or sameorigin; every site, if
\* it has none and the frame option is a readable ALLOW-FROM, which browsers ignore.
FramedOnlyAsAsked ==
    \A t \in Shown :
        LET framers  == Framers(doc[t].headers)
            anybody  == FrameOptions(settings) = "allow_from" /\ ~AncestorsSent(settings)
            named    == FrameAncestors(settings) = "trusted" /\ AncestorsSent(settings)
        IN  /\ "other" \in framers <=> anybody
            /\ "trusted" \in framers <=> named \/ anybody

\* A setting that cannot be read changes nothing: every answer has the headers it would
\* have with that variable unset.
UnreadableIsUnset ==
    LET clean == [v \in SettingNames |->
                     IF settings[v] \in {"typo", "blank", "custom_blank", "allow_from_blank"} THEN "unset" ELSE settings[v]]
    IN  \A t \in Tabs : request[t] # Null /\ request[t].at = "sent" =>
            request[t].headers = HeadersOf(clean, request[t].nonce, request[t].kind)

\* What a browser enforces, for every combination of settings, headers and fallbacks:
\* foreign scripts run only under a policy that asks for them, the sites that may frame are
\* exactly those above (with ALLOW-FROM and no ancestors in the policy that is every site,
\* not the one it names), and a setting that cannot be read counts as unset.
OnlyAsOpenAsAsked == ScriptsOnlyAsAsked /\ FramedOnlyAsAsked /\ UnreadableIsUnset

\* No cache keeps a body with a nonce in it: not a page or a fragment, which hold the
\* session's CSRF token too, and not the page of an error.  What caches may keep (JSON and
\* everything under /static/) is rendered without one.
ContextsNotStored == stored = {}

\* A nonce serves one page once: it is one that was made for the request, overlapping
\* requests do not share it and no cache brings a page with it back.
NonceServesOnce == PageTypeOK /\ NonceOfItsOwn /\ ContextsNotStored
=============================================================================
