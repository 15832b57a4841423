------------------------------- MODULE MCPages -------------------------------
(***************************************************************************)
(* Instances of Pages for TLC.  The variables that meet in one header are   *)
(* tried in every combination; the others in every combination of values    *)
(* that can and cannot be read.                                             *)
(***************************************************************************)
EXTENDS Pages

CONSTANTS t1, t2

AllUnset == [v \in SettingNames |-> IF v = "APP_ENV" THEN "production" ELSE "unset"]

MCPolicies ==
    {[AllUnset EXCEPT !.CSP_MODE = c, !.FRAME_OPTIONS = f, !.FRAME_ANCESTORS = a] :
        c \in SettingValues.CSP_MODE, f \in SettingValues.FRAME_OPTIONS, a \in SettingValues.FRAME_ANCESTORS}

MCTransport ==
    {[AllUnset EXCEPT !.APP_ENV = p, !.HSTS_ENABLED = h, !.HSTS_MAX_AGE = m, !.HSTS_SUBDOMAINS = s,
                      !.HSTS_PRELOAD = l] :
        p \in SettingValues.APP_ENV, h \in SettingValues.HSTS_ENABLED, m \in SettingValues.HSTS_MAX_AGE,
        s \in SettingValues.HSTS_SUBDOMAINS, l \in SettingValues.HSTS_PRELOAD}

MCPrivacy ==
    {[AllUnset EXCEPT !.REFERRER_POLICY = r, !.PERMISSIONS_POLICY = p] :
        r \in SettingValues.REFERRER_POLICY, p \in SettingValues.PERMISSIONS_POLICY}

MCSettings == MCPolicies \cup MCTransport \cup MCPrivacy

\* With the default settings two tabs overlap; with the others one tab asks for a page
\* and for one thing more.
Focus == settings = AllUnset \/ (minted <= 2 /\ request[t2] = Null)

MCSpec == PageInit /\ [][PageNext /\ Focus']_pageVars
=============================================================================
