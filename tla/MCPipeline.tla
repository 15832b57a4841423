------------------------------ MODULE MCPipeline ------------------------------
(***************************************************************************)
(* Instances of Pipeline for TLC: every kind of request alone, and a few    *)
(* kinds side by side.                                                      *)
(***************************************************************************)
EXTENDS Pipeline, TLC

CONSTANTS near, far, r1, r2

Plain == [route |-> "home", preflight |-> FALSE, path |-> "inside", agent |-> "plain",
          ip |-> near, origin |-> "none", cred |-> "anonymous", header |-> "none", form |-> "none",
          format |-> "json"]

\* Every request, with the attributes that no layer of its route reads left plain.
MCEveryKind ==
    {k \in AllKinds :
        /\ k.path = "escapes" => k.route = "home" /\ ~k.preflight
        /\ k.route \notin AppRoutes => k.cred \in {"anonymous", "bearer"} /\ k.origin # "foreign"
        /\ ~Unsafe(k) \/ k.route \notin ProtectedRoutes => k.header = "none" /\ k.form = "none"
        /\ k.cred \notin {"cookie", "stale_cookie"} => k.header = "none" /\ k.form = "none"
        /\ k.ip = far => k.origin = "none" /\ k.agent = "plain"
        /\ k.format # "json" => k.origin # "allowed" /\ k.header = "none" /\ k.agent # "blocked"}

\* A request a layer limits, and one no layer does.
Limited == [Plain EXCEPT !.route = "list_posts"]
MCPair == {Limited, [Plain EXCEPT !.route = "health"]}

MCKinds == r1 :> MCEveryKind @@ r2 :> MCPair

\* Every request alone, and a limited one side by side with either of these.
Alone == phase[r2] = "unsent"
Paired == kind[r1] = Limited

MCFairSpec == Init /\ [][Next /\ (Alone \/ Paired)']_vars /\ Fairness
=============================================================================
