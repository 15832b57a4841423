------------------------------ MODULE MCStartup ------------------------------
(***************************************************************************)
(* Instances of Startup for TLC: every environment that differs from a good *)
(* one in a few variables, and every small rate and burst.                  *)
(***************************************************************************)
EXTENDS Startup

CONSTANT Changes     \* bound: how many variables differ

Good == [v \in Variables |->
            CASE v = "WEB_ALLOWED_ORIGINS" -> "good"
              [] v = "SESSION_KEY"         -> "long"
              [] v = "DATABASE_URL"        -> "main"
              [] OTHER                     -> "unset"]

RECURSIVE Changed(_)
Changed(n) ==
    IF n = 0 THEN {Good}
    ELSE Changed(n - 1) \cup
         UNION {{[e EXCEPT ![v] = x] : e \in Changed(n - 1), x \in Values[v] \cup {"unset"}} :
                    v \in Variables}

MCChanged == {[vars |-> e, RATE_SECONDS |-> NotSet, BURST |-> NotSet] : e \in Changed(Changes)}

MCLimits == {[vars |-> Good, RATE_SECONDS |-> r, BURST |-> b] :
                r \in {NotSet} \cup 0 .. 2, b \in {NotSet} \cup -2 .. 3}

MCEnvironments == MCChanged \cup MCLimits

\* Only a process with the good variables is asked for tokens.
Focus == env \in MCLimits \/ (clock = 0 /\ bucket = NotSet)

MCSpec == StartInit /\ [][StartNext /\ Focus']_startVars
=============================================================================
