---------------------------- MODULE NormalizePath ----------------------------
(***************************************************************************)
(* normalize_path of src/middleware/normalize_path.rs: one pass over the    *)
(* segments of a path with a stack, one step per segment, and the           *)
(* middleware that answers 400, rewrites the request or leaves it alone.    *)
(*                                                                          *)
(* A path is the sequence of its segments between slashes; which name a     *)
(* segment has does not matter beyond "", "." and "..".  An absolute path   *)
(* starts with an empty segment.                                            *)
(***************************************************************************)
EXTENDS Integers, Sequences, FiniteSets

CONSTANTS
    Names,      \* ordinary segments
    MaxSegments   \* bound: segments of a path

ASSUME NormalizePathAssumption ==
    /\ Names \cap {"", ".", ".."} = {}
    /\ MaxSegments \in Nat \ {0}

Segments == Names \cup {"", ".", ".."}
AbsolutePaths == {p \in UNION {[1 .. n -> Segments] : n \in 1 .. MaxSegments} : p[1] = ""}

VARIABLES
    path,      \* the path asked for
    next,      \* the next segment to look at
    stack,     \* the segments kept
    outcome    \* "walking", "escapes", "unchanged" or "rewritten"

pathVars == <<path, next, stack, outcome>>

PathInit ==
    /\ path \in AbsolutePaths
    /\ next = 1 /\ stack = <<>> /\ outcome = "walking"

Walking(kinds) == outcome = "walking" /\ next <= Len(path) /\ path[next] \in kinds

\* Mutant: only empty segments are skipped, "." is a name like any other.
SkipEmpty ==
    /\ Walking({"", "."})
    /\ stack' = IF path[next] = "." THEN Append(stack, ".") ELSE stack
    /\ next' = next + 1
    /\ UNCHANGED <<path, outcome>>

\* "" | "." => continue
Skip ==
    /\ Walking({"", "."})
    /\ next' = next + 1
    /\ UNCHANGED <<path, stack, outcome>>

\* Mutant: a ".." at the root is ignored.
UpOrStay ==
    /\ Walking({".."})
    /\ next' = next + 1
    /\ stack' = IF stack = <<>> THEN stack ELSE SubSeq(stack, 1, Len(stack) - 1)
    /\ UNCHANGED <<path, outcome>>

\* ".." => stack.pop(), or PathEscapesRoot
Up ==
    /\ Walking({".."})
    /\ IF stack = <<>>
       THEN outcome' = "escapes" /\ UNCHANGED <<next, stack>>
       ELSE /\ stack' = SubSeq(stack, 1, Len(stack) - 1)
            /\ next' = next + 1
            /\ UNCHANGED outcome
    /\ UNCHANGED path

\* _ => stack.push(segment)
Push ==
    /\ Walking(Names)
    /\ stack' = Append(stack, path[next])
    /\ next' = next + 1
    /\ UNCHANGED <<path, outcome>>

\* Mutant: a trailing slash is kept.
JoinedWithSlash(segments) == IF path[Len(path)] = "" THEN <<"">> \o segments \o <<"">> ELSE <<"">> \o segments

\* The string built at the end, as the segments it splits into again
JoinedPath(segments) == IF segments = <<>> THEN <<"", "">> ELSE <<"">> \o segments

\* normalize_request_uri and middleware, once the loop is over
FinishPath ==
    /\ outcome = "walking" /\ next > Len(path)
    /\ outcome' = IF JoinedPath(stack) = path THEN "unchanged" ELSE "rewritten"
    /\ UNCHANGED <<path, next, stack>>

PathNext == Skip \/ Up \/ Push \/ FinishPath

PathSpec == PathInit /\ [][PathNext]_pathVars

-----------------------------------------------------------------------------
(* Properties                                                               *)

\* How many levels below the root the first n segments lead.
NamesIn(n) == Cardinality({i \in 1 .. n : path[i] \in Names})
UpsIn(n) == Cardinality({i \in 1 .. n : path[i] = ".."})

\* A path is refused exactly when some part of it from the start leads above the root,
\* even if the rest leads down again.
RefusedIffEscapes ==
    /\ outcome = "escapes" => \E n \in 1 .. Len(path) : UpsIn(n) > NamesIn(n)
    /\ outcome \in {"unchanged", "rewritten"} => \A n \in 1 .. Len(path) : UpsIn(n) <= NamesIn(n)

\* Segment i is still on the stack after the first n: no later ".." has undone it.
Survives(i, n) ==
    /\ path[i] \in Names
    /\ \A m \in i .. n : NamesIn(m) - UpsIn(m) >= NamesIn(i) - UpsIn(i)

\* The router sees the path the segments lead to: the names no later ".." undoes, in
\* their order.
ResolvesThePath ==
    outcome \in {"unchanged", "rewritten"} =>
        /\ Len(stack) = Cardinality({i \in 1 .. Len(path) : Survives(i, Len(path))})
        /\ \A i \in 1 .. Len(path) : Survives(i, Len(path)) =>
              stack[Cardinality({j \in 1 .. i : Survives(j, Len(path))})] = path[i]

\* Normalising what was normalised changes nothing: a path is left as it is exactly when
\* it is the root or has no segment but names, so two layers or a redirect cannot disagree.
UnchangedIffNormal ==
    outcome \in {"unchanged", "rewritten"} =>
        (outcome = "unchanged" <=>
            \/ path = <<"", "">>
            \/ Len(path) > 1 /\ \A i \in 2 .. Len(path) : path[i] \in Names)

\* What normalize_path makes of any path: it refuses what escapes, resolves the rest as a
\* walk down the tree would, and leaves normal paths alone.
PathIsNormalized == RefusedIffEscapes /\ ResolvesThePath /\ UnchangedIffNormal
=============================================================================
