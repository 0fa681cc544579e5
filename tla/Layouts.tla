------------------------------- MODULE Layouts -------------------------------
(***************************************************************************)
(* Where the nodes of a graph lie: along the paths of its edges.  For the  *)
(* bounded instances of the traversals.                                    *)
(***************************************************************************)
EXTENDS FlowGraph, TLC

RECURSIVE LaidOut(_, _, _, _, _, _)

\* The nodes from n on, which comes at a place of a path.
LaidOut(g, n, of, path, at, depth) ==
  LET Lies(p, i) == n :> [of |-> of, path |-> p, at |-> i, depth |-> depth]
      Side(p, side) == LaidOut(g, After(g, n, side), n, p, 1, depth + 1)
      Rest(next) == LaidOut(g, next, of, path, at + 1, depth)
  IN  CASE Kind(g, n) \in {"End", "BranchMerge", "LoopFoot"} -> Lies("end", 0)
        [] Kind(g, n) = "BranchSplit" ->
             LET sides == Side("true", "True") @@ Side("false", "False")
                 merge == CHOOSE m \in DOMAIN sides : sides[m].of = n /\ sides[m].path = "end"
             IN  Lies(path, at) @@ sides @@ Rest(Next(g, merge))
        [] Kind(g, n) = "LoopHead" ->
             Lies(path, at) @@ Side("loop", "True") @@ Rest(AfterLoopFoot(g, After(g, n, "False")))
        [] OTHER -> Lies(path, at) @@ Rest(Only(Out(g, n))[3])

LayoutOf(g) == LaidOut(g, StartNode, Nowhere, "main", 1, 0)

=============================================================================
