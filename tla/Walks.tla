-------------------------------- MODULE Walks --------------------------------
(***************************************************************************)
(* A walk over a control flow graph, whoever is told of the nodes          *)
(* (smpl/src/analysis/linear_cfg_traversal.rs): its state, and the graphs  *)
(* of nested paths that it relies on.                                      *)
(***************************************************************************)
EXTENDS FlowGraph, SequencesExt

CONSTANTS
  Sources,    \* the functions considered
  CfgOf(_),   \* the graph of a function, or what it is refused for
  Layout(_)   \* where each node of the graph of a function lies

VARIABLES fn, cfg,   \* the function and its graph
          visits,    \* the running loops over nodes, the innermost last
          visited    \* the nodes in the order they are met

-----------------------------------------------------------------------------
(* Graphs of nested paths.  A node lies at place `at` of the main path or of *)
(* a path that starts at the split or head `of`, `depth` paths inside the    *)
(* function; the merge or foot where these paths end lies on none.           *)

Kinds == {"Start", "End", "EnterScope", "ExitScope", "Block", "Return", "Continue", "Break",
          "BranchSplit", "BranchMerge", "LoopHead", "LoopFoot"}
Passed == {"Start", "EnterScope", "ExitScope", "Block", "Return", "Continue"}

\* The paths with the kinds of the nodes they start and end at.
Paths == {<<"Start", "main", "End">>, <<"BranchSplit", "true", "BranchMerge">>,
          <<"BranchSplit", "false", "BranchMerge">>, <<"LoopHead", "loop", "LoopFoot">>}

\* Where the function starts, and where a path does.
OpenerKind(g, of) == IF of = Nowhere THEN "Start" ELSE Kind(g, of)

LiesOn(lay, n, of, path) == lay[n].of = of /\ lay[n].path = path

\* Every node has a place, no two the same one.
Placed(g, lay) ==
  \A n \in DOMAIN g.nodes :
    LET l == lay[n] IN
    /\ Kind(g, n) \in Kinds /\ l.depth \in Nat
    /\ IF l.of = Nowhere THEN l.depth = 0
       ELSE l.of \in DOMAIN g.nodes \ {StartNode} /\ l.depth = lay[l.of].depth + 1
    /\ IF l.path = "end"
       THEN /\ \E p \in Paths : p[1] = OpenerKind(g, l.of) /\ p[3] = Kind(g, n)
            /\ l.of # Nowhere => g.nodes[n].id = g.nodes[l.of].id
       ELSE /\ \E p \in Paths : p[1] = OpenerKind(g, l.of) /\ p[2] = l.path
            /\ \A p \in Paths : p[3] # Kind(g, n)
            /\ l.at \in 1 .. Len(g.nodes) - 1
    /\ \A m \in DOMAIN g.nodes :
         /\ LiesOn(lay, m, l.of, l.path) /\ (l.path = "end" \/ lay[m].at = l.at) => m = n
         /\ Kind(g, n) \in {"BranchSplit", "LoopHead"} /\ Kind(g, m) = Kind(g, n)
              /\ g.nodes[m].id = g.nodes[n].id => m = n

\* Behind the first `at` nodes of a path control comes to node n: it is the next
\* one of the path or, when there is none, the one where the path ends.
Comes(g, lay, n, of, path, at) ==
  /\ n \in DOMAIN g.nodes
  /\ \/ LiesOn(lay, n, of, path) /\ lay[n].at = at + 1
     \/ /\ LiesOn(lay, n, of, "end")
        /\ \A p \in Paths : p[2] = path => p[3] = Kind(g, n)
        /\ \A m \in DOMAIN g.nodes : LiesOn(lay, m, of, path) => lay[m].at <= at

\* What lies behind a node that is passed.
Behind(g, n) ==
  CASE Kind(g, n) = "Return" -> AfterJump(g, n, "End")
    [] Kind(g, n) = "Continue" -> AfterJump(g, n, "LoopHead")
    [] OTHER -> Next(g, n)

\* Control follows the paths.
Followed(g, lay) ==
  \A n \in DOMAIN g.nodes :
    LET ComesOn(m, s) == Comes(g, lay, m, lay[s].of, lay[s].path, lay[s].at) IN
    /\ Kind(g, n) \in Passed => ComesOn(Behind(g, n), n)
    /\ Kind(g, n) = "Break" => AfterBreak(g, n) = Nowhere \/ ComesOn(AfterBreak(g, n), n)
    /\ Kind(g, n) = "BranchSplit" =>
         /\ Comes(g, lay, After(g, n, "True"), n, "true", 0)
         /\ Comes(g, lay, After(g, n, "False"), n, "false", 0)
    /\ Kind(g, n) = "BranchMerge" => ComesOn(Next(g, n), lay[n].of)
    /\ Kind(g, n) = "LoopHead" =>
         /\ Comes(g, lay, After(g, n, "True"), n, "loop", 0)
         /\ ComesOn(AfterLoopFoot(g, After(g, n, "False")), n)

NestedBy(g, lay) ==
  /\ g.nodes \in Seq(ToSet(g.nodes)) /\ StartNode \in DOMAIN g.nodes
  /\ \A n \in DOMAIN g.nodes : Kind(g, n) = "Start" <=> n = StartNode
  /\ LiesOn(lay, StartNode, Nowhere, "main") /\ lay[StartNode].at = 1
  /\ Placed(g, lay) /\ Followed(g, lay)

ASSUME GraphsNested ==
  \A f \in Sources : CfgOf(f).err = "none" => NestedBy(CfgOf(f), Layout(f))

=============================================================================
