------------------------------ MODULE FlowGraph ------------------------------
(***************************************************************************)
(* A control flow graph (smpl/src/analysis/control_flow.rs and             *)
(* control_data.rs) as the traversals and the return check read it: a      *)
(* sequence of nodes and a set of edges <<from, kind, to>>.                *)
(***************************************************************************)
EXTENDS Integers, Sequences, FiniteSets

Nowhere == 0
StartNode == 1
EndNode == 2

-----------------------------------------------------------------------------
(* Where a traversal goes on; Nowhere where the code panics.               *)

Kind(g, n) == g.nodes[n].n
Out(g, n) == {e \in g.edges : e[1] = n}
In(g, n) == {e \in g.edges : e[3] = n}
Only(S) == CHOOSE x \in S : TRUE

\* CFG::next and CFG::previous.
Next(g, n) == IF Cardinality(Out(g, n)) = 1 THEN Only(Out(g, n))[3] ELSE Nowhere
Previous(g, n) == IF Cardinality(In(g, n)) = 1 THEN Only(In(g, n))[1] ELSE Nowhere

\* CFG::after_conditional.
After(g, n, kind) ==
  IF {e[2] : e \in Out(g, n)} = {"True", "False"} /\ Cardinality(Out(g, n)) = 2
  THEN Only({e \in Out(g, n) : e[2] = kind})[3]
  ELSE Nowhere

\* CFG::after_loop_foot: not back to the head of this loop.
AfterLoopFoot(g, foot) ==
  LET on == {e \in Out(g, foot) : ~(/\ Kind(g, e[3]) = "LoopHead"
                                    /\ g.nodes[e[3]].id = g.nodes[foot].id)}
  IN  IF Kind(g, foot) = "LoopFoot" /\ Cardinality(Out(g, foot)) = 2 /\ on # {}
      THEN Only(on)[3] ELSE Nowhere

\* CFG::after_return and CFG::after_continue: with two edges, not the one to
\* the node the jump is meant for.
AfterJump(g, n, meant) ==
  LET on == {e \in Out(g, n) : Kind(g, e[3]) # meant}
  IN  CASE Cardinality(Out(g, n)) = 1 -> Only(Out(g, n))[3]
        [] Cardinality(Out(g, n)) = 2 -> Only(IF on # {} THEN on ELSE Out(g, n))[3]
        [] OTHER -> Nowhere

\* CFG::after_break: the case of one edge has no result.
AfterBreak(g, n) ==
  IF Cardinality(Out(g, n)) = 2 THEN AfterJump(g, n, "LoopFoot") ELSE Nowhere

-----------------------------------------------------------------------------
(* The loops that follow the paths of a graph.                             *)

\* path: the loop of traverse() or one in visit_node, entered at node at;
\* cur: its current node; rounds: how often it has gone round.
Visit(path, at, cur) == [path |-> path, at |-> at, cur |-> cur, rounds |-> 0]

\* The innermost of the given loops goes on at node next.
GoesOn(loops, next) ==
  [loops EXCEPT ![Len(loops)].cur = next, ![Len(loops)].rounds = @ + 1]

=============================================================================
