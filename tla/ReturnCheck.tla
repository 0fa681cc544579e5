----------------------------- MODULE ReturnCheck -----------------------------
(***************************************************************************)
(* The return check (check_returns_form of                                 *)
(* smpl/src/analysis/return_trace.rs), which walks a control flow graph    *)
(* back from its end over the scopes and branches that end there: each     *)
(* way in has to come from a return.                                       *)
(***************************************************************************)
EXTENDS FlowGraph, SequencesExt

\* Where the walk goes on; elsewhere it reports a missing return.
Traced == {"Return", "BranchMerge", "ExitScope"}

\* Mutant: one way into a merge stands for both.
BeforeOne(g, n) ==
  CASE Kind(g, n) = "Return" -> <<>>
    [] Kind(g, n) = "BranchMerge" -> <<Only(In(g, n))[1]>>
    [] OTHER -> <<Previous(g, n)>>

\* Mutant: to leave a scope is as good as to return.
BeforeScope(g, n) ==
  CASE Kind(g, n) = "BranchMerge" -> SetToSeq({e[1] : e \in In(g, n)})
    [] OTHER -> <<>>

\* return_check_id; Nowhere where CFG::previous panics.
Before(g, n) ==
  CASE Kind(g, n) = "Return" -> <<>>
    [] Kind(g, n) = "BranchMerge" -> SetToSeq({e[1] : e \in In(g, n)})
    [] OTHER -> <<Previous(g, n)>>

Tracing(nodeStack, traced) ==
  [nodeStack |-> nodeStack, traced |-> traced,
   verdict |-> IF Nowhere \in ToSet(nodeStack) THEN "panic" ELSE "tracing"]

\* One round of the loop over the stack.
Round(g, t) ==
  LET id   == Last(t.nodeStack)
      rest == Front(t.nodeStack)
  IN  IF t.verdict # "tracing" THEN t
      ELSE IF t.nodeStack = <<>> THEN [t EXCEPT !.verdict = "ok"]
      ELSE IF id \in t.traced THEN [t EXCEPT !.nodeStack = rest]
      ELSE IF Kind(g, id) \notin Traced THEN [t EXCEPT !.verdict = "MissingReturn"]
      ELSE Tracing(rest \o Before(g, id), t.traced \cup {id})

\* There are as many rounds as nodes, with the end of the stack to be found
\* within them.
Trace(g) ==
  LET unknown == Previous(g, Previous(g, EndNode))
      trace[k \in 0 .. Len(g.nodes)] ==
        IF k = 0 THEN Tracing(<<unknown>>, {}) ELSE Round(g, trace[k - 1])
  IN  trace

ReturnTrace(g) ==
  LET verdict == Trace(g)[Len(g.nodes)].verdict
  IN  IF verdict = "tracing" THEN "unreachable" ELSE verdict

-----------------------------------------------------------------------------
(* What the check relies on. *)

\* A node has one way out to a merge or the end of a scope at most, the end of
\* a scope and the end one way in, and the end comes after the outermost scope.
Traceable(g) ==
  /\ {StartNode, EndNode} \subseteq DOMAIN g.nodes /\ g.nodes \in Seq(ToSet(g.nodes))
  /\ Kind(g, StartNode) = "Start" /\ Kind(g, EndNode) = "End"
  /\ IsFiniteSet(g.edges)
  /\ \A e \in g.edges : {e[1], e[3]} \subseteq DOMAIN g.nodes
  /\ \A n \in DOMAIN g.nodes :
       Kind(g, n) \in {"ExitScope", "End"} => Cardinality(In(g, n)) = 1
  /\ Kind(g, Previous(g, EndNode)) = "ExitScope"
  /\ \A d, e \in g.edges :
       /\ d[1] = e[1] /\ {Kind(g, d[3]), Kind(g, e[3])} \subseteq {"BranchMerge", "ExitScope"}
            => d[3] = e[3]
       /\ d[1] = Previous(g, EndNode) => d[3] = EndNode

\* A walk through the function, along the edges of its graph.
IsWalk(g, w) ==
  /\ w \in Seq(DOMAIN g.nodes) /\ w # <<>>
  /\ w[1] = StartNode /\ w[Len(w)] = EndNode
  /\ \A i \in 1 .. Len(w) - 1 : \E e \in g.edges : e[1] = w[i] /\ e[3] = w[i + 1]

=============================================================================
