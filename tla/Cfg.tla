--------------------------------- MODULE Cfg ---------------------------------
(***************************************************************************)
(* The builder of the control flow graph of a function                     *)
(* (smpl/src/analysis/control_flow.rs and control_data.rs).                *)
(*                                                                         *)
(* A statement is written as in ByteGen, except that an If has the         *)
(* branches of the source, each [id, cond, body], and its default block,   *)
(* none or one; the loop of a Break or Continue is found by the builder.   *)
(* The id of a loop or branch is that of its statement.                    *)
(***************************************************************************)
EXTENDS FlowGraph, SequencesExt

\* The graph under construction with the fragment that is appended to: its
\* head, the node the next one follows, and the statements of the open block.
NewGraph ==
  [nodes |-> <<[n |-> "Start"], [n |-> "End"]>>, edges |-> {},
   head |-> Nowhere, prev |-> Nowhere, block |-> <<>>, err |-> "none"]

Connect(b, edges) == [b EXCEPT !.edges = @ \cup edges]
AddNodes(b, nodes) == [b EXCEPT !.nodes = @ \o nodes]

\* append_node_index!
AppendIndex(b, n) ==
  [Connect(b, IF b.prev = Nowhere THEN {} ELSE {<<b.prev, "Normal", n>>})
     EXCEPT !.head = IF @ = Nowhere THEN n ELSE @, !.prev = n]

\* append_node!
AppendNode(b, node) == AppendIndex(AddNodes(b, <<node>>), Len(b.nodes) + 1)

\* The current block, if it has a statement, becomes a node.
Flush(b) ==
  IF b.block = <<>> THEN b
  ELSE AppendNode([b EXCEPT !.block = <<>>], [n |-> "Block", stmts |-> b.block])

\* Back from the fragment r to the one being appended to.
Resume(b, r) == [b EXCEPT !.nodes = r.nodes, !.edges = r.edges, !.err = r.err]

Scope == <<[n |-> "EnterScope"], [n |-> "ExitScope"]>>

\* The nodes Scope, added as enter and enter + 1 around fragment r.
Around(r, enter) ==
  IF r.head = Nowhere THEN {<<enter, "Normal", enter + 1>>}
  ELSE {<<enter, "Normal", r.head>>, <<r.prev, "Normal", enter + 1>>}

RECURSIVE ScopedBlock(_, _, _)

\* The loop whose head was just appended, with its body r.
Looped(c, r, head, foot) ==
  LET enter == Len(r.nodes) + 1
      d     == [Connect(Resume(c, r), {<<foot, "BackEdge", head>>, <<head, "False", foot>>})
                  EXCEPT !.prev = foot]
  IN  IF r.head = Nowhere THEN Connect(d, {<<head, "True", foot>>})
      ELSE Connect(AddNodes(d, Scope),
                   Around(r, enter) \cup {<<head, "True", enter>>, <<enter + 1, "Normal", foot>>})

AppendWhile(b, s) ==
  LET c == AppendNode(b, [n |-> "LoopHead", id |-> s.id, cond |-> s.cond])
      d == AddNodes(c, <<[n |-> "LoopFoot", id |-> s.id]>>)
  IN  Looped(d, ScopedBlock(d, s.body, s.id), c.prev, c.prev + 1)

\* A branch with body r in its scope.
Scoped(b, r) ==
  [b |-> Connect(AddNodes(Resume(b, r), Scope), Around(r, Len(r.nodes) + 1)),
   head |-> Len(r.nodes) + 1, foot |-> Len(r.nodes) + 2]

\* Branch d between a BranchSplit and a BranchMerge.
Conditional(d, br, split) ==
  [b |-> Connect(AddNodes(d.b, <<[n |-> "BranchSplit", id |-> br.id, cond |-> br.cond],
                                 [n |-> "BranchMerge", id |-> br.id]>>),
                 {<<split, "True", d.head>>, <<d.foot, "Normal", split + 1>>}),
   head |-> split, foot |-> split + 1]

\* generate_branch, without a condition and with one.
DefaultBranch(b, body, loop) == Scoped(b, ScopedBlock(b, body, loop))
Branch(b, br, loop) ==
  LET d == DefaultBranch(b, br.body, loop) IN Conditional(d, br, Len(d.b.nodes) + 1)

\* A further branch hangs on the false edge of the one before and ends at its
\* merge.
Stacked(prev, next) ==
  [next EXCEPT !.b = Connect(@, {<<prev.head, "False", next.head>>,
                                 <<next.foot, "Normal", prev.foot>>})]

\* The default branch after the last one with a condition.
WithDefault(last, default, loop) ==
  IF last.b.err # "none" THEN last.b
  ELSE IF default = <<>> THEN Connect(last.b, {<<last.head, "False", last.foot>>})
  ELSE Stacked(last, DefaultBranch(last.b, default[1], loop)).b

\* The further branches after the first one.
Chained(first, s, loop) ==
  [WithDefault(FoldLeft(LAMBDA p, br : IF p.b.err # "none" THEN p
                                       ELSE Stacked(p, Branch(p.b, br, loop)),
                        [first EXCEPT !.b = AppendIndex(@, first.head)], Tail(s.branches)),
               s.default, loop)
     EXCEPT !.prev = first.foot]

AppendIf(b, s, loop) == Chained(Branch(b, Head(s.branches), loop), s, loop)

AppendStmt(b, s, loop) ==
  CASE s.s \in {"Decl", "Assign", "Expr"} -> [b EXCEPT !.block = Append(@, s)]
    [] s.s = "Return" -> AppendNode(Flush(b), [n |-> "Return", stmt |-> s])
    [] s.s \in {"Break", "Continue"} ->
         IF loop = Nowhere THEN [b EXCEPT !.err = "Bad" \o s.s]
         ELSE AppendNode(Flush(b), [n |-> s.s, id |-> loop])
    [] s.s = "While" -> AppendWhile(Flush(b), s)
    [] s.s = "If" -> AppendIf(Flush(b), s, loop)

\* Mutant: the blocks do not know the loop they are in.
ScopedBlockNoLoop(b, stmts, loop) ==
  Flush(FoldLeft(LAMBDA c, s : IF c.err # "none" THEN c ELSE AppendStmt(c, s, Nowhere),
                 [b EXCEPT !.head = Nowhere, !.prev = Nowhere, !.block = <<>>], stmts))

\* generate_scoped_block; it ends at the first error.
ScopedBlock(b, stmts, loop) ==
  Flush(FoldLeft(LAMBDA c, s : IF c.err # "none" THEN c ELSE AppendStmt(c, s, loop),
                 [b EXCEPT !.head = Nowhere, !.prev = Nowhere, !.block = <<>>], stmts))

\* The scope of the function is entered, and leads into the body r.
Entered(r) ==
  LET b == AppendNode([r EXCEPT !.head = StartNode, !.prev = StartNode], [n |-> "EnterScope"])
  IN  IF r.head = Nowhere THEN b
      ELSE [Connect(b, {<<b.prev, "Normal", r.head>>}) EXCEPT !.prev = r.prev]

\* A function of type Unit returns at its end.
Returned(b, unit) ==
  IF unit THEN AppendNode(b, [n |-> "Return", stmt |-> [s |-> "Return", value |-> <<>>]])
  ELSE b

Ended(b) == AppendIndex(AppendNode(b, [n |-> "ExitScope"]), EndNode)
Graph(b) == [nodes |-> b.nodes, edges |-> b.edges, err |-> b.err]

\* CFG::generate.
Generate(fn) == Graph(Ended(Returned(Entered(ScopedBlock(NewGraph, fn.body, Nowhere)), fn.unit)))

=============================================================================
