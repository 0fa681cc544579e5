------------------------------ MODULE Compiling ------------------------------
(***************************************************************************)
(* A function from its graph to its byte code (compile_to_byte_code of     *)
(* smpl/src/code_gen/byte_gen/mod.rs, behind the return check of           *)
(* smpl/src/analysis/analysis_helpers.rs): the traversal, with the first   *)
(* pass on board, gathers its frames, the later passes make one sequence   *)
(* of instructions of them.                                                *)
(***************************************************************************)
EXTENDS FirstPass, Walks, ReturnCheck, Inlining, CodeFlow

VARIABLES passenger, status

NewPassenger(f) == New

INSTANCE Traverse WITH Callback <- On

-----------------------------------------------------------------------------
(* What the traversal and the first pass rely on each other for: the       *)
(* traversal asks its passenger to keep going, the passenger relies on the *)
(* order in which it is told of the nodes.                                 *)

\* The traversal of a graph that was built ends without a panic of its own, of
\* the graph's accessors or of the passenger's assertions, save at a break.
OnlyBreakPanics == status = "panicked" => Node.n = "Break"

\* "visit_node should be called AT MAX the number of nodes": the passenger is
\* told of every node of the graph, dead code included, and of none twice.
EveryNodeOnce ==
  /\ \A i, j \in DOMAIN visited : visited[i] = visited[j] => i = j
  /\ status = "done" => ToSet(visited) = DOMAIN cfg.nodes

\* The passenger's frames and states follow the loops of visit_node: a frame
\* for each, a state for each split or head that is being walked.
Bracketed ==
  status = "visiting" /\ visited # <<>> =>
    /\ Len(passenger.frames) = Len(visits)
    /\ [i \in DOMAIN passenger.states |-> passenger.states[i][2]] =
       [i \in DOMAIN visits |-> IF i = 1 THEN NoId ELSE cfg.nodes[visits[i].at].id]

-----------------------------------------------------------------------------
(* What the passes rely on, of each other and of the code of statements. *)

\* No jump and no mark, and every call with its answer.
Straight(parts) == FrameOf({}, parts)

Returning(parts) == \E i \in DOMAIN parts : Performs(parts[i], "Return")

\* byte_expr.rs makes straight code of expressions; a return ends in the
\* instruction.
ASSUME CodeStraight ==
  \A f \in Sources : CfgOf(f).err = "none" =>
    \A n \in DOMAIN CfgOf(f).nodes :
      LET node == CfgOf(f).nodes[n] IN
      /\ node.n = "Block" => Straight(BlockCode(node.stmts))
      /\ node.n = "Return" => Straight(ReturnCode(node.stmt)) /\ Returning(ReturnCode(node.stmt))
      /\ node.n \in {"BranchSplit", "LoopHead"} => Straight(CondCode(node.cond))

ASSUME GraphsTraceable ==
  \A f \in Sources : CfgOf(f).err = "none" => Traceable(CfgOf(f))

\* Without a continue or a break.
NoJumps(g) == \A n \in DOMAIN g.nodes : Kind(g, n) \notin {"Continue", "Break"}

-----------------------------------------------------------------------------

\* The split or the head that a mark stands for.
OpenerOf(m) ==
  CHOOSE n \in DOMAIN cfg.nodes :
    /\ Kind(cfg, n) = IF m.p = "Loop" THEN "LoopHead" ELSE "BranchSplit"
    /\ cfg.nodes[n].id = m.id

\* How many loops and branches of the function lie deeper than this one.
Height(fp) ==
  LET lay == Layout(fn)
      depth == [m \in Marks(fp) |-> lay[OpenerOf(m)].depth]
  IN  [m \in Marks(fp) |-> Cardinality({k \in Marks(fp) : depth[k] > depth[m]})]

\* The frames the first pass has gathered are nested, and a function that the
\* return check has let pass is compiled to code that control does not run off
\* and in which every call is followed by the instruction that takes its answer.
AcceptedStaysInside ==
  status = "done" /\ NoJumps(cfg) =>
    LET fp == Gathered(passenger)
        code == Compiled(fp)
    IN  /\ FramedBy(fp, Height(fp))
        /\ ReturnTrace(cfg) = "ok" /\ Len(code) <= MaxIP => CodeOK(code, Reached(code))

=============================================================================
