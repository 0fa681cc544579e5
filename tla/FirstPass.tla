------------------------------ MODULE FirstPass ------------------------------
(***************************************************************************)
(* FirstPass (smpl/src/code_gen/byte_gen/first_pass.rs) as a passenger of  *)
(* the linear traversal: the code is gathered in a stack of frames, one    *)
(* for the function and one for every path being walked, with the states   *)
(* that its assertions compare; a finished frame becomes the body of its   *)
(* loop or a branch.                                                       *)
(***************************************************************************)
EXTENDS Parts

CONSTANTS
  BlockCode(_),   \* the code of the statements of a block
  ReturnCode(_),  \* the code of a return
  CondCode(_),    \* the code of a condition, and where it leaves its value
  CondResult(_)

None == <<>>
NoId == 0

New == [outcome |-> "going", frames |-> <<>>, states |-> <<>>,
        loops |-> <<>>, branches |-> <<>>, instructions |-> None]

Insert(map, k, v) == [x \in {k} \cup DOMAIN map |-> IF x = k THEN v ELSE map[x]]

\* An unwrap, expect or assert of the callback.
Require(cond, p, next) == IF cond THEN next ELSE [p EXCEPT !.outcome = "panicked"]

\* push_to_current_frame and extend_current_frame.
Emit(p, parts) ==
  Require(p.frames # <<>>, p, [p EXCEPT !.frames[Len(p.frames)] = @ \o parts])

NewFrame(p) == [p EXCEPT !.frames = Append(@, <<>>)]
InState(p, state) == p.states # <<>> /\ Last(p.states) = state
PushState(p, tag, id) == [p EXCEPT !.states = Append(@, <<tag, id>>)]

Start(p) == NewFrame(PushState(p, "Start", NoId))

End(p) ==
  Require(InState(p, <<"Start", NoId>>) /\ p.frames # <<>> /\ p.instructions = None, p,
          [p EXCEPT !.states = Front(@), !.frames = Front(@),
                    !.instructions = <<Last(p.frames)>>])

LoopHead(p, node) ==
  Require(p.frames # <<>> /\ node.id \notin DOMAIN p.loops, p,
          [PushState(NewFrame(Emit(p, <<Mark("Loop", node.id)>>)), "Loop", node.id)
             EXCEPT !.loops =
               Insert(@, node.id, [condition |-> CondCode(node.cond),
                                   result |-> CondResult(node.cond), body |-> None])])

\* Mutant: the state of the loop is left on the stack.
LoopFootKeepsState(p, node) ==
  Require(InState(p, <<"Loop", node.id>>) /\ p.frames # <<>>, p,
          [p EXCEPT !.frames = Front(@), !.loops[node.id].body = <<Last(p.frames)>>])

LoopFoot(p, node) ==
  Require(InState(p, <<"Loop", node.id>>) /\ p.frames # <<>> /\ p.loops[node.id].body = None, p,
          [p EXCEPT !.states = Front(@), !.frames = Front(@),
                    !.loops[node.id].body = <<Last(p.frames)>>])

BranchSplit(p, node) ==
  Require(p.frames # <<>> /\ node.id \notin DOMAIN p.branches, p,
          [PushState(Emit(p, <<Mark("Branch", node.id)>>), "Branching", node.id)
             EXCEPT !.branches =
               Insert(@, node.id, [condition |-> CondCode(node.cond),
                                   result |-> CondResult(node.cond),
                                   true |-> None, false |-> None])])

BranchMerge(p, node) ==
  Require(InState(p, <<"Branching", node.id>>), p, [p EXCEPT !.states = Front(@)])

\* Mutant: the paths are taken for each other.
EndPathSwapped(p, side) ==
  LET other == IF side = "true" THEN "false" ELSE "true"
  IN  [p EXCEPT !.frames = Front(@),
                !.branches[Last(p.states)[2]][other] = <<Last(p.frames)>>]

\* branch_end_true_path and branch_end_false_path: the state names the branch.
EndPath(p, side) ==
  Require(/\ p.frames # <<>> /\ p.states # <<>>
          /\ Last(p.states)[1] = "Branching"
          /\ p.branches[Last(p.states)[2]][side] = None, p,
          [p EXCEPT !.frames = Front(@),
                    !.branches[Last(p.states)[2]][side] = <<Last(p.frames)>>])

\* The callbacks by name; those left out do nothing.
On(event, p, node) ==
  CASE event = "start" -> Start(p)
    [] event = "end" -> End(p)
    [] event = "block" -> Emit(p, BlockCode(node.stmts))
    [] event = "ret" -> Emit(p, ReturnCode(node.stmt))
    [] event = "cont" -> Emit(p, <<Mark("Continue", node.id)>>)
    [] event = "br" -> Emit(p, <<Mark("Break", node.id)>>)
    [] event = "loop_head" -> LoopHead(p, node)
    [] event = "loop_foot" -> LoopFoot(p, node)
    [] event = "branch_split" -> BranchSplit(p, node)
    [] event \in {"branch_start_true_path", "branch_start_false_path"} -> NewFrame(p)
    [] event = "branch_end_true_path" -> EndPath(p, "true")
    [] event = "branch_end_false_path" -> EndPath(p, "false")
    [] event = "branch_merge" -> BranchMerge(p, node)
    [] OTHER -> p

\* What the second pass gets: every body has been set.
Gathered(p) ==
  [main |-> p.instructions[1],
   loops |-> [id \in DOMAIN p.loops |-> [p.loops[id] EXCEPT !.body = @[1]]],
   branches |-> [id \in DOMAIN p.branches |->
                   [p.branches[id] EXCEPT !.true = @[1], !.false = @[1]]]]

=============================================================================
