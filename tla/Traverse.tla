------------------------------ MODULE Traverse ------------------------------
(***************************************************************************)
(* The linear traversal of a control flow graph                            *)
(* (smpl/src/analysis/linear_cfg_traversal.rs), by which the type checker  *)
(* and the first pass of the byte code generator see a function, and in    *)
(* the same order scope resolution (unique_linear_cfg_traversal.rs).       *)
(* visit_node calls itself along the paths of a branch or a loop; visits   *)
(* is that call stack, the loop of traverse() at its bottom.  A passenger  *)
(* is told of every node; its first error ends the traversal.              *)
(***************************************************************************)
EXTENDS FlowGraph, SequencesExt

CONSTANTS
  Sources,             \* the functions considered, each [body, unit]
  CfgOf(_),            \* the graph of a function, or what it is refused for
  NewPassenger(_),     \* the passenger of a function before the traversal
  Callback(_, _, _)    \* the passenger after an event of a node; its outcome
                       \* is going, or failed or panicked in the callback

VARIABLES fn, cfg,     \* the function and its graph
          visits,      \* the running loops over nodes, the innermost last
          passenger,
          visited,     \* the nodes in the order the passenger was told of them
          status

vars == <<fn, cfg, visits, passenger, visited, status>>

Here == Last(visits)
Node == cfg.nodes[Here.cur]
At(kinds) == status = "visiting" /\ Node.n \in kinds

Init ==
  /\ fn \in Sources
  /\ cfg = CfgOf(fn)
  /\ visits = <<Visit("main", Nowhere, StartNode)>>
  /\ passenger = NewPassenger(fn)
  /\ visited = <<>>
  /\ status = IF cfg.err = "none" THEN "visiting" ELSE "rejected"

\* The passenger after callbacks with the current node, one or two.
Tell(p, event) == IF p.outcome = "going" THEN Callback(event, p, Node) ELSE p
Told(events) ==
  IF Len(events) = 1 THEN Tell(passenger, events[1])
                     ELSE Tell(Tell(passenger, events[1]), events[2])

\* The passenger is told, then control is in the given loops, unless a
\* callback or the search for the next node panics, or a loop has gone round as
\* often as there are nodes.
Proceed(events, next, loops) ==
  /\ passenger' = Told(events)
  /\ UNCHANGED <<fn, cfg>>
  /\ IF /\ passenger'.outcome = "going"
        /\ next # Nowhere /\ Last(loops).rounds < Len(cfg.nodes)
     THEN visits' = loops /\ UNCHANGED status
     ELSE /\ status' = IF passenger'.outcome = "failed" THEN "failed" ELSE "panicked"
          /\ UNCHANGED visits

\* A node that is visited and left for the next one.
Pass(events, next) ==
  /\ Proceed(events, next, GoesOn(visits, next))
  /\ visited' = Append(visited, Here.cur)

VisitStart == At({"Start"}) /\ Pass(<<"start">>, Next(cfg, Here.cur))
VisitScope ==
  \/ At({"EnterScope"}) /\ Pass(<<"enter_scope">>, Next(cfg, Here.cur))
  \/ At({"ExitScope"}) /\ Pass(<<"exit_scope">>, Next(cfg, Here.cur))
VisitBlock == At({"Block"}) /\ Pass(<<"block">>, Next(cfg, Here.cur))
VisitReturn == At({"Return"}) /\ Pass(<<"ret">>, AfterJump(cfg, Here.cur, "End"))
VisitContinue == At({"Continue"}) /\ Pass(<<"cont">>, AfterJump(cfg, Here.cur, "LoopHead"))
VisitBreak == At({"Break"}) /\ Pass(<<"br">>, AfterBreak(cfg, Here.cur))

\* A node that is visited by a loop of its own along one of its paths.
Descend(path, events) ==
  LET next == After(cfg, Here.cur, "True")
  IN  /\ Proceed(events, next, Append(visits, Visit(path, Here.cur, next)))
      /\ visited' = Append(visited, Here.cur)

VisitSplit ==
  At({"BranchSplit"}) /\ Descend("true", <<"branch_split", "branch_start_true_path">>)
VisitHead == At({"LoopHead"}) /\ Descend("loop", <<"loop_head", "loop_start_true_path">>)

\* Mutant: the other path of the branch is its true path again.
EndTruePathAgain ==
  /\ At({"BranchMerge"}) /\ Here.path = "true"
  /\ LET next == After(cfg, Here.at, "True")
     IN  Proceed(<<"branch_end_true_path", "branch_start_false_path">>, next,
                  Append(Front(visits), Visit("false", Here.at, next)))
  /\ UNCHANGED visited

\* The true path is left at the merge, and the false one begins.
EndTruePath ==
  /\ At({"BranchMerge"}) /\ Here.path = "true"
  /\ LET next == After(cfg, Here.at, "False")
     IN  Proceed(<<"branch_end_true_path", "branch_start_false_path">>, next,
                  Append(Front(visits), Visit("false", Here.at, next)))
  /\ UNCHANGED visited

\* The visit of the split, or head, returns the node that follows; a merge or
\* foot that is met anywhere else is unreachable!().
Leave(path, events, next) ==
  /\ Proceed(events, IF Here.path = path THEN next ELSE Nowhere,
              IF Here.path = path THEN GoesOn(Front(visits), next) ELSE visits)
  /\ visited' = Append(visited, Here.cur)

EndFalsePath ==
  /\ At({"BranchMerge"}) /\ Here.path # "true"
  /\ Leave("false", <<"branch_end_false_path", "branch_merge">>, Next(cfg, Here.cur))
\* Mutant: the loop goes on behind its foot as behind any node.
EndLoopNext ==
  /\ At({"LoopFoot"})
  /\ Leave("loop", <<"loop_end_true_path", "loop_foot">>,
           IF Here.path = "loop" THEN Next(cfg, After(cfg, Here.at, "False")) ELSE Nowhere)

EndLoop ==
  /\ At({"LoopFoot"})
  /\ Leave("loop", <<"loop_end_true_path", "loop_foot">>,
           IF Here.path = "loop" THEN AfterLoopFoot(cfg, After(cfg, Here.at, "False"))
                                 ELSE Nowhere)

\* The end is the last node; a path of a branch must not get there.
VisitEnd ==
  /\ At({"End"})
  /\ passenger' = Told(<<"end">>)
  /\ visited' = Append(visited, Here.cur)
  /\ status' = IF passenger'.outcome = "failed" THEN "failed"
               ELSE IF /\ passenger'.outcome = "going"
                       /\ \A i \in DOMAIN visits : visits[i].path \in {"main", "loop"}
               THEN "done" ELSE "panicked"
  /\ UNCHANGED <<fn, cfg, visits>>

Finished == status \in {"done", "failed", "panicked", "rejected"}
Stopped == Finished /\ UNCHANGED vars

Step ==
  \/ VisitStart \/ VisitScope \/ VisitBlock \/ VisitReturn \/ VisitContinue
  \/ VisitBreak \/ VisitSplit \/ VisitHead \/ EndTruePath \/ EndFalsePath
  \/ EndLoop \/ VisitEnd

Walk == Step \/ Stopped

Spec == Init /\ [][Walk]_vars

=============================================================================
