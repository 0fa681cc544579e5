--------------------------- MODULE CompiledProofs ---------------------------
(***************************************************************************)
(* From the graph of a function to its byte code.  On any graph of nested  *)
(* paths the traversal tells the first pass of every node once, with its   *)
(* frames and states in step, and panics at a break only.  For a function  *)
(* without a continue or a break the frames it gathers are nested as the   *)
(* graph is, a frame that control gets past is a path that it gets along,  *)
(* and so the code of a function that passed the return check has no way   *)
(* past its end.                                                           *)
(***************************************************************************)
EXTENDS Compiling, TraverseProofs, ReturnProofs, InliningProofs

\* What the passenger carries until its code is complete.
Going(frames, states, loops, branches) ==
  [outcome |-> "going", frames |-> frames, states |-> states, loops |-> loops,
   branches |-> branches, instructions |-> None]

Ids(kind) == {IdOf(n) : n \in {m \in Seen : K(m) = kind}}

\* The state for a loop on a path of a split or head, of which nothing was
\* gathered yet but the code of the true path when the false one is walked.
Backed(v, state, loops, branches) ==
  IF v.path = "loop" THEN state = <<"Loop", IdOf(v.at)>> /\ loops[IdOf(v.at)].body = None
  ELSE /\ state = <<"Branching", IdOf(v.at)>>
       /\ {"true", "false"} \subseteq DOMAIN branches[IdOf(v.at)]
       /\ v.path = "true" => branches[IdOf(v.at)]["true"] = None
       /\ branches[IdOf(v.at)]["false"] = None

Carried ==
  LET p == passenger IN
  /\ p = Going(p.frames, p.states, p.loops, p.branches)
  /\ IsSeq(p.frames) /\ IsSeq(p.states)
  /\ DOMAIN p.loops = Ids("LoopHead") /\ DOMAIN p.branches = Ids("BranchSplit")
  /\ IF visited = <<>> THEN Inmost.cur = StartNode /\ p.frames = <<>> /\ p.states = <<>>
     ELSE /\ StartNode \in Seen
          /\ Len(p.frames) = Len(visits) /\ Len(p.states) = Len(visits)
          /\ p.states[1] = <<"Start", NoId>>
          /\ \A i \in 2 .. Len(visits) : Backed(visits[i], p.states[i], p.loops, p.branches)

IInv ==
  /\ NoneTwice
  /\ status # "rejected" => Typed
  /\ status = "visiting" => Sound /\ Carried
  /\ status = "panicked" => Node.n = "Break"
  /\ status = "done" => Seen = Nodes

-----------------------------------------------------------------------------
(* What the passenger does with an event. *)

\* The innermost frame with more code.
Extended(frames, parts) == [frames EXCEPT ![Len(frames)] = @ \o parts]

\* A sequence with one entry more, one less or another last one.
LEMMA AnySeq ==
  ASSUME NEW S, NEW s \in Seq(S)
  PROVE  IsSeq(s)
BY DEF IsSeq, ToSet

LEMMA PushedAny ==
  ASSUME NEW s, IsSeq(s), NEW x
  PROVE  /\ IsSeq(Append(s, x)) /\ Append(s, x) # <<>>
         /\ Len(s) \in Nat /\ Len(Append(s, x)) = Len(s) + 1
         /\ \A i \in 1 .. Len(s) : Append(s, x)[i] = s[i]
         /\ Append(s, x)[Len(s) + 1] = x
<1> DEFINE S == ToSet(s) \cup {x}
<1>1. s \in Seq(S) /\ x \in S  BY DEF IsSeq
<1> HIDE DEF S
<1>2. Append(s, x) \in Seq(S)  BY <1>1, Pushed
<1>3. IsSeq(Append(s, x))  BY <1>2, AnySeq
<1> QED  BY <1>1, <1>3, Pushed

LEMMA PoppedAny ==
  ASSUME NEW s, IsSeq(s), s # <<>>
  PROVE  /\ Len(s) \in Nat \ {0} /\ Last(s) = s[Len(s)]
         /\ IsSeq(Front(s)) /\ Len(Front(s)) = Len(s) - 1
         /\ \A i \in 1 .. Len(s) - 1 : Front(s)[i] = s[i]
BY Popped, AnySeq DEF IsSeq

LEMMA ExtendedAny ==
  ASSUME NEW s, IsSeq(s), s # <<>>, NEW parts
  PROVE  /\ IsSeq(Extended(s, parts)) /\ Len(Extended(s, parts)) = Len(s)
         /\ Extended(s, parts) # <<>>
<1> DEFINE x == s[Len(s)] \o parts
           S == ToSet(s) \cup {x}
<1>1. s \in Seq(S) /\ x \in S  BY DEF IsSeq
<1>2. Extended(s, parts) = [s EXCEPT ![Len(s)] = x]  BY DEF Extended
<1> HIDE DEF S, x
<1> QED  BY <1>1, <1>2, Replaced, AnySeq, ZenonT(60)

\* One part of what is carried is changed.
LEMMA Changed ==
  ASSUME NEW frames, NEW states, NEW loops, NEW branches, NEW x
  PROVE  LET p == Going(frames, states, loops, branches) IN
         /\ [p EXCEPT !.frames = x] = Going(x, states, loops, branches)
         /\ [p EXCEPT !.states = x] = Going(frames, x, loops, branches)
         /\ [p EXCEPT !.loops = x] = Going(frames, states, x, branches)
         /\ [p EXCEPT !.branches = x] = Going(frames, states, loops, x)
         /\ p.outcome = "going" /\ p.frames = frames /\ p.states = states
         /\ p.loops = loops /\ p.branches = branches
BY DEF Going

LEMMA Pushes ==
  ASSUME NEW frames, NEW states, NEW loops, NEW branches, NEW tag, NEW id
  PROVE  LET p == Going(frames, states, loops, branches) IN
         /\ NewFrame(p) = Going(Append(frames, <<>>), states, loops, branches)
         /\ PushState(p, tag, id) = Going(frames, Append(states, <<tag, id>>), loops, branches)
<1> DEFINE p == Going(frames, states, loops, branches)
<1>1. p.frames = frames /\ p.states = states  BY Changed
<1>2. NewFrame(p) = [p EXCEPT !.frames = Append(frames, <<>>)]  BY <1>1 DEF NewFrame
<1>3. PushState(p, tag, id) = [p EXCEPT !.states = Append(states, <<tag, id>>)]
  BY <1>1 DEF PushState
<1>4. PICK x : x = Append(frames, <<>>)  OBVIOUS
<1>5. PICK y : y = Append(states, <<tag, id>>)  OBVIOUS
<1>6. /\ [p EXCEPT !.frames = x] = Going(x, states, loops, branches)
      /\ [p EXCEPT !.states = y] = Going(frames, y, loops, branches)
  BY DEF Going
<1> QED  BY <1>2, <1>3, <1>4, <1>5, <1>6

\* Code is added to the innermost frame, which there is.
LEMMA Emits ==
  ASSUME NEW frames, frames # <<>>, NEW states, NEW loops, NEW branches, NEW parts
  PROVE  Emit(Going(frames, states, loops, branches), parts)
         = Going(Extended(frames, parts), states, loops, branches)
BY DEF Emit, Require, Going, Extended

LEMMA StartGoes ==
  ASSUME NEW frames, NEW states, NEW loops, NEW branches, NEW node
  PROVE  On("start", Going(frames, states, loops, branches), node)
         = Going(Append(frames, <<>>), Append(states, <<"Start", NoId>>), loops, branches)
BY DEF On, Start, NewFrame, PushState, Going

\* The events of a node that is passed.
LEMMA PassGoes ==
  ASSUME NEW frames, frames # <<>>, NEW states, NEW loops, NEW branches, NEW node,
         NEW event \in {"enter_scope", "exit_scope", "block", "ret", "cont", "br"}
  PROVE  \E parts : On(event, Going(frames, states, loops, branches), node)
                    \in {Going(frames, states, loops, branches),
                         Going(Extended(frames, parts), states, loops, branches)}
<1> DEFINE p == Going(frames, states, loops, branches)
<1> HIDE DEF p
<1>1. CASE event = "block"
  <2>1. On(event, p, node) = Emit(p, BlockCode(node.stmts))  BY <1>1 DEF On
  <2> QED  BY <2>1, Emits DEF p
<1>2. CASE event = "ret"
  <2>1. On(event, p, node) = Emit(p, ReturnCode(node.stmt))  BY <1>2 DEF On
  <2> QED  BY <2>1, Emits DEF p
<1>3. CASE event = "cont"
  <2>1. On(event, p, node) = Emit(p, <<Mark("Continue", node.id)>>)  BY <1>3 DEF On
  <2> QED  BY <2>1, Emits DEF p
<1>4. CASE event = "br"
  <2>1. On(event, p, node) = Emit(p, <<Mark("Break", node.id)>>)  BY <1>4 DEF On
  <2> QED  BY <2>1, Emits DEF p
<1>5. CASE event \in {"enter_scope", "exit_scope"}
  <2>1. On(event, p, node) = p  BY <1>5 DEF On
  <2> QED  BY <2>1 DEF p
<1> QED  BY <1>1, <1>2, <1>3, <1>4, <1>5

\* A loop with its body, a branch with the code of a path.
Bodied(loops, id, code) == [loops EXCEPT ![id].body = code]
Coded(branches, id, side, code) == [branches EXCEPT ![id][side] = code]

\* What is kept of a loop or branch that is entered.
HeadEntry(node) ==
  [condition |-> CondCode(node.cond), result |-> CondResult(node.cond), body |-> None]
SplitEntry(node) ==
  [condition |-> CondCode(node.cond), result |-> CondResult(node.cond),
   true |-> None, false |-> None]

LEMMA NothingYet ==
  ASSUME NEW node
  PROVE  /\ HeadEntry(node).body = None
         /\ {"true", "false"} \subseteq DOMAIN SplitEntry(node)
         /\ SplitEntry(node)["true"] = None /\ SplitEntry(node)["false"] = None
BY DEF HeadEntry, SplitEntry

LEMMA HeadGoes ==
  ASSUME NEW frames, frames # <<>>, NEW states, NEW loops, NEW branches, NEW node,
         node.id \notin DOMAIN loops
  PROVE  On("loop_head", Going(frames, states, loops, branches), node)
         = Going(Append(Extended(frames, <<Mark("Loop", node.id)>>), <<>>),
                 Append(states, <<"Loop", node.id>>), Insert(loops, node.id, HeadEntry(node)), branches)
<1> DEFINE p == Going(frames, states, loops, branches)
           parts == <<Mark("Loop", node.id)>>
           entry == HeadEntry(node)
           q == Going(Extended(frames, parts), states, loops, branches)
<1>1. Emit(p, parts) = q  BY Emits
<1>2. PushState(NewFrame(q), "Loop", node.id)
      = Going(Append(Extended(frames, parts), <<>>), Append(states, <<"Loop", node.id>>),
              loops, branches)
  BY Pushes
<1>3. On("loop_head", p, node) = LoopHead(p, node)  BY DEF On
<1>4. LoopHead(p, node)
      = [PushState(NewFrame(Emit(p, parts)), "Loop", node.id)
           EXCEPT !.loops = Insert(@, node.id, entry)]
  BY DEF LoopHead, Require, Going, HeadEntry
<1> HIDE DEF parts, entry
<1>6. LoopHead(p, node)
      = Going(Append(Extended(frames, parts), <<>>), Append(states, <<"Loop", node.id>>),
              Insert(loops, node.id, entry), branches)
  <2>1. PICK r : r = PushState(NewFrame(q), "Loop", node.id)  OBVIOUS
  <2>2. r.loops = loops  BY <1>2, <2>1, Changed
  <2>3. LoopHead(p, node) = [r EXCEPT !.loops = Insert(loops, node.id, entry)]
    BY <1>1, <1>4, <2>1, <2>2
  <2>4. PICK f : f = Append(Extended(frames, parts), <<>>)  OBVIOUS
  <2>5. PICK w : w = Append(states, <<"Loop", node.id>>)  OBVIOUS
  <2>6. PICK l : l = Insert(loops, node.id, entry)  OBVIOUS
  <2>7. r = Going(f, w, loops, branches)  BY <1>2, <2>1, <2>4, <2>5
  <2>8. LoopHead(p, node) = Going(f, w, l, branches)  BY <2>3, <2>6, <2>7 DEF Going
  <2> QED  BY <2>4, <2>5, <2>6, <2>8
<1> QED  BY <1>3, <1>6 DEF parts, entry

LEMMA SplitGoes ==
  ASSUME NEW frames, frames # <<>>, NEW states, NEW loops, NEW branches, NEW node,
         node.id \notin DOMAIN branches
  PROVE  On("branch_split", Going(frames, states, loops, branches), node)
         = Going(Extended(frames, <<Mark("Branch", node.id)>>), Append(states, <<"Branching", node.id>>),
                 loops, Insert(branches, node.id, SplitEntry(node)))
<1> DEFINE p == Going(frames, states, loops, branches)
           parts == <<Mark("Branch", node.id)>>
           entry == SplitEntry(node)
           q == Going(Extended(frames, parts), states, loops, branches)
<1>1. Emit(p, parts) = q  BY Emits
<1>2. PushState(q, "Branching", node.id)
      = Going(Extended(frames, parts), Append(states, <<"Branching", node.id>>), loops, branches)
  BY Pushes
<1>3. On("branch_split", p, node) = BranchSplit(p, node)  BY DEF On
<1>4. BranchSplit(p, node)
      = [PushState(Emit(p, parts), "Branching", node.id)
           EXCEPT !.branches = Insert(@, node.id, entry)]
  BY DEF BranchSplit, Require, Going, SplitEntry
<1> HIDE DEF parts, entry
<1>6. BranchSplit(p, node)
      = Going(Extended(frames, parts), Append(states, <<"Branching", node.id>>),
              loops, Insert(branches, node.id, entry))
  BY <1>1, <1>2, <1>4, Changed
<1> QED  BY <1>3, <1>6 DEF parts, entry

LEMMA FootGoes ==
  ASSUME NEW frames, frames # <<>>, NEW states, states # <<>>, NEW loops, NEW branches, NEW node,
         Last(states) = <<"Loop", node.id>>, loops[node.id].body = None
  PROVE  On("loop_foot", Going(frames, states, loops, branches), node)
         = Going(Front(frames), Front(states), Bodied(loops, node.id, <<Last(frames)>>), branches)
<1> DEFINE p == Going(frames, states, loops, branches)
<1>1. On("loop_foot", p, node) = LoopFoot(p, node)  BY DEF On
<1>2. LoopFoot(p, node)
      = [p EXCEPT !.states = Front(@), !.frames = Front(@),
                  !.loops[node.id].body = <<Last(p.frames)>>]
  BY DEF LoopFoot, Require, InState, Going
<1> DEFINE q == [p EXCEPT !.states = Front(states)]
           r == [q EXCEPT !.frames = Front(frames)]
           code == <<Last(frames)>>
<1>3. LoopFoot(p, node) = [r EXCEPT !.loops[node.id].body = code]
  <2>1. p.states = states /\ p.frames = frames  BY Changed
  <2> QED  BY <1>2, <2>1
<1>4. q = Going(frames, Front(states), loops, branches)  BY Changed
<1>5. r = Going(Front(frames), Front(states), loops, branches)
  <2> HIDE DEF q
  <2> QED  BY <1>4, Changed
<1> HIDE DEF q, r, code
<1>6. [r EXCEPT !.loops[node.id].body = code]
      = Going(Front(frames), Front(states), [loops EXCEPT ![node.id].body = code], branches)
  <2>1. PICK f : f = Front(frames)  OBVIOUS
  <2>2. PICK w : w = Front(states)  OBVIOUS
  <2>3. PICK id : id = node.id  OBVIOUS
  <2>4. r = Going(f, w, loops, branches)  BY <1>5, <2>1, <2>2
  <2>5. [r EXCEPT !.loops[id].body = code] = Going(f, w, [loops EXCEPT ![id].body = code], branches)
    BY <2>4 DEF Going
  <2> QED  BY <2>1, <2>2, <2>3, <2>5
<1> QED  BY <1>1, <1>3, <1>6 DEF code, Bodied

LEMMA PathGoes ==
  ASSUME NEW frames, frames # <<>>, NEW states, states # <<>>, NEW loops, NEW branches, NEW id,
         Last(states) = <<"Branching", id>>, NEW side \in {"true", "false"},
         branches[id][side] = None
  PROVE  EndPath(Going(frames, states, loops, branches), side)
         = Going(Front(frames), states, loops, Coded(branches, id, side, <<Last(frames)>>))
<1> DEFINE p == Going(frames, states, loops, branches)
<1>1. Last(p.states)[1] = "Branching" /\ Last(p.states)[2] = id  BY DEF Going
<1>2. EndPath(p, side)
      = [p EXCEPT !.frames = Front(@), !.branches[id][side] = <<Last(p.frames)>>]
  BY <1>1 DEF EndPath, Require, Going
<1> DEFINE q == [p EXCEPT !.frames = Front(frames)]
           code == <<Last(frames)>>
<1>3. EndPath(p, side) = [q EXCEPT !.branches[id][side] = code]
  <2>1. p.frames = frames  BY Changed
  <2> QED  BY <1>2, <2>1
<1>4. q = Going(Front(frames), states, loops, branches)  BY Changed
<1> HIDE DEF q, code
<1>5. [q EXCEPT !.branches[id][side] = code]
      = Going(Front(frames), states, loops, [branches EXCEPT ![id][side] = code])
  <2>1. PICK f : f = Front(frames)  OBVIOUS
  <2>2. q = Going(f, states, loops, branches)  BY <1>4, <2>1
  <2>3. [q EXCEPT !.branches[id][side] = code]
        = Going(f, states, loops, [branches EXCEPT ![id][side] = code])
    BY <2>2 DEF Going
  <2> QED  BY <2>1, <2>3
<1> QED  BY <1>3, <1>5 DEF code, Coded

LEMMA MergeGoes ==
  ASSUME NEW frames, NEW states, states # <<>>, NEW loops, NEW branches, NEW node,
         Last(states) = <<"Branching", node.id>>
  PROVE  On("branch_merge", Going(frames, states, loops, branches), node)
         = Going(frames, Front(states), loops, branches)
BY DEF On, BranchMerge, Require, InState, Going

\* A new frame for a path of a branch; nothing for that of a loop.
LEMMA PathStarts ==
  ASSUME NEW frames, NEW states, NEW loops, NEW branches, NEW node
  PROVE  LET p == Going(frames, states, loops, branches) IN
         /\ On("loop_start_true_path", p, node) = p
         /\ On("loop_end_true_path", p, node) = p
         /\ On("branch_start_true_path", p, node) = Going(Append(frames, <<>>), states, loops, branches)
         /\ On("branch_start_false_path", p, node) = Going(Append(frames, <<>>), states, loops, branches)
         /\ On("branch_end_true_path", p, node) = EndPath(p, "true")
         /\ On("branch_end_false_path", p, node) = EndPath(p, "false")
BY DEF On, NewFrame, Going

LEMMA EndGoes ==
  ASSUME NEW frames, frames # <<>>, NEW states, states # <<>>, NEW loops, NEW branches, NEW node,
         Last(states) = <<"Start", NoId>>
  PROVE  On("end", Going(frames, states, loops, branches), node).outcome = "going"
BY DEF On, End, Require, InState, Going

-----------------------------------------------------------------------------
(* What the passenger carries stays in step. *)

LEMMA ToldOne ==
  ASSUME NEW event, passenger.outcome = "going"
  PROVE  Told(<<event>>) = On(event, passenger, Node)
BY DEF Told, Tell

LEMMA ToldBoth ==
  ASSUME NEW first, NEW second, NEW p, passenger.outcome = "going",
         p = On(first, passenger, Node), p.outcome = "going"
  PROVE  Told(<<first, second>>) = On(second, p, Node)
BY DEF Told, Tell

\* The ids of what was seen, with the current node.
LEMMA MoreIds ==
  ASSUME UNCHANGED <<fn, cfg>>, Seen' = Seen \cup {Inmost.cur}
  PROVE  /\ K(Inmost.cur) # "LoopHead" => Ids("LoopHead")' = Ids("LoopHead")
         /\ K(Inmost.cur) = "LoopHead" => Ids("LoopHead")' = Ids("LoopHead") \cup {IdOf(Inmost.cur)}
         /\ K(Inmost.cur) # "BranchSplit" => Ids("BranchSplit")' = Ids("BranchSplit")
         /\ K(Inmost.cur) = "BranchSplit" =>
              Ids("BranchSplit")' = Ids("BranchSplit") \cup {IdOf(Inmost.cur)}
<1>1. \A n : IdOf(n)' = IdOf(n) /\ K(n)' = K(n)  BY SameNodes
<1>2. Ids("LoopHead")' = {IdOf(n) : n \in {m \in Seen \cup {Inmost.cur} : K(m) = "LoopHead"}}
  BY <1>1 DEF Ids
<1>3. Ids("BranchSplit")' = {IdOf(n) : n \in {m \in Seen \cup {Inmost.cur} : K(m) = "BranchSplit"}}
  BY <1>1 DEF Ids
<1> QED  BY <1>2, <1>3 DEF Ids

\* How what is carried is shown to fit the loops.
LEMMA Fits ==
  ASSUME UNCHANGED <<fn, cfg>>, NEW frames, NEW states, NEW loops, NEW branches,
         passenger' = Going(frames, states, loops, branches), IsSeq(frames), IsSeq(states),
         DOMAIN loops = Ids("LoopHead")', DOMAIN branches = Ids("BranchSplit")',
         visited' # <<>>, StartNode \in Seen',
         Len(frames) = Len(visits'), Len(states) = Len(visits'), states[1] = <<"Start", NoId>>,
         \A i \in 2 .. Len(visits') : Backed(visits'[i], states[i], loops, branches)
  PROVE  Carried'
<1>1. /\ passenger'.frames = frames /\ passenger'.states = states
      /\ passenger'.loops = loops /\ passenger'.branches = branches
  BY Changed
<1>2. \A i \in 2 .. Len(visits') :
        Backed(visits[i], passenger.states[i], passenger.loops, passenger.branches)'
        <=> Backed(visits'[i], states[i], loops, branches)
  BY <1>1, SameNodes DEF Backed
<1> QED  BY <1>1, <1>2 DEF Carried

\* What is carried once the start was visited.
LEMMA Carries ==
  ASSUME Sound, Carried, visited # <<>>
  PROVE  LET p == passenger
             n == Len(visits)
         IN  /\ p = Going(p.frames, p.states, p.loops, p.branches) /\ p.outcome = "going"
             /\ IsSeq(p.frames) /\ IsSeq(p.states) /\ n \in Nat \ {0}
             /\ Len(p.frames) = n /\ Len(p.states) = n
             /\ p.frames # <<>> /\ p.states # <<>>
             /\ DOMAIN p.loops = Ids("LoopHead") /\ DOMAIN p.branches = Ids("BranchSplit")
             /\ StartNode \in Seen /\ p.states[1] = <<"Start", NoId>>
             /\ \A i \in 2 .. n : Backed(visits[i], p.states[i], p.loops, p.branches)
             /\ Last(p.states) = p.states[n]
<1>1. Len(visits) \in Nat \ {0}  BY Innermost DEF Sound
<1>2. /\ Len(passenger.frames) = Len(visits) /\ Len(passenger.states) = Len(visits)
      /\ IsSeq(passenger.frames) /\ IsSeq(passenger.states)
  BY DEF Carried
<1>3. passenger.frames # <<>> /\ passenger.states # <<>>  BY <1>1, <1>2
<1>4. passenger.outcome = "going"  BY DEF Carried, Going
<1> QED  BY <1>1, <1>2, <1>3, <1>4 DEF Carried, Last

\* The inner loops are those of splits and heads that were seen.
LEMMA Inside ==
  ASSUME Sound, NEW i \in 2 .. Len(visits)
  PROVE  /\ i \in 1 .. Len(visits) /\ visits[i].at \in Nodes /\ visits[i].at \in Seen
         /\ visits[i].path \in {"true", "false", "loop"}
         /\ visits[i].path = "loop" =>
              K(visits[i].at) = "LoopHead" /\ IdOf(visits[i].at) \in Ids("LoopHead")
         /\ visits[i].path # "loop" =>
              K(visits[i].at) = "BranchSplit" /\ IdOf(visits[i].at) \in Ids("BranchSplit")
<1>1. /\ i \in 1 .. Len(visits) /\ i > 1 /\ i - 1 \in 1 .. Len(visits) /\ i - 1 < Len(visits)
      /\ (i - 1) + 1 = i
  BY Innermost DEF Sound
<1>2. visits[i].at \in Nodes /\ visits[i].at \in Seen  BY <1>1, Opened
<1>3. /\ visits[i].path # "main" /\ \E p \in Paths : p[1] = K(visits[i].at) /\ p[2] = visits[i].path
  BY <1>1 DEF Sound, Standing
<1>4. visits[i].path \in {"main", "true", "false", "loop"}  BY <1>1, Innermost DEF Sound
<1>5. /\ visits[i].path = "loop" => K(visits[i].at) = "LoopHead"
      /\ visits[i].path # "loop" => K(visits[i].at) = "BranchSplit"
  BY <1>3, <1>4 DEF Paths
<1> QED  BY <1>1, <1>2, <1>3, <1>4, <1>5 DEF Ids

\* Not the split or head that is entered.
LEMMA NewId ==
  ASSUME Sound
  PROVE  /\ K(Inmost.cur) = "LoopHead" => IdOf(Inmost.cur) \notin Ids("LoopHead")
         /\ K(Inmost.cur) = "BranchSplit" => IdOf(Inmost.cur) \notin Ids("BranchSplit")
<1>1. Inmost.cur \in Nodes /\ Inmost.cur \notin Seen  BY Fresh
<1>2. \A n \in Seen : n \in Nodes  BY DEF Sound, Typed, Seen
<1>3. ASSUME K(Inmost.cur) \in Openers, IdOf(Inmost.cur) \in Ids(K(Inmost.cur)) PROVE FALSE
  <2>1. PICK m \in Seen : K(m) = K(Inmost.cur) /\ IdOf(m) = IdOf(Inmost.cur)  BY <1>3 DEF Ids
  <2> QED  BY <1>1, <1>2, <1>3, <2>1, OwnIds DEF Sound
<1> QED  BY <1>3 DEF Openers

\* A node is passed.
LEMMA PassCarries ==
  ASSUME Sound, Carried, visited # <<>>, UNCHANGED <<fn, cfg>>, NEW next \in Nodes,
         K(Inmost.cur) \notin Openers, visits' = GoesOn(visits, next),
         visited' = Append(visited, Inmost.cur),
         NEW frames, IsSeq(frames), Len(frames) = Len(passenger.frames),
         passenger' = Going(frames, passenger.states, passenger.loops, passenger.branches)
  PROVE  Carried'
<1>1. PICK n : n = Len(visits)  OBVIOUS
<1>2. /\ n \in Nat \ {0} /\ Len(visits') = n
      /\ \A i \in 1 .. n : visits'[i].path = visits[i].path /\ visits'[i].at = visits[i].at
  <2>1. visits \in Seq(Visits) /\ visits # <<>>  BY DEF Sound, Typed
  <2>2. /\ Len(visits') = n /\ n \in Nat \ {0}
        /\ \A i \in 1 .. n - 1 : visits'[i] = visits[i]
        /\ visits'[n] = [path |-> visits[n].path, at |-> visits[n].at, cur |-> next,
                         rounds |-> visits[n].rounds + 1]
    BY <1>1, <2>1, WentOn
  <2>3. \A i \in 1 .. n : i \in 1 .. n - 1 \/ i = n  BY <2>2
  <2> QED  BY <2>2, <2>3
<1>3. Seen' = Seen \cup {Inmost.cur} /\ visited' # <<>>
  BY Added DEF Sound, Typed
<1>4. Ids("LoopHead")' = Ids("LoopHead") /\ Ids("BranchSplit")' = Ids("BranchSplit")
  BY <1>3, MoreIds DEF Openers
<1>5. \A i \in 2 .. n : Backed(visits'[i], passenger.states[i], passenger.loops, passenger.branches)
  <2>1. \A i \in 2 .. n : Backed(visits[i], passenger.states[i], passenger.loops, passenger.branches)
    BY <1>1, Carries
  <2>2. \A i \in 2 .. n : i \in 1 .. n  BY <1>2
  <2> QED  BY <1>2, <2>1, <2>2 DEF Backed
<1> QED  BY <1>1, <1>2, <1>3, <1>4, <1>5, Carries, Fits

\* What is carried when the start was visited, before which nothing was.
LEMMA StartTold ==
  ASSUME Sound, Carried, Inmost.cur = StartNode
  PROVE  /\ Seen = {} /\ Len(visits) = 1
         /\ Told(<<"start">>)
            = Going(Append(<<>>, <<>>), Append(<<>>, <<"Start", NoId>>), passenger.loops,
                    passenger.branches)
<1> DEFINE p == passenger
<1>1. visited = <<>>
  <2>1. StartNode \notin Seen  BY Fresh
  <2> QED  BY <2>1 DEF Carried
<1>2. /\ p = Going(<<>>, <<>>, p.loops, p.branches) /\ p.outcome = "going"
  <2>1. p.frames = <<>> /\ p.states = <<>>  BY <1>1 DEF Carried
  <2> QED  BY <2>1 DEF Carried, Going
<1>3. Told(<<"start">>)
      = Going(Append(<<>>, <<>>), Append(<<>>, <<"Start", NoId>>), p.loops, p.branches)
  <2>1. Told(<<"start">>) = On("start", p, Node)  BY <1>2, ToldOne
  <2>2. On("start", Going(<<>>, <<>>, p.loops, p.branches), Node)
        = Going(Append(<<>>, <<>>), Append(<<>>, <<"Start", NoId>>), p.loops, p.branches)
    BY StartGoes
  <2>3. p = Going(<<>>, <<>>, p.loops, p.branches)  BY <1>2
  <2> HIDE DEF p
  <2> QED  BY <2>1, <2>2, <2>3
<1>4. Len(visits) = 1
  <2>1. visits[1].at = Nowhere  BY DEF Sound, Standing
  <2>2. /\ Len(visits) \in Nat \ {0} /\ Len(visits) \in 1 .. Len(visits) /\ 1 \in 1 .. Len(visits)
        /\ Inmost = visits[Len(visits)] /\ StartNode \in Nodes
    BY Innermost DEF Sound
  <2>3. K(StartNode) = "Start"  BY <2>2, Places DEF Sound
  <2>4. Lay[StartNode].of = visits[Len(visits)].at
    BY <2>2, <2>3, Stands DEF Sound, Closers
  <2>5. Lay[StartNode].of = Nowhere  BY DEF Sound, NestedBy, LiesOn
  <2> QED  BY <2>1, <2>2, <2>4, <2>5, Apart DEF Sound
<1> QED  BY <1>1, <1>3, <1>4 DEF Seen

\* The first frame and state are those of the function.
LEMMA StartCarries ==
  ASSUME Sound, Carried, Inmost.cur = StartNode, UNCHANGED <<fn, cfg>>, NEW next \in Nodes,
         visits' = GoesOn(visits, next), visited' = Append(visited, Inmost.cur),
         passenger' = Told(<<"start">>)
  PROVE  Carried' /\ passenger'.outcome = "going"
<1> DEFINE p == passenger
<1>1. visited = <<>>
  <2>1. StartNode \notin Seen  BY Fresh
  <2> QED  BY <2>1 DEF Carried
<1>2. /\ p = Going(<<>>, <<>>, p.loops, p.branches) /\ p.outcome = "going"
      /\ DOMAIN p.loops = Ids("LoopHead") /\ DOMAIN p.branches = Ids("BranchSplit")
  <2>1. p.frames = <<>> /\ p.states = <<>>  BY <1>1 DEF Carried
  <2> QED  BY <2>1 DEF Carried, Going
<1>3. passenger' = Going(Append(<<>>, <<>>), Append(<<>>, <<"Start", NoId>>), p.loops, p.branches)
  BY StartTold
<1>4. IsSeq(<<>>)  BY DEF IsSeq
<1>5. /\ IsSeq(Append(<<>>, <<>>)) /\ Len(Append(<<>>, <<>>)) = 1
      /\ IsSeq(Append(<<>>, <<"Start", NoId>>)) /\ Len(Append(<<>>, <<"Start", NoId>>)) = 1
      /\ Append(<<>>, <<"Start", NoId>>)[1] = <<"Start", NoId>>
  <2>1. PICK x : x = <<"Start", NoId>>  OBVIOUS
  <2>2. Len(<<>>) = 0 /\ 0 + 1 = 1  OBVIOUS
  <2>3. IsSeq(Append(<<>>, x)) /\ Len(Append(<<>>, x)) = 1 /\ Append(<<>>, x)[1] = x
    <3>1. PICK e : e = <<>>  OBVIOUS
    <3>2. IsSeq(e) /\ Len(e) + 1 = 1  BY <1>4, <2>2, <3>1
    <3>3. /\ IsSeq(Append(e, x)) /\ Len(Append(e, x)) = Len(e) + 1
          /\ Append(e, x)[Len(e) + 1] = x
      BY <3>2, PushedAny
    <3> QED  BY <3>1, <3>2, <3>3
  <2>4. IsSeq(Append(<<>>, <<>>)) /\ Len(Append(<<>>, <<>>)) = 1  BY <1>4, <2>2, PushedAny
  <2> QED  BY <2>1, <2>3, <2>4
<1>6. Len(visits) = 1  BY StartTold
<1>7. Len(visits') = 1
  <2>1. visits \in Seq(Visits) /\ visits # <<>>  BY DEF Sound, Typed
  <2> QED  BY <1>6, <2>1, WentOn
<1>8. Seen' = Seen \cup {Inmost.cur} /\ visited' # <<>>  BY Added DEF Sound, Typed
<1>9. Ids("LoopHead")' = Ids("LoopHead") /\ Ids("BranchSplit")' = Ids("BranchSplit")
  <2>1. K(Inmost.cur) = "Start"  BY Fresh, Places DEF Sound
  <2> QED  BY <1>8, <2>1, MoreIds
<1>10. \A i \in 2 .. Len(visits') : FALSE  BY <1>7
<1>11. passenger'.outcome = "going"  BY <1>3 DEF Going
<1> HIDE DEF p
<1> QED  BY <1>2, <1>3, <1>5, <1>7, <1>8, <1>9, <1>10, <1>11, Fits

\* The loops around a loop that is entered.
LEMMA Entered ==
  ASSUME Sound, NEW path \in {"true", "loop"}, NEW next \in Nodes,
         visits' = Append(visits, Visit(path, Inmost.cur, next))
  PROVE  LET n == Len(visits) IN
         /\ n \in Nat \ {0} /\ Len(visits') = n + 1
         /\ \A i \in 1 .. n : visits'[i] = visits[i]
         /\ visits'[n + 1].path = path /\ visits'[n + 1].at = Inmost.cur
<1>1. visits \in Seq(Visits) /\ Inmost.cur \in Nodes /\ Len(visits) \in Nat \ {0}
  BY Innermost DEF Sound, Typed
<1>2. Visit(path, Inmost.cur, next) \in Visits  BY <1>1 DEF Visit, Visits
<1>3. /\ Visit(path, Inmost.cur, next).path = path /\ Visit(path, Inmost.cur, next).at = Inmost.cur
  BY DEF Visit
<1> QED  BY <1>1, <1>2, <1>3, Pushed

\* What is carried when a head was entered.
LEMMA HeadTold ==
  ASSUME Sound, Carried, visited # <<>>, K(Inmost.cur) = "LoopHead"
  PROVE  LET p == passenger
             id == IdOf(Inmost.cur)
         IN  Told(<<"loop_head", "loop_start_true_path">>)
             = Going(Append(Extended(p.frames, <<Mark("Loop", id)>>), <<>>),
                     Append(p.states, <<"Loop", id>>), Insert(p.loops, id, HeadEntry(Node)), p.branches)
<1>1. PICK p : p = passenger  OBVIOUS
<1>2. PICK id : id = IdOf(Inmost.cur)  OBVIOUS
<1>3. /\ p = Going(p.frames, p.states, p.loops, p.branches) /\ p.outcome = "going"
      /\ p.frames # <<>> /\ DOMAIN p.loops = Ids("LoopHead")
  BY <1>1, Carries
<1>4. Node.id = id /\ id \notin DOMAIN p.loops  BY <1>2, <1>3, NewId DEF Node, IdOf, Here, Inmost
<1>5. PICK f : f = Append(Extended(p.frames, <<Mark("Loop", id)>>), <<>>)  OBVIOUS
<1>6. PICK s : s = Append(p.states, <<"Loop", id>>)  OBVIOUS
<1>7. PICK l : l = Insert(p.loops, id, HeadEntry(Node))  OBVIOUS
<1>8. On("loop_head", passenger, Node) = Going(f, s, l, p.branches)
  <2>1. On("loop_head", Going(p.frames, p.states, p.loops, p.branches), Node)
        = Going(Append(Extended(p.frames, <<Mark("Loop", Node.id)>>), <<>>),
                Append(p.states, <<"Loop", Node.id>>), Insert(p.loops, Node.id, HeadEntry(Node)),
                p.branches)
    <3>1. p.frames # <<>> /\ Node.id \notin DOMAIN p.loops  BY <1>3, <1>4
    <3> QED  BY <3>1, HeadGoes
  <2>2. p = Going(p.frames, p.states, p.loops, p.branches) /\ Node.id = id  BY <1>3, <1>4
  <2> QED  BY <1>1, <1>5, <1>6, <1>7, <2>1, <2>2
<1>9. Going(f, s, l, p.branches).outcome = "going"  BY Changed
<1>10. Told(<<"loop_head", "loop_start_true_path">>)
       = On("loop_start_true_path", Going(f, s, l, p.branches), Node)
  BY <1>1, <1>3, <1>8, <1>9, ToldBoth
<1> QED  BY <1>1, <1>2, <1>5, <1>6, <1>7, <1>10, PathStarts

\* A head adds a frame and a state for its body.
LEMMA HeadCarries ==
  ASSUME Sound, Carried, visited # <<>>, K(Inmost.cur) = "LoopHead", UNCHANGED <<fn, cfg>>,
         NEW next \in Nodes,
         passenger'.outcome = "going" => visits' = Append(visits, Visit("loop", Inmost.cur, next)),
         visited' = Append(visited, Inmost.cur),
         passenger' = Told(<<"loop_head", "loop_start_true_path">>)
  PROVE  Carried' /\ passenger'.outcome = "going"
<1>1. PICK n : n = Len(visits)  OBVIOUS
<1>2. PICK p : p = passenger  OBVIOUS
<1>3. PICK id : id = IdOf(Inmost.cur)  OBVIOUS
<1>4. /\ p = Going(p.frames, p.states, p.loops, p.branches) /\ p.outcome = "going"
      /\ p.frames # <<>> /\ IsSeq(p.frames) /\ IsSeq(p.states) /\ n \in Nat \ {0}
      /\ Len(p.frames) = n /\ Len(p.states) = n
      /\ DOMAIN p.loops = Ids("LoopHead") /\ DOMAIN p.branches = Ids("BranchSplit")
      /\ StartNode \in Seen /\ p.states[1] = <<"Start", NoId>>
      /\ \A i \in 2 .. n : Backed(visits[i], p.states[i], p.loops, p.branches)
  BY <1>1, <1>2, Carries
<1>5. Node.id = id /\ id \notin DOMAIN p.loops  BY <1>3, <1>4, NewId DEF Node, IdOf, Here, Inmost
<1>6. PICK parts : parts = <<Mark("Loop", id)>>  OBVIOUS
<1>7. PICK f : f = Append(Extended(p.frames, parts), <<>>)  OBVIOUS
<1>8. PICK s : s = Append(p.states, <<"Loop", id>>)  OBVIOUS
<1>9. PICK l : l = Insert(p.loops, id, HeadEntry(Node))  OBVIOUS
<1>10. /\ IsSeq(f) /\ Len(f) = n + 1 /\ IsSeq(s) /\ Len(s) = n + 1
       /\ \A i \in 1 .. n : s[i] = p.states[i]
       /\ s[n + 1] = <<"Loop", id>>
  BY <1>4, <1>7, <1>8, ExtendedAny, PushedAny
<1>11. DOMAIN l = DOMAIN p.loops \cup {id} /\ l[id].body = None
       /\ \A x \in DOMAIN p.loops : x # id => l[x] = p.loops[x]
  BY <1>9, NothingYet DEF Insert
<1>12. passenger' = Going(f, s, l, p.branches) /\ passenger'.outcome = "going"
  <2>1. passenger' = Going(f, s, l, p.branches)
    BY <1>2, <1>3, <1>6, <1>7, <1>8, <1>9, HeadTold
  <2> QED  BY <2>1, Changed
<1>13. Seen' = Seen \cup {Inmost.cur} /\ visited' # <<>>  BY Added DEF Sound, Typed
<1>14. DOMAIN l = Ids("LoopHead")' /\ DOMAIN p.branches = Ids("BranchSplit")'
  BY <1>3, <1>4, <1>11, <1>13, MoreIds
<1>15. /\ Len(visits') = n + 1 /\ \A i \in 1 .. n : visits'[i] = visits[i]
       /\ visits'[n + 1].path = "loop" /\ visits'[n + 1].at = Inmost.cur
  BY <1>1, <1>12, Entered
<1>16. ASSUME NEW i \in 2 .. n + 1 PROVE Backed(visits'[i], s[i], l, p.branches)
  <2>1. CASE i = n + 1  BY <1>3, <1>10, <1>11, <1>15, <2>1 DEF Backed
  <2>2. CASE i \in 2 .. n
    <3>1. visits'[i] = visits[i] /\ s[i] = p.states[i]  BY <1>4, <1>10, <1>15, <2>2
    <3>2. Backed(visits[i], p.states[i], p.loops, p.branches)  BY <1>4, <2>2
    <3>3. visits[i].path = "loop" => IdOf(visits[i].at) \in DOMAIN p.loops /\ IdOf(visits[i].at) # id
      BY <1>1, <1>4, <1>5, <2>2, Inside
    <3> QED  BY <1>11, <3>1, <3>2, <3>3 DEF Backed
  <2>3. i = n + 1 \/ i \in 2 .. n
    <3>1. n \in Nat  BY <1>4
    <3> QED  BY <3>1
  <2> QED  BY <2>1, <2>2, <2>3
<1>17. s[1] = <<"Start", NoId>> /\ StartNode \in Seen'  BY <1>4, <1>10, <1>13
<1> QED  BY <1>10, <1>12, <1>13, <1>14, <1>15, <1>16, <1>17, Fits

\* What is carried when a split was entered.
LEMMA SplitTold ==
  ASSUME Sound, Carried, visited # <<>>, K(Inmost.cur) = "BranchSplit"
  PROVE  LET p == passenger
             id == IdOf(Inmost.cur)
         IN  Told(<<"branch_split", "branch_start_true_path">>)
             = Going(Append(Extended(p.frames, <<Mark("Branch", id)>>), <<>>),
                     Append(p.states, <<"Branching", id>>), p.loops,
                     Insert(p.branches, id, SplitEntry(Node)))
<1>1. PICK p : p = passenger  OBVIOUS
<1>2. PICK id : id = IdOf(Inmost.cur)  OBVIOUS
<1>3. /\ p = Going(p.frames, p.states, p.loops, p.branches) /\ p.outcome = "going"
      /\ p.frames # <<>> /\ DOMAIN p.branches = Ids("BranchSplit")
  BY <1>1, Carries
<1>4. Node.id = id /\ id \notin DOMAIN p.branches  BY <1>2, <1>3, NewId DEF Node, IdOf, Here, Inmost
<1>5. PICK e : e = Extended(p.frames, <<Mark("Branch", id)>>)  OBVIOUS
<1>6. PICK s : s = Append(p.states, <<"Branching", id>>)  OBVIOUS
<1>7. PICK b : b = Insert(p.branches, id, SplitEntry(Node))  OBVIOUS
<1>8. On("branch_split", passenger, Node) = Going(e, s, p.loops, b)
  <2>1. On("branch_split", Going(p.frames, p.states, p.loops, p.branches), Node)
        = Going(Extended(p.frames, <<Mark("Branch", Node.id)>>),
                Append(p.states, <<"Branching", Node.id>>), p.loops,
                Insert(p.branches, Node.id, SplitEntry(Node)))
    <3>1. p.frames # <<>> /\ Node.id \notin DOMAIN p.branches  BY <1>3, <1>4
    <3> QED  BY <3>1, SplitGoes
  <2>2. p = Going(p.frames, p.states, p.loops, p.branches) /\ Node.id = id  BY <1>3, <1>4
  <2> QED  BY <1>1, <1>5, <1>6, <1>7, <2>1, <2>2
<1>9. Going(e, s, p.loops, b).outcome = "going"  BY Changed
<1>10. Told(<<"branch_split", "branch_start_true_path">>)
       = On("branch_start_true_path", Going(e, s, p.loops, b), Node)
  BY <1>1, <1>3, <1>8, <1>9, ToldBoth
<1>11. Told(<<"branch_split", "branch_start_true_path">>) = Going(Append(e, <<>>), s, p.loops, b)
  BY <1>10, PathStarts
<1> QED  BY <1>1, <1>2, <1>5, <1>6, <1>7, <1>11

\* A split adds a state, its true path a frame.
LEMMA SplitCarries ==
  ASSUME Sound, Carried, visited # <<>>, K(Inmost.cur) = "BranchSplit", UNCHANGED <<fn, cfg>>,
         NEW next \in Nodes,
         passenger'.outcome = "going" => visits' = Append(visits, Visit("true", Inmost.cur, next)),
         visited' = Append(visited, Inmost.cur),
         passenger' = Told(<<"branch_split", "branch_start_true_path">>)
  PROVE  Carried' /\ passenger'.outcome = "going"
<1>1. PICK n : n = Len(visits)  OBVIOUS
<1>2. PICK p : p = passenger  OBVIOUS
<1>3. PICK id : id = IdOf(Inmost.cur)  OBVIOUS
<1>4. /\ p = Going(p.frames, p.states, p.loops, p.branches) /\ p.outcome = "going"
      /\ p.frames # <<>> /\ IsSeq(p.frames) /\ IsSeq(p.states) /\ n \in Nat \ {0}
      /\ Len(p.frames) = n /\ Len(p.states) = n
      /\ DOMAIN p.loops = Ids("LoopHead") /\ DOMAIN p.branches = Ids("BranchSplit")
      /\ StartNode \in Seen /\ p.states[1] = <<"Start", NoId>>
      /\ \A i \in 2 .. n : Backed(visits[i], p.states[i], p.loops, p.branches)
  BY <1>1, <1>2, Carries
<1>5. Node.id = id /\ id \notin DOMAIN p.branches  BY <1>3, <1>4, NewId DEF Node, IdOf, Here, Inmost
<1>6. PICK parts : parts = <<Mark("Branch", id)>>  OBVIOUS
<1>7. PICK e : e = Extended(p.frames, parts)  OBVIOUS
<1>8. PICK s : s = Append(p.states, <<"Branching", id>>)  OBVIOUS
<1>9. PICK b : b = Insert(p.branches, id, SplitEntry(Node))  OBVIOUS
<1>10. /\ IsSeq(Append(e, <<>>)) /\ Len(Append(e, <<>>)) = n + 1 /\ IsSeq(s) /\ Len(s) = n + 1
       /\ \A i \in 1 .. n : s[i] = p.states[i]
       /\ s[n + 1] = <<"Branching", id>>
  BY <1>4, <1>7, <1>8, ExtendedAny, PushedAny
<1>11. DOMAIN b = DOMAIN p.branches \cup {id} /\ b[id] = SplitEntry(Node)
       /\ \A x \in DOMAIN p.branches : x # id => b[x] = p.branches[x]
  BY <1>9 DEF Insert
<1>12. passenger' = Going(Append(e, <<>>), s, p.loops, b) /\ passenger'.outcome = "going"
  <2>1. passenger' = Going(Append(e, <<>>), s, p.loops, b)
    BY <1>2, <1>3, <1>6, <1>7, <1>8, <1>9, SplitTold
  <2> QED  BY <2>1, Changed
<1>13. Seen' = Seen \cup {Inmost.cur} /\ visited' # <<>>  BY Added DEF Sound, Typed
<1>14. DOMAIN p.loops = Ids("LoopHead")' /\ DOMAIN b = Ids("BranchSplit")'
  BY <1>3, <1>4, <1>11, <1>13, MoreIds
<1>15. /\ Len(visits') = n + 1 /\ \A i \in 1 .. n : visits'[i] = visits[i]
       /\ visits'[n + 1].path = "true" /\ visits'[n + 1].at = Inmost.cur
  BY <1>1, <1>12, Entered
<1>16. ASSUME NEW i \in 2 .. n + 1 PROVE Backed(visits'[i], s[i], p.loops, b)
  <2>1. CASE i = n + 1  BY <1>3, <1>10, <1>11, <1>15, <2>1, NothingYet DEF Backed
  <2>2. CASE i \in 2 .. n
    <3> i \in 1 .. n  BY <1>4, <2>2
    <3>1. visits'[i] = visits[i] /\ s[i] = p.states[i]  BY <1>10, <1>15
    <3>2. Backed(visits[i], p.states[i], p.loops, p.branches)  BY <1>4, <2>2
    <3>3. visits[i].path # "loop" =>
            IdOf(visits[i].at) \in DOMAIN p.branches /\ IdOf(visits[i].at) # id
      BY <1>1, <1>4, <1>5, <2>2, Inside
    <3> QED  BY <1>11, <3>1, <3>2, <3>3 DEF Backed
  <2>3. i = n + 1 \/ i \in 2 .. n
    <3>1. n \in Nat  BY <1>4
    <3> QED  BY <3>1
  <2> QED  BY <2>1, <2>2, <2>3
<1>17. s[1] = <<"Start", NoId>> /\ StartNode \in Seen'  BY <1>4, <1>10, <1>13
<1> QED  BY <1>10, <1>12, <1>13, <1>14, <1>15, <1>16, <1>17, Fits

\* No two loops are for splits, or heads, of one id.
LEMMA OtherIds ==
  ASSUME Sound, NEW i \in 2 .. Len(visits), NEW j \in 2 .. Len(visits), i # j,
         K(visits[i].at) = K(visits[j].at)
  PROVE  IdOf(visits[i].at) # IdOf(visits[j].at)
<1>1. /\ i \in 1 .. Len(visits) /\ j \in 1 .. Len(visits)
      /\ visits[i].at \in Nodes /\ visits[j].at \in Nodes /\ K(visits[i].at) \in Openers
  BY Inside DEF Openers
<1>2. visits[i].at # visits[j].at  BY <1>1, Apart DEF Sound
<1> QED  BY <1>1, <1>2, OwnIds DEF Sound

\* What the state of the innermost loop says when it is at its merge or foot.
LEMMA AtCloser ==
  ASSUME Sound, K(Inmost.cur) \in Closers, Inmost.path # "main"
  PROVE  LET n == Len(visits) IN
         /\ n \in Nat /\ n > 1 /\ n \in 2 .. n /\ n \in 1 .. n /\ Inmost = visits[n]
         /\ Inmost.at \in Nodes /\ IdOf(Inmost.cur) = IdOf(Inmost.at) /\ Node.id = IdOf(Inmost.at)
         /\ K(Inmost.cur) = "BranchMerge" <=> Inmost.path \in {"true", "false"}
         /\ K(Inmost.cur) = "LoopFoot" <=> Inmost.path = "loop"
<1>1. PICK n : n = Len(visits)  OBVIOUS
<1>2. n \in Nat \ {0} /\ Inmost = visits[n] /\ n \in 1 .. n /\ Inmost.cur \in Nodes
  BY <1>1, Innermost DEF Sound
<1>3. n > 1  BY <1>2 DEF Sound, Standing
<1>4. n \in 2 .. n  BY <1>2, <1>3
<1>5. Inmost.at \in Nodes /\ Inmost.path \in {"true", "false", "loop"}
  BY <1>1, <1>2, <1>4, Inside
<1>6. Lay[Inmost.cur].of = Inmost.at /\ \A p \in Paths : p[2] = Inmost.path => p[3] = K(Inmost.cur)
  BY <1>1, <1>2, Stands DEF Sound
<1>7. /\ Inmost.path \in {"true", "false"} => K(Inmost.cur) = "BranchMerge"
      /\ Inmost.path = "loop" => K(Inmost.cur) = "LoopFoot"
  BY <1>6 DEF Paths
<1>8. IdOf(Inmost.cur) = IdOf(Inmost.at)
  <2>1. HasPlace(Inmost.cur)  BY <1>2, Places DEF Sound
  <2> QED  BY <1>5, <1>6, <1>7, <2>1 DEF HasPlace
<1> QED  BY <1>1, <1>2, <1>3, <1>4, <1>5, <1>7, <1>8 DEF Node, IdOf, Here, Inmost

\* What is carried when the true path was left for the false one.
LEMMA TurnTold ==
  ASSUME Sound, Carried, visited # <<>>, K(Inmost.cur) \in Closers, Inmost.path = "true"
  PROVE  LET p == passenger
             id == IdOf(Inmost.at)
         IN  /\ K(Inmost.at) = "BranchSplit" /\ id \in DOMAIN p.branches
             /\ Told(<<"branch_end_true_path", "branch_start_false_path">>)
                = Going(Append(Front(p.frames), <<>>), p.states, p.loops,
                        Coded(p.branches, id, "true", <<Last(p.frames)>>))
<1>1. PICK n : n = Len(visits)  OBVIOUS
<1>2. PICK p : p = passenger  OBVIOUS
<1>3. PICK id : id = IdOf(Inmost.at)  OBVIOUS
<1>4. /\ p = Going(p.frames, p.states, p.loops, p.branches) /\ p.outcome = "going"
      /\ p.frames # <<>> /\ p.states # <<>> /\ Last(p.states) = p.states[n]
      /\ DOMAIN p.branches = Ids("BranchSplit")
      /\ \A i \in 2 .. n : Backed(visits[i], p.states[i], p.loops, p.branches)
  BY <1>1, <1>2, Carries
<1>5. n \in 2 .. n /\ Inmost = visits[n]  BY <1>1, AtCloser
<1>6. /\ K(Inmost.at) = "BranchSplit" /\ id \in DOMAIN p.branches
      /\ p.states[n] = <<"Branching", id>> /\ p.branches[id]["true"] = None
  <2>1. Backed(Inmost, p.states[n], p.loops, p.branches)  BY <1>4, <1>5
  <2>2. K(Inmost.at) = "BranchSplit" /\ IdOf(Inmost.at) \in Ids("BranchSplit")  BY <1>1, <1>5, Inside
  <2> QED  BY <1>3, <1>4, <2>1, <2>2 DEF Backed
<1>7. EndPath(Going(p.frames, p.states, p.loops, p.branches), "true")
      = Going(Front(p.frames), p.states, p.loops, Coded(p.branches, id, "true", <<Last(p.frames)>>))
  <2>1. p.frames # <<>> /\ p.states # <<>> /\ Last(p.states) = <<"Branching", id>>
        /\ p.branches[id]["true"] = None
    BY <1>4, <1>6
  <2> QED  BY <2>1, PathGoes
<1>8. PICK b : b = Coded(p.branches, id, "true", <<Last(p.frames)>>)  OBVIOUS
<1>9. PICK f : f = Front(p.frames)  OBVIOUS
<1>10. On("branch_end_true_path", passenger, Node) = Going(f, p.states, p.loops, b)
  <2>1. On("branch_end_true_path", Going(p.frames, p.states, p.loops, p.branches), Node)
        = EndPath(Going(p.frames, p.states, p.loops, p.branches), "true")
    BY PathStarts
  <2>2. p = Going(p.frames, p.states, p.loops, p.branches)  BY <1>4
  <2> QED  BY <1>2, <1>7, <1>8, <1>9, <2>1, <2>2
<1>11. Going(f, p.states, p.loops, b).outcome = "going"  BY Changed
<1>12. Told(<<"branch_end_true_path", "branch_start_false_path">>)
       = On("branch_start_false_path", Going(f, p.states, p.loops, b), Node)
  BY <1>2, <1>4, <1>10, <1>11, ToldBoth
<1>13. Told(<<"branch_end_true_path", "branch_start_false_path">>)
       = Going(Append(f, <<>>), p.states, p.loops, b)
  BY <1>12, PathStarts
<1> QED  BY <1>2, <1>3, <1>6, <1>8, <1>9, <1>13

\* The code of the true path is kept, a frame for the false one begun.
LEMMA TurnCarries ==
  ASSUME Sound, Carried, visited # <<>>, K(Inmost.cur) \in Closers, Inmost.path = "true",
         UNCHANGED <<fn, cfg, visited>>, NEW next \in Nodes,
         passenger'.outcome = "going" => visits' = Append(Front(visits), Visit("false", Inmost.at, next)),
         passenger' = Told(<<"branch_end_true_path", "branch_start_false_path">>)
  PROVE  Carried' /\ passenger'.outcome = "going"
<1>1. PICK n : n = Len(visits)  OBVIOUS
<1>2. PICK p : p = passenger  OBVIOUS
<1>3. PICK id : id = IdOf(Inmost.at)  OBVIOUS
<1>4. /\ p = Going(p.frames, p.states, p.loops, p.branches) /\ p.outcome = "going"
      /\ p.frames # <<>> /\ p.states # <<>> /\ IsSeq(p.frames) /\ IsSeq(p.states)
      /\ Len(p.frames) = n /\ Len(p.states) = n /\ Last(p.states) = p.states[n]
      /\ DOMAIN p.loops = Ids("LoopHead") /\ DOMAIN p.branches = Ids("BranchSplit")
      /\ StartNode \in Seen /\ p.states[1] = <<"Start", NoId>>
      /\ \A i \in 2 .. n : Backed(visits[i], p.states[i], p.loops, p.branches)
  BY <1>1, <1>2, Carries
<1>5. n \in Nat /\ n > 1 /\ n \in 2 .. n /\ Inmost = visits[n] /\ Inmost.at \in Nodes
  BY <1>1, AtCloser
<1>6. /\ K(Inmost.at) = "BranchSplit" /\ id \in DOMAIN p.branches
      /\ p.states[n] = <<"Branching", id>> /\ {"true", "false"} \subseteq DOMAIN p.branches[id]
      /\ p.branches[id]["true"] = None /\ p.branches[id]["false"] = None
  <2>1. Backed(Inmost, p.states[n], p.loops, p.branches)  BY <1>4, <1>5
  <2>2. K(Inmost.at) = "BranchSplit" /\ IdOf(Inmost.at) \in Ids("BranchSplit")  BY <1>1, <1>5, Inside
  <2> QED  BY <1>3, <1>4, <2>1, <2>2 DEF Backed
<1>8. PICK b : b = Coded(p.branches, id, "true", <<Last(p.frames)>>)  OBVIOUS
<1>9. PICK f : f = Front(p.frames)  OBVIOUS
<1>10. passenger' = Going(Append(f, <<>>), p.states, p.loops, b) /\ passenger'.outcome = "going"
  <2>1. passenger' = Going(Append(f, <<>>), p.states, p.loops, b)
    BY <1>2, <1>3, <1>8, <1>9, TurnTold
  <2> QED  BY <2>1, Changed
<1>11. IsSeq(Append(f, <<>>)) /\ Len(Append(f, <<>>)) = n
  <2>1. IsSeq(f) /\ Len(f) = n - 1  BY <1>4, <1>9, PoppedAny
  <2>2. IsSeq(Append(f, <<>>)) /\ Len(Append(f, <<>>)) = (n - 1) + 1  BY <2>1, PushedAny
  <2> QED  BY <1>5, <2>2
<1>12. /\ DOMAIN b = DOMAIN p.branches
       /\ \A x \in DOMAIN p.branches : x # id => b[x] = p.branches[x]
       /\ DOMAIN b[id] = DOMAIN p.branches[id] /\ b[id]["false"] = None
  BY <1>6, <1>8 DEF Coded
<1>13. /\ Len(visits') = n /\ \A i \in 1 .. n - 1 : visits'[i] = visits[i]
       /\ visits'[n].path = "false" /\ visits'[n].at = Inmost.at
  <2>1. visits \in Seq(Visits) /\ visits # <<>>  BY DEF Sound, Typed
  <2>2. /\ Front(visits) \in Seq(Visits) /\ Len(Front(visits)) = n - 1
        /\ \A i \in 1 .. n - 1 : Front(visits)[i] = visits[i]
    BY <1>1, <2>1, Popped
  <2>3. /\ Visit("false", Inmost.at, next) \in Visits
        /\ Visit("false", Inmost.at, next).path = "false" /\ Visit("false", Inmost.at, next).at = Inmost.at
    BY <1>5 DEF Visit, Visits
  <2>4. (n - 1) + 1 = n  BY <1>5
  <2>5. visits' = Append(Front(visits), Visit("false", Inmost.at, next))  BY <1>10
  <2> QED  BY <2>2, <2>3, <2>4, <2>5, Pushed
<1>14. ASSUME NEW i \in 2 .. n PROVE Backed(visits'[i], p.states[i], p.loops, b)
  <2>1. CASE i = n  BY <1>3, <1>6, <1>12, <1>13, <2>1 DEF Backed
  <2>2. CASE i # n
    <3>1. visits'[i] = visits[i]
      <4>1. i \in 1 .. n - 1  BY <1>5, <2>2
      <4> QED  BY <1>13, <4>1
    <3>2. Backed(visits[i], p.states[i], p.loops, p.branches)  BY <1>4
    <3>3. visits[i].path # "loop" =>
            K(visits[i].at) = "BranchSplit" /\ IdOf(visits[i].at) \in DOMAIN p.branches
      BY <1>1, <1>4, Inside
    <3>4. visits[i].path # "loop" => IdOf(visits[i].at) # id
      BY <1>1, <1>3, <1>5, <1>6, <2>2, <3>3, OtherIds
    <3> QED  BY <1>12, <3>1, <3>2, <3>3, <3>4 DEF Backed
  <2> QED  BY <2>1, <2>2
<1>15. Seen' = Seen  BY DEF Seen
<1>16. DOMAIN p.loops = Ids("LoopHead")' /\ DOMAIN b = Ids("BranchSplit")'
  <2>1. \A m : IdOf(m)' = IdOf(m) /\ K(m)' = K(m)  BY SameNodes
  <2>2. Ids("LoopHead")' = Ids("LoopHead") /\ Ids("BranchSplit")' = Ids("BranchSplit")
    BY <1>15, <2>1 DEF Ids
  <2> QED  BY <1>4, <1>12, <2>2
<1>17. visited' # <<>> /\ StartNode \in Seen'  BY <1>4, <1>15
<1>18. UNCHANGED <<fn, cfg>>  OBVIOUS
<1>19. /\ Len(Append(f, <<>>)) = Len(visits') /\ Len(p.states) = Len(visits')
       /\ \A i \in 2 .. Len(visits') : Backed(visits'[i], p.states[i], p.loops, b)
  BY <1>4, <1>11, <1>13, <1>14
<1>20. IsSeq(p.states) /\ p.states[1] = <<"Start", NoId>>  BY <1>4
<1>21. Carried'  BY <1>10, <1>11, <1>16, <1>17, <1>18, <1>19, <1>20, Fits
<1> QED  BY <1>10, <1>21

\* The loops that are left around a loop.
LEMMA Left ==
  ASSUME Sound, K(Inmost.cur) \in Closers, Inmost.path # "main", NEW next \in Nodes,
         visits' = GoesOn(Front(visits), next)
  PROVE  LET n == Len(visits) IN
         /\ Len(visits') = n - 1
         /\ \A i \in 1 .. n - 1 : visits'[i].path = visits[i].path /\ visits'[i].at = visits[i].at
<1>1. PICK n : n = Len(visits)  OBVIOUS
<1>2. n \in Nat /\ n > 1 /\ visits \in Seq(Visits) /\ visits # <<>>
  BY <1>1, AtCloser DEF Sound, Typed
<1>3. PICK loops : loops = Front(visits)  OBVIOUS
<1>4. /\ loops \in Seq(Visits) /\ Len(loops) = n - 1 /\ \A i \in 1 .. n - 1 : loops[i] = visits[i]
  BY <1>1, <1>2, <1>3, Popped
<1>5. loops # <<>>  BY <1>2, <1>4
<1>6. /\ Len(visits') = n - 1
      /\ \A i \in 1 .. (n - 1) - 1 : visits'[i] = loops[i]
      /\ visits'[n - 1] = [path |-> loops[n - 1].path, at |-> loops[n - 1].at, cur |-> next,
                           rounds |-> loops[n - 1].rounds + 1]
  BY <1>3, <1>4, <1>5, WentOn
<1>7. \A i \in 1 .. n - 1 : i \in 1 .. (n - 1) - 1 \/ i = n - 1  BY <1>2
<1> QED  BY <1>1, <1>4, <1>6, <1>7

\* What is carried when a loop was left.
LEMMA FootTold ==
  ASSUME Sound, Carried, visited # <<>>, K(Inmost.cur) \in Closers, Inmost.path = "loop"
  PROVE  LET p == passenger
             id == IdOf(Inmost.at)
         IN  /\ K(Inmost.at) = "LoopHead" /\ id \in DOMAIN p.loops
             /\ Told(<<"loop_end_true_path", "loop_foot">>)
                = Going(Front(p.frames), Front(p.states), Bodied(p.loops, id, <<Last(p.frames)>>),
                        p.branches)
<1>1. PICK n : n = Len(visits)  OBVIOUS
<1>2. PICK p : p = passenger  OBVIOUS
<1>3. PICK id : id = IdOf(Inmost.at)  OBVIOUS
<1>4. /\ p = Going(p.frames, p.states, p.loops, p.branches) /\ p.outcome = "going"
      /\ p.frames # <<>> /\ p.states # <<>> /\ Last(p.states) = p.states[n]
      /\ DOMAIN p.loops = Ids("LoopHead")
      /\ \A i \in 2 .. n : Backed(visits[i], p.states[i], p.loops, p.branches)
  BY <1>1, <1>2, Carries
<1>5. n \in 2 .. n /\ Inmost = visits[n] /\ Node.id = id  BY <1>1, <1>3, AtCloser
<1>6. /\ K(Inmost.at) = "LoopHead" /\ id \in DOMAIN p.loops
      /\ p.states[n] = <<"Loop", id>> /\ p.loops[id].body = None
  <2>1. Backed(Inmost, p.states[n], p.loops, p.branches)  BY <1>4, <1>5
  <2>2. K(Inmost.at) = "LoopHead" /\ IdOf(Inmost.at) \in Ids("LoopHead")  BY <1>1, <1>5, Inside
  <2> QED  BY <1>3, <1>4, <2>1, <2>2 DEF Backed
<1>7. On("loop_foot", Going(p.frames, p.states, p.loops, p.branches), Node)
      = Going(Front(p.frames), Front(p.states), Bodied(p.loops, Node.id, <<Last(p.frames)>>),
              p.branches)
  <2>1. /\ p.frames # <<>> /\ p.states # <<>> /\ Last(p.states) = <<"Loop", Node.id>>
        /\ p.loops[Node.id].body = None
    BY <1>4, <1>5, <1>6
  <2> QED  BY <2>1, FootGoes
<1>8. p = Going(p.frames, p.states, p.loops, p.branches) /\ Node.id = id  BY <1>4, <1>5
<1>9. On("loop_end_true_path", passenger, Node) = passenger  BY <1>2, <1>8, PathStarts
<1>10. passenger.outcome = "going"  BY <1>2, <1>4
<1>11. Told(<<"loop_end_true_path", "loop_foot">>) = On("loop_foot", passenger, Node)
  BY <1>9, <1>10, ToldBoth
<1> QED  BY <1>2, <1>3, <1>6, <1>7, <1>8, <1>11

\* The body of the loop is kept, its frame and its state dropped.
LEMMA FootCarries ==
  ASSUME Sound, Carried, visited # <<>>, K(Inmost.cur) \in Closers, Inmost.path = "loop",
         UNCHANGED <<fn, cfg>>, NEW next \in Nodes,
         passenger'.outcome = "going" => visits' = GoesOn(Front(visits), next),
         visited' = Append(visited, Inmost.cur),
         passenger' = Told(<<"loop_end_true_path", "loop_foot">>)
  PROVE  Carried' /\ passenger'.outcome = "going"
<1>1. PICK n : n = Len(visits)  OBVIOUS
<1>2. PICK p : p = passenger  OBVIOUS
<1>3. PICK id : id = IdOf(Inmost.at)  OBVIOUS
<1>4. /\ p = Going(p.frames, p.states, p.loops, p.branches) /\ p.outcome = "going"
      /\ p.frames # <<>> /\ p.states # <<>> /\ IsSeq(p.frames) /\ IsSeq(p.states)
      /\ Len(p.frames) = n /\ Len(p.states) = n /\ Last(p.states) = p.states[n]
      /\ DOMAIN p.loops = Ids("LoopHead") /\ DOMAIN p.branches = Ids("BranchSplit")
      /\ StartNode \in Seen /\ p.states[1] = <<"Start", NoId>>
      /\ \A i \in 2 .. n : Backed(visits[i], p.states[i], p.loops, p.branches)
  BY <1>1, <1>2, Carries
<1>5. /\ n \in Nat /\ n > 1 /\ n \in 2 .. n /\ Inmost = visits[n] /\ Inmost.at \in Nodes
      /\ Node.id = id /\ K(Inmost.cur) \notin Openers
  BY <1>1, <1>3, AtCloser DEF Openers, Closers
<1>6. /\ K(Inmost.at) = "LoopHead" /\ id \in DOMAIN p.loops
      /\ p.states[n] = <<"Loop", id>> /\ p.loops[id].body = None
  <2>1. Backed(Inmost, p.states[n], p.loops, p.branches)  BY <1>4, <1>5
  <2>2. K(Inmost.at) = "LoopHead" /\ IdOf(Inmost.at) \in Ids("LoopHead")  BY <1>1, <1>5, Inside
  <2> QED  BY <1>3, <1>4, <2>1, <2>2 DEF Backed
<1>7. PICK l : l = Bodied(p.loops, id, <<Last(p.frames)>>)  OBVIOUS
<1>8. PICK f : f = Front(p.frames)  OBVIOUS
<1>9. PICK s : s = Front(p.states)  OBVIOUS
<1>10. passenger' = Going(f, s, l, p.branches) /\ passenger'.outcome = "going"
  <2>1. passenger' = Going(f, s, l, p.branches)  BY <1>2, <1>3, <1>7, <1>8, <1>9, FootTold
  <2> QED  BY <2>1, Changed
<1>11. /\ DOMAIN l = DOMAIN p.loops /\ \A x \in DOMAIN p.loops : x # id => l[x] = p.loops[x]
  BY <1>7 DEF Bodied
<1>12. /\ IsSeq(f) /\ Len(f) = n - 1 /\ IsSeq(s) /\ Len(s) = n - 1
       /\ \A i \in 1 .. n - 1 : s[i] = p.states[i]
  BY <1>4, <1>8, <1>9, PoppedAny
<1>13. /\ Len(visits') = n - 1
       /\ \A i \in 1 .. n - 1 : visits'[i].path = visits[i].path /\ visits'[i].at = visits[i].at
  BY <1>1, <1>10, Left
<1>14. ASSUME NEW i \in 2 .. n - 1 PROVE Backed(visits'[i], s[i], l, p.branches)
  <2>1. i \in 1 .. n - 1 /\ i \in 2 .. n /\ i # n  BY <1>5
  <2>2. /\ visits'[i].path = visits[i].path /\ visits'[i].at = visits[i].at
        /\ s[i] = p.states[i] /\ Backed(visits[i], p.states[i], p.loops, p.branches)
    BY <1>4, <1>12, <1>13, <2>1
  <2>3. visits[i].path = "loop" =>
          K(visits[i].at) = "LoopHead" /\ IdOf(visits[i].at) \in DOMAIN p.loops
    BY <1>1, <1>4, <2>1, Inside
  <2>4. visits[i].path = "loop" => IdOf(visits[i].at) # id
    BY <1>1, <1>3, <1>5, <1>6, <2>1, <2>3, OtherIds
  <2> QED  BY <1>11, <2>2, <2>3, <2>4 DEF Backed
<1>15. Seen' = Seen \cup {Inmost.cur} /\ visited' # <<>>  BY Added DEF Sound, Typed
<1>16. DOMAIN l = Ids("LoopHead")' /\ DOMAIN p.branches = Ids("BranchSplit")'
  <2>1. Ids("LoopHead")' = Ids("LoopHead") /\ Ids("BranchSplit")' = Ids("BranchSplit")
    BY <1>5, <1>15, MoreIds DEF Openers
  <2> QED  BY <1>4, <1>11, <2>1
<1>17. /\ Len(f) = Len(visits') /\ Len(s) = Len(visits')
       /\ \A i \in 2 .. Len(visits') : Backed(visits'[i], s[i], l, p.branches)
  BY <1>12, <1>13, <1>14
<1>18. s[1] = <<"Start", NoId>> /\ StartNode \in Seen'
  <2>1. 1 \in 1 .. n - 1  BY <1>5
  <2> QED  BY <1>4, <1>12, <1>15, <2>1
<1>19. Carried'  BY <1>10, <1>12, <1>15, <1>16, <1>17, <1>18, Fits
<1> QED  BY <1>10, <1>19

\* What is carried when a branch was left.
LEMMA MergeTold ==
  ASSUME Sound, Carried, visited # <<>>, K(Inmost.cur) \in Closers, Inmost.path = "false"
  PROVE  LET p == passenger
             id == IdOf(Inmost.at)
         IN  /\ K(Inmost.at) = "BranchSplit" /\ id \in DOMAIN p.branches
             /\ Told(<<"branch_end_false_path", "branch_merge">>)
                = Going(Front(p.frames), Front(p.states), p.loops,
                        Coded(p.branches, id, "false", <<Last(p.frames)>>))
<1>1. PICK n : n = Len(visits)  OBVIOUS
<1>2. PICK p : p = passenger  OBVIOUS
<1>3. PICK id : id = IdOf(Inmost.at)  OBVIOUS
<1>4. /\ p = Going(p.frames, p.states, p.loops, p.branches) /\ p.outcome = "going"
      /\ p.frames # <<>> /\ p.states # <<>> /\ Last(p.states) = p.states[n]
      /\ DOMAIN p.branches = Ids("BranchSplit")
      /\ \A i \in 2 .. n : Backed(visits[i], p.states[i], p.loops, p.branches)
  BY <1>1, <1>2, Carries
<1>5. n \in 2 .. n /\ Inmost = visits[n] /\ Node.id = id  BY <1>1, <1>3, AtCloser
<1>6. /\ K(Inmost.at) = "BranchSplit" /\ id \in DOMAIN p.branches
      /\ p.states[n] = <<"Branching", id>> /\ p.branches[id]["false"] = None
  <2>1. Backed(Inmost, p.states[n], p.loops, p.branches)  BY <1>4, <1>5
  <2>2. K(Inmost.at) = "BranchSplit" /\ IdOf(Inmost.at) \in Ids("BranchSplit")  BY <1>1, <1>5, Inside
  <2> QED  BY <1>3, <1>4, <2>1, <2>2 DEF Backed
<1>7. PICK b : b = Coded(p.branches, id, "false", <<Last(p.frames)>>)  OBVIOUS
<1>8. PICK f : f = Front(p.frames)  OBVIOUS
<1>9. EndPath(Going(p.frames, p.states, p.loops, p.branches), "false")
      = Going(Front(p.frames), p.states, p.loops, Coded(p.branches, id, "false", <<Last(p.frames)>>))
  <2>1. /\ p.frames # <<>> /\ p.states # <<>> /\ Last(p.states) = <<"Branching", id>>
        /\ p.branches[id]["false"] = None
    BY <1>4, <1>6
  <2> QED  BY <2>1, PathGoes
<1>10. p = Going(p.frames, p.states, p.loops, p.branches) /\ Node.id = id  BY <1>4, <1>5
<1>11. On("branch_end_false_path", Going(p.frames, p.states, p.loops, p.branches), Node)
       = EndPath(Going(p.frames, p.states, p.loops, p.branches), "false")
  BY PathStarts
<1>12. On("branch_end_false_path", passenger, Node) = Going(f, p.states, p.loops, b)
  BY <1>2, <1>7, <1>8, <1>9, <1>10, <1>11
<1>13. Going(f, p.states, p.loops, b).outcome = "going"  BY Changed
<1>14. passenger.outcome = "going"  BY <1>2, <1>4
<1>15. Told(<<"branch_end_false_path", "branch_merge">>)
       = On("branch_merge", Going(f, p.states, p.loops, b), Node)
  BY <1>12, <1>13, <1>14, ToldBoth
<1>16. p.states # <<>> /\ Last(p.states) = <<"Branching", Node.id>>  BY <1>4, <1>5, <1>6
<1>17. On("branch_merge", Going(f, p.states, p.loops, b), Node)
       = Going(f, Front(p.states), p.loops, b)
  BY <1>16, MergeGoes
<1> QED  BY <1>2, <1>3, <1>6, <1>7, <1>8, <1>15, <1>17

\* The code of the false path is kept, the state of the branch dropped.
LEMMA MergeCarries ==
  ASSUME Sound, Carried, visited # <<>>, K(Inmost.cur) \in Closers, Inmost.path = "false",
         UNCHANGED <<fn, cfg>>, NEW next \in Nodes,
         passenger'.outcome = "going" => visits' = GoesOn(Front(visits), next),
         visited' = Append(visited, Inmost.cur),
         passenger' = Told(<<"branch_end_false_path", "branch_merge">>)
  PROVE  Carried' /\ passenger'.outcome = "going"
<1>1. PICK n : n = Len(visits)  OBVIOUS
<1>2. PICK p : p = passenger  OBVIOUS
<1>3. PICK id : id = IdOf(Inmost.at)  OBVIOUS
<1>4. /\ p = Going(p.frames, p.states, p.loops, p.branches) /\ p.outcome = "going"
      /\ p.frames # <<>> /\ p.states # <<>> /\ IsSeq(p.frames) /\ IsSeq(p.states)
      /\ Len(p.frames) = n /\ Len(p.states) = n /\ Last(p.states) = p.states[n]
      /\ DOMAIN p.loops = Ids("LoopHead") /\ DOMAIN p.branches = Ids("BranchSplit")
      /\ StartNode \in Seen /\ p.states[1] = <<"Start", NoId>>
      /\ \A i \in 2 .. n : Backed(visits[i], p.states[i], p.loops, p.branches)
  BY <1>1, <1>2, Carries
<1>5. /\ n \in Nat /\ n > 1 /\ n \in 2 .. n /\ Inmost = visits[n] /\ Inmost.at \in Nodes
      /\ Node.id = id /\ K(Inmost.cur) \notin Openers
  BY <1>1, <1>3, AtCloser DEF Openers, Closers
<1>6. /\ K(Inmost.at) = "BranchSplit" /\ id \in DOMAIN p.branches
      /\ p.states[n] = <<"Branching", id>> /\ p.branches[id]["false"] = None
  <2>1. Backed(Inmost, p.states[n], p.loops, p.branches)  BY <1>4, <1>5
  <2>2. K(Inmost.at) = "BranchSplit" /\ IdOf(Inmost.at) \in Ids("BranchSplit")  BY <1>1, <1>5, Inside
  <2> QED  BY <1>3, <1>4, <2>1, <2>2 DEF Backed
<1>7. PICK b : b = Coded(p.branches, id, "false", <<Last(p.frames)>>)  OBVIOUS
<1>8. PICK f : f = Front(p.frames)  OBVIOUS
<1>9. PICK s : s = Front(p.states)  OBVIOUS
<1>10. passenger' = Going(f, s, p.loops, b) /\ passenger'.outcome = "going"
  <2>1. passenger' = Going(f, s, p.loops, b)  BY <1>2, <1>3, <1>7, <1>8, <1>9, MergeTold
  <2> QED  BY <2>1, Changed
<1>11. /\ DOMAIN b = DOMAIN p.branches /\ \A x \in DOMAIN p.branches : x # id => b[x] = p.branches[x]
  BY <1>7 DEF Coded
<1>12. /\ IsSeq(f) /\ Len(f) = n - 1 /\ IsSeq(s) /\ Len(s) = n - 1
       /\ \A i \in 1 .. n - 1 : s[i] = p.states[i]
  BY <1>4, <1>8, <1>9, PoppedAny
<1>13. /\ Len(visits') = n - 1
       /\ \A i \in 1 .. n - 1 : visits'[i].path = visits[i].path /\ visits'[i].at = visits[i].at
  BY <1>1, <1>10, Left
<1>14. ASSUME NEW i \in 2 .. n - 1 PROVE Backed(visits'[i], s[i], p.loops, b)
  <2>1. i \in 1 .. n - 1 /\ i \in 2 .. n /\ i # n  BY <1>5
  <2>2. /\ visits'[i].path = visits[i].path /\ visits'[i].at = visits[i].at
        /\ s[i] = p.states[i] /\ Backed(visits[i], p.states[i], p.loops, p.branches)
    BY <1>4, <1>12, <1>13, <2>1
  <2>3. visits[i].path # "loop" =>
          K(visits[i].at) = "BranchSplit" /\ IdOf(visits[i].at) \in DOMAIN p.branches
    BY <1>1, <1>4, <2>1, Inside
  <2>4. visits[i].path # "loop" => IdOf(visits[i].at) # id
    BY <1>1, <1>3, <1>5, <1>6, <2>1, <2>3, OtherIds
  <2> QED  BY <1>11, <2>2, <2>3, <2>4 DEF Backed
<1>15. Seen' = Seen \cup {Inmost.cur} /\ visited' # <<>>  BY Added DEF Sound, Typed
<1>16. DOMAIN p.loops = Ids("LoopHead")' /\ DOMAIN b = Ids("BranchSplit")'
  <2>1. Ids("LoopHead")' = Ids("LoopHead") /\ Ids("BranchSplit")' = Ids("BranchSplit")
    BY <1>5, <1>15, MoreIds DEF Openers
  <2> QED  BY <1>4, <1>11, <2>1
<1>17. /\ Len(f) = Len(visits') /\ Len(s) = Len(visits')
       /\ \A i \in 2 .. Len(visits') : Backed(visits'[i], s[i], p.loops, b)
  BY <1>12, <1>13, <1>14
<1>18. s[1] = <<"Start", NoId>> /\ StartNode \in Seen'
  <2>1. 1 \in 1 .. n - 1  BY <1>5
  <2> QED  BY <1>4, <1>12, <1>15, <2>1
<1>19. Carried'  BY <1>10, <1>12, <1>15, <1>16, <1>17, <1>18, Fits
<1> QED  BY <1>10, <1>19

-----------------------------------------------------------------------------
(* The steps. *)

LEMMA Proceeds ==
  ASSUME NEW events, NEW next, NEW loops, Proceed(events, next, loops),
         passenger'.outcome = "going", next # Nowhere, Last(loops).rounds < Len(cfg.nodes)
  PROVE  passenger' = Told(events) /\ UNCHANGED <<fn, cfg>> /\ visits' = loops /\ status' = status
BY DEF Proceed

\* The start is the only node before which nothing was visited.
LEMMA NotFirst ==
  ASSUME Sound, Carried, K(Inmost.cur) # "Start"
  PROVE  visited # <<>>
<1>1. StartNode \in Nodes /\ K(StartNode) = "Start"  BY Places DEF Sound
<1> QED  BY <1>1 DEF Carried

\* The last of the loops goes round once more.
LEMMA OneMore ==
  ASSUME NEW loops \in Seq(Visits), loops # <<>>, NEW next \in Nodes
  PROVE  Last(GoesOn(loops, next)).rounds = loops[Len(loops)].rounds + 1
<1>1. PICK on : on = GoesOn(loops, next)  OBVIOUS
<1>2. /\ Len(on) = Len(loops)
      /\ on[Len(loops)] = [path |-> loops[Len(loops)].path, at |-> loops[Len(loops)].at,
                           cur |-> next, rounds |-> loops[Len(loops)].rounds + 1]
  BY <1>1, WentOn
<1>3. on[Len(on)].rounds = loops[Len(loops)].rounds + 1  BY <1>2
<1> QED  BY <1>1, <1>3 DEF Last

\* No loop has gone round as often as there are nodes.
LEMMA OnTime ==
  ASSUME Sound, NEW next \in Nodes, K(Inmost.cur) \notin Closers
  PROVE  Last(GoesOn(visits, next)).rounds < Len(cfg.nodes)
<1>1. PICK n : n = Len(visits)  OBVIOUS
<1>2. n \in 1 .. n /\ Inmost = visits[n] /\ visits \in Seq(Visits) /\ visits # <<>>
  BY <1>1, Innermost DEF Sound, Typed
<1>3. visits[n].rounds + 1 < Len(cfg.nodes)  BY <1>1, <1>2, Rounds
<1> QED  BY <1>1, <1>2, <1>3, OneMore

LEMMA OnTimeBehind ==
  ASSUME Sound, NEW next \in Nodes, K(Inmost.cur) \in Closers, Inmost.path # "main"
  PROVE  Last(GoesOn(Front(visits), next)).rounds < Len(cfg.nodes)
<1>1. PICK n : n = Len(visits)  OBVIOUS
<1>2. n \in Nat /\ n > 1 /\ visits \in Seq(Visits) /\ visits # <<>>
  BY <1>1, AtCloser DEF Sound, Typed
<1>3. n - 1 \in 1 .. n /\ n - 1 < n /\ n - 1 \in 1 .. n - 1  BY <1>2
<1>4. K(visits[n - 1].cur) \notin Closers  BY <1>1, <1>3, Opened DEF Openers, Closers
<1>5. visits[n - 1].rounds + 1 < Len(cfg.nodes)  BY <1>1, <1>3, <1>4, Rounds
<1>6. PICK loops : loops = Front(visits)  OBVIOUS
<1>7. loops \in Seq(Visits) /\ Len(loops) = n - 1 /\ \A i \in 1 .. n - 1 : loops[i] = visits[i]
  BY <1>1, <1>2, <1>6, Popped
<1>8. loops # <<>> /\ loops[n - 1] = visits[n - 1]  BY <1>2, <1>3, <1>7
<1> QED  BY <1>5, <1>6, <1>7, <1>8, OneMore

LEMMA OnTimeInside ==
  ASSUME Sound, NEW next \in Nodes, NEW loops \in Seq(Visits), NEW at \in Nodes,
         NEW path \in {"true", "false", "loop"}
  PROVE  Last(Append(loops, Visit(path, at, next))).rounds < Len(cfg.nodes)
<1>1. Visit(path, at, next) \in Visits /\ Visit(path, at, next).rounds = 0
  BY DEF Visit, Visits
<1>2. Last(Append(loops, Visit(path, at, next))) = Visit(path, at, next)  BY <1>1 DEF Last
<1>3. 0 < Len(cfg.nodes)  BY Places DEF Sound
<1> QED  BY <1>1, <1>2, <1>3

LEMMA Continues ==
  ASSUME Sound', Carried', status' = "visiting"
  PROVE  IInv'
BY DEF IInv, Sound

LEMMA StartSteps ==
  ASSUME Sound, Carried, status = "visiting", VisitStart
  PROVE  IInv'
<1> DEFINE next == Next(cfg, Inmost.cur)
<1>1. K(Inmost.cur) = "Start" /\ Inmost.cur \in Nodes  BY Innermost DEF VisitStart, At, Node, Sound, Here, Inmost
<1>2. Inmost.cur = StartNode /\ K(Inmost.cur) \notin Closers /\ K(Inmost.cur) \notin Openers
  BY <1>1, Places DEF Sound, Closers, Openers
<1>3. Comes(cfg, Lay, next, Lay[Inmost.cur].of, Lay[Inmost.cur].path, Lay[Inmost.cur].at)
  BY <1>1 DEF Sound, NestedBy, Followed, Passed, Behind, Nodes, K
<1>4. next \in Nodes /\ next # Nowhere  BY <1>3, ComesInside DEF Sound
<1> HIDE DEF next
<1>5. /\ Proceed(<<"start">>, next, GoesOn(visits, next)) /\ visited' = Append(visited, Inmost.cur)
  BY DEF VisitStart, Pass, next, Here, Inmost
<1>6. UNCHANGED <<fn, cfg>> /\ passenger' = Told(<<"start">>)  BY <1>5 DEF Proceed
<1>7. passenger'.outcome = "going"
  <2>1. passenger = Going(passenger.frames, passenger.states, passenger.loops, passenger.branches)
    BY DEF Carried
  <2>2. passenger.outcome = "going"  BY <2>1 DEF Going
  <2>3. passenger' = Going(Append(passenger.frames, <<>>), Append(passenger.states, <<"Start", NoId>>),
                           passenger.loops, passenger.branches)
    BY <1>6, <2>1, <2>2, ToldOne, StartGoes
  <2> QED  BY <2>3 DEF Going
<1>8. visits' = GoesOn(visits, next) /\ status' = "visiting"
  BY <1>2, <1>4, <1>5, <1>7, OnTime, Proceeds
<1>9. Sound'  BY <1>2, <1>3, <1>5, <1>6, <1>8, PassKeeps
<1>10. Carried'  BY <1>2, <1>4, <1>5, <1>6, <1>8, StartCarries
<1> QED  BY <1>8, <1>9, <1>10, Continues

\* A node that is passed leaves the frames and states as many as they are.
LEMMA Told6 ==
  ASSUME Sound, Carried, visited # <<>>,
         NEW event \in {"enter_scope", "exit_scope", "block", "ret", "cont", "br"}
  PROVE  \E frames : /\ IsSeq(frames) /\ Len(frames) = Len(passenger.frames)
                     /\ Told(<<event>>) = Going(frames, passenger.states, passenger.loops,
                                                passenger.branches)
<1>1. PICK f, s, l, b : /\ f = passenger.frames /\ s = passenger.states
                        /\ l = passenger.loops /\ b = passenger.branches
  OBVIOUS
<1>2. passenger = Going(f, s, l, b) /\ passenger.outcome = "going" /\ f # <<>> /\ IsSeq(f)
  BY <1>1, Carries
<1>3. Told(<<event>>) = On(event, Going(f, s, l, b), Node)  BY <1>2, ToldOne
<1>4. PICK parts : On(event, Going(f, s, l, b), Node)
                   \in {Going(f, s, l, b), Going(Extended(f, parts), s, l, b)}
  BY <1>2, PassGoes
<1>5. IsSeq(Extended(f, parts)) /\ Len(Extended(f, parts)) = Len(f)  BY <1>2, ExtendedAny
<1> QED  BY <1>1, <1>2, <1>3, <1>4, <1>5

LEMMA PassSteps ==
  ASSUME Sound, Carried, status = "visiting",
         NEW event \in {"enter_scope", "exit_scope", "block", "ret", "cont", "br"}, NEW next,
         K(Inmost.cur) \in (Passed \cup {"Break"}) \ {"Start"}, Pass(<<event>>, next),
         Comes(cfg, Lay, next, Lay[Inmost.cur].of, Lay[Inmost.cur].path, Lay[Inmost.cur].at)
  PROVE  IInv'
<1>1. /\ visited # <<>> /\ K(Inmost.cur) \notin Closers /\ K(Inmost.cur) \notin Openers
      /\ next \in Nodes /\ next # Nowhere
  BY NotFirst, ComesInside DEF Passed, Closers, Openers, Sound
<1>2. /\ Proceed(<<event>>, next, GoesOn(visits, next)) /\ visited' = Append(visited, Inmost.cur)
  BY DEF Pass, Here, Inmost
<1>3. UNCHANGED <<fn, cfg>> /\ passenger' = Told(<<event>>)  BY <1>2 DEF Proceed
<1>4. PICK frames : /\ IsSeq(frames) /\ Len(frames) = Len(passenger.frames)
                    /\ passenger' = Going(frames, passenger.states, passenger.loops,
                                          passenger.branches)
  BY <1>1, <1>3, Told6
<1>5. passenger'.outcome = "going"  BY <1>4 DEF Going
<1>6. visits' = GoesOn(visits, next) /\ status' = "visiting"
  BY <1>1, <1>2, <1>5, OnTime, Proceeds
<1>7. Sound'  BY <1>1, <1>2, <1>3, <1>6, PassKeeps
<1>8. Carried'  BY <1>1, <1>2, <1>3, <1>4, <1>6, PassCarries
<1> QED  BY <1>6, <1>7, <1>8, Continues

\* A break from which the graph leads nowhere is where the traversal panics.
LEMMA BreakSteps ==
  ASSUME Sound, Carried, status = "visiting", VisitBreak
  PROVE  IInv'
<1> DEFINE next == AfterBreak(cfg, Inmost.cur)
<1>1. /\ K(Inmost.cur) = "Break" /\ Inmost.cur \in Nodes /\ Pass(<<"br">>, next)
  BY Innermost DEF VisitBreak, At, Node, Sound, Here, Inmost
<1>2. \/ next = Nowhere
      \/ Comes(cfg, Lay, next, Lay[Inmost.cur].of, Lay[Inmost.cur].path, Lay[Inmost.cur].at)
  BY <1>1 DEF Sound, NestedBy, Followed, Nodes, K
<1> HIDE DEF next
<1>3. CASE next # Nowhere  BY <1>1, <1>2, <1>3, PassSteps
<1>4. CASE next = Nowhere
  <2>1. visited # <<>>  BY <1>1, NotFirst
  <2>2. /\ Proceed(<<"br">>, next, GoesOn(visits, next)) /\ visited' = Append(visited, Inmost.cur)
    BY <1>1 DEF Pass, Here, Inmost
  <2>3. UNCHANGED <<fn, cfg>> /\ passenger' = Told(<<"br">>)  BY <2>2 DEF Proceed
  <2>4. passenger'.outcome = "going"
    <3>1. "br" \in {"enter_scope", "exit_scope", "block", "ret", "cont", "br"}  OBVIOUS
    <3>2. PICK frames : Told(<<"br">>) = Going(frames, passenger.states, passenger.loops,
                                               passenger.branches)
      BY <2>1, <3>1, Told6
    <3> QED  BY <2>3, <3>2 DEF Going
  <2>5. UNCHANGED visits /\ status' = "panicked"  BY <1>4, <2>2, <2>4 DEF Proceed
  <2>6. Node'.n = "Break"  BY <1>1, <2>3, <2>5 DEF Node, Here, Inmost, K, Kind
  <2>7. Typed' /\ NoneTwice'  BY <2>2, <2>3, <2>5, Added, Same DEF Typed, Sound
  <2> QED  BY <2>5, <2>6, <2>7 DEF IInv
<1> QED  BY <1>3, <1>4

LEMMA HeadSteps ==
  ASSUME Sound, Carried, status = "visiting", VisitHead
  PROVE  IInv'
<1> DEFINE next == After(cfg, Inmost.cur, "True")
<1>1. /\ K(Inmost.cur) = "LoopHead" /\ Inmost.cur \in Nodes
      /\ Proceed(<<"loop_head", "loop_start_true_path">>, next,
                 Append(visits, Visit("loop", Inmost.cur, next)))
      /\ visited' = Append(visited, Inmost.cur)
  BY Innermost DEF VisitHead, Descend, At, Node, Sound, Here, Inmost
<1>2. Comes(cfg, Lay, next, Inmost.cur, "loop", 0)
  BY <1>1 DEF Sound, NestedBy, Followed, Nodes, K
<1>3. next \in Nodes /\ next # Nowhere  BY <1>2, ComesInside DEF Sound
<1>4. /\ visited # <<>> /\ K(Inmost.cur) \in Openers
      /\ \E p \in Paths : p[1] = K(Inmost.cur) /\ p[2] = "loop"
  BY <1>1, NotFirst DEF Openers, Paths
<1> HIDE DEF next
<1>5. UNCHANGED <<fn, cfg>> /\ passenger' = Told(<<"loop_head", "loop_start_true_path">>)
  BY <1>1 DEF Proceed
<1>6. Last(Append(visits, Visit("loop", Inmost.cur, next))).rounds < Len(cfg.nodes)
  BY <1>1, <1>3, OnTimeInside DEF Sound, Typed
<1>7. passenger'.outcome = "going" => visits' = Append(visits, Visit("loop", Inmost.cur, next))
  BY <1>1, <1>3, <1>6, Proceeds
<1>8. Carried' /\ passenger'.outcome = "going"  BY <1>1, <1>3, <1>4, <1>5, <1>7, HeadCarries
<1>9. visits' = Append(visits, Visit("loop", Inmost.cur, next)) /\ status' = "visiting"
  BY <1>1, <1>3, <1>6, <1>8, Proceeds
<1>10. Sound'  BY <1>1, <1>2, <1>4, <1>5, <1>9, DescendKeeps
<1> QED  BY <1>8, <1>9, <1>10, Continues

LEMMA SplitSteps ==
  ASSUME Sound, Carried, status = "visiting", VisitSplit
  PROVE  IInv'
<1> DEFINE next == After(cfg, Inmost.cur, "True")
<1>1. /\ K(Inmost.cur) = "BranchSplit" /\ Inmost.cur \in Nodes
      /\ Proceed(<<"branch_split", "branch_start_true_path">>, next,
                 Append(visits, Visit("true", Inmost.cur, next)))
      /\ visited' = Append(visited, Inmost.cur)
  BY Innermost DEF VisitSplit, Descend, At, Node, Sound, Here, Inmost
<1>2. Comes(cfg, Lay, next, Inmost.cur, "true", 0)
  BY <1>1 DEF Sound, NestedBy, Followed, Nodes, K
<1>3. next \in Nodes /\ next # Nowhere  BY <1>2, ComesInside DEF Sound
<1>4. /\ visited # <<>> /\ K(Inmost.cur) \in Openers
      /\ \E p \in Paths : p[1] = K(Inmost.cur) /\ p[2] = "true"
  BY <1>1, NotFirst DEF Openers, Paths
<1> HIDE DEF next
<1>5. UNCHANGED <<fn, cfg>> /\ passenger' = Told(<<"branch_split", "branch_start_true_path">>)
  BY <1>1 DEF Proceed
<1>6. Last(Append(visits, Visit("true", Inmost.cur, next))).rounds < Len(cfg.nodes)
  BY <1>1, <1>3, OnTimeInside DEF Sound, Typed
<1>7. passenger'.outcome = "going" => visits' = Append(visits, Visit("true", Inmost.cur, next))
  BY <1>1, <1>3, <1>6, Proceeds
<1>8. Carried' /\ passenger'.outcome = "going"  BY <1>1, <1>3, <1>4, <1>5, <1>7, SplitCarries
<1>9. visits' = Append(visits, Visit("true", Inmost.cur, next)) /\ status' = "visiting"
  BY <1>1, <1>3, <1>6, <1>8, Proceeds
<1>10. Sound'  BY <1>1, <1>2, <1>4, <1>5, <1>9, DescendKeeps
<1> QED  BY <1>8, <1>9, <1>10, Continues

LEMMA TurnSteps ==
  ASSUME Sound, Carried, status = "visiting", EndTruePath
  PROVE  IInv'
<1> DEFINE next == After(cfg, Inmost.at, "False")
<1>1. /\ K(Inmost.cur) = "BranchMerge" /\ Inmost.path = "true"
      /\ Proceed(<<"branch_end_true_path", "branch_start_false_path">>, next,
                 Append(Front(visits), Visit("false", Inmost.at, next)))
      /\ UNCHANGED visited
  BY Innermost DEF EndTruePath, At, Node, Sound, Here, Inmost
<1>2. K(Inmost.cur) \in Closers /\ K(Inmost.cur) # "Start"  BY <1>1 DEF Closers
<1>3. /\ Inmost.at \in Nodes /\ K(Inmost.at) = "BranchSplit"
      /\ Len(visits) \in 2 .. Len(visits) /\ Inmost = visits[Len(visits)]
  BY <1>1, <1>2, AtCloser, Inside
<1>4. Comes(cfg, Lay, next, Inmost.at, "false", 0)
  BY <1>3 DEF Sound, NestedBy, Followed, Nodes, K
<1>5. next \in Nodes /\ next # Nowhere  BY <1>4, ComesInside DEF Sound
<1>6. visited # <<>>  BY <1>2, NotFirst
<1> HIDE DEF next
<1>7. /\ UNCHANGED <<fn, cfg, visited>>
      /\ passenger' = Told(<<"branch_end_true_path", "branch_start_false_path">>)
  BY <1>1 DEF Proceed
<1>8. Last(Append(Front(visits), Visit("false", Inmost.at, next))).rounds < Len(cfg.nodes)
  <2>1. Front(visits) \in Seq(Visits)  BY Popped DEF Sound, Typed
  <2> QED  BY <1>3, <1>5, <2>1, OnTimeInside
<1>9. passenger'.outcome = "going" =>
        visits' = Append(Front(visits), Visit("false", Inmost.at, next)) /\ status' = "visiting"
  BY <1>1, <1>5, <1>8, Proceeds
<1>10. Carried' /\ passenger'.outcome = "going"  BY <1>1, <1>2, <1>5, <1>6, <1>7, <1>9, TurnCarries
<1>11. Sound'  BY <1>1, <1>2, <1>3, <1>4, <1>7, <1>9, <1>10, TurnKeeps
<1> QED  BY <1>9, <1>10, <1>11, Continues

\* Control goes on behind the path on which the split or head lies.
LEMMA LeaveSteps ==
  ASSUME Sound, Carried, status = "visiting", NEW path \in {"false", "loop"}, NEW next,
         K(Inmost.cur) \in Closers, Inmost.path = path,
         path = "false" => Leave(path, <<"branch_end_false_path", "branch_merge">>, next),
         path = "loop" => Leave(path, <<"loop_end_true_path", "loop_foot">>, next),
         Comes(cfg, Lay, next, Lay[Inmost.at].of, Lay[Inmost.at].path, Lay[Inmost.at].at)
  PROVE  IInv'
<1>1. PICK events : /\ path = "false" => events = <<"branch_end_false_path", "branch_merge">>
                    /\ path = "loop" => events = <<"loop_end_true_path", "loop_foot">>
  OBVIOUS
<1>2. Leave(path, events, next)  BY <1>1
<1>3. /\ Proceed(events, next, GoesOn(Front(visits), next)) /\ visited' = Append(visited, Inmost.cur)
  BY <1>2 DEF Leave, Here, Inmost
<1>4. next \in Nodes /\ next # Nowhere  BY ComesInside DEF Sound
<1>5. visited # <<>>  BY NotFirst DEF Closers
<1>6. UNCHANGED <<fn, cfg>> /\ passenger' = Told(events)  BY <1>3 DEF Proceed
<1>7. Last(GoesOn(Front(visits), next)).rounds < Len(cfg.nodes)  BY <1>4, OnTimeBehind
<1>8. passenger'.outcome = "going" => visits' = GoesOn(Front(visits), next) /\ status' = "visiting"
  BY <1>3, <1>4, <1>7, Proceeds
<1>9. Carried' /\ passenger'.outcome = "going"
  <2>1. CASE path = "false"  BY <1>1, <1>3, <1>4, <1>5, <1>6, <1>8, <2>1, MergeCarries
  <2>2. CASE path = "loop"  BY <1>1, <1>3, <1>4, <1>5, <1>6, <1>8, <2>2, FootCarries
  <2> QED  BY <2>1, <2>2
<1>10. Sound'  BY <1>3, <1>6, <1>8, <1>9, LeaveKeeps
<1> QED  BY <1>8, <1>9, <1>10, Continues

\* A merge or foot is not on the main path.
LEMMA OnItsPath ==
  ASSUME Sound, K(Inmost.cur) \in {"BranchMerge", "LoopFoot"}
  PROVE  Inmost.path # "main" /\ Lay[Inmost.cur].of = Inmost.at
<1>1. PICK n : n = Len(visits)  OBVIOUS
<1>2. n \in 1 .. n /\ Inmost = visits[n] /\ K(Inmost.cur) \in Closers
  BY <1>1, Innermost DEF Sound, Closers
<1>3. Lay[Inmost.cur].of = Inmost.at /\ \A p \in Paths : p[2] = Inmost.path => p[3] = K(Inmost.cur)
  BY <1>1, <1>2, Stands DEF Sound
<1>4. <<"Start", "main", "End">> \in Paths  BY DEF Paths
<1> QED  BY <1>3, <1>4

LEMMA MergeSteps ==
  ASSUME Sound, Carried, status = "visiting", EndFalsePath
  PROVE  IInv'
<1> DEFINE next == Next(cfg, Inmost.cur)
<1>1. /\ K(Inmost.cur) = "BranchMerge" /\ Inmost.path # "true" /\ Inmost.cur \in Nodes
      /\ Leave("false", <<"branch_end_false_path", "branch_merge">>, next)
  BY Innermost DEF EndFalsePath, At, Node, Sound, Here, Inmost
<1>2. K(Inmost.cur) \in Closers  BY <1>1 DEF Closers
<1>3. Inmost.path # "main" /\ Lay[Inmost.cur].of = Inmost.at  BY <1>1, <1>2, OnItsPath
<1>4. Inmost.path = "false"  BY <1>1, <1>2, <1>3, AtCloser
<1>5. Comes(cfg, Lay, next, Lay[Inmost.at].of, Lay[Inmost.at].path, Lay[Inmost.at].at)
  BY <1>1, <1>3 DEF Sound, NestedBy, Followed, Nodes, K
<1> HIDE DEF next
<1> QED  BY <1>1, <1>2, <1>4, <1>5, LeaveSteps

LEMMA FootSteps ==
  ASSUME Sound, Carried, status = "visiting", EndLoop
  PROVE  IInv'
<1> DEFINE next == AfterLoopFoot(cfg, After(cfg, Inmost.at, "False"))
<1>1. K(Inmost.cur) = "LoopFoot"  BY Innermost DEF EndLoop, At, Node, Sound, Here, Inmost
<1>2. K(Inmost.cur) \in Closers  BY <1>1 DEF Closers
<1>3. Inmost.path # "main"  BY <1>1, <1>2, OnItsPath
<1>4. Inmost.path = "loop" /\ Inmost.at \in Nodes  BY <1>1, <1>2, <1>3, AtCloser
<1>5. K(Inmost.at) = "LoopHead"
  <2>1. Len(visits) \in 2 .. Len(visits) /\ Inmost = visits[Len(visits)]  BY <1>2, <1>3, AtCloser
  <2> QED  BY <1>4, <2>1, Inside
<1>6. Comes(cfg, Lay, next, Lay[Inmost.at].of, Lay[Inmost.at].path, Lay[Inmost.at].at)
  BY <1>4, <1>5 DEF Sound, NestedBy, Followed, Nodes, K
<1>7. Leave("loop", <<"loop_end_true_path", "loop_foot">>, next)  BY <1>4 DEF EndLoop, Here, Inmost
<1> HIDE DEF next
<1> QED  BY <1>2, <1>4, <1>6, <1>7, LeaveSteps

\* At the end every node was visited, and no frame but the function's is left.
LEMMA EndSteps ==
  ASSUME Sound, Carried, status = "visiting", VisitEnd
  PROVE  IInv'
<1>1. K(Inmost.cur) = "End" /\ Inmost.cur \in Nodes  BY Innermost DEF VisitEnd, At, Node, Sound, Here, Inmost
<1>2. /\ passenger' = Told(<<"end">>) /\ visited' = Append(visited, Inmost.cur)
      /\ UNCHANGED <<fn, cfg, visits>>
  BY DEF VisitEnd, Here, Inmost
<1>3. /\ \A i \in 1 .. Len(visits) : visits[i].path = "main"
      /\ \A n \in Nodes : n \in Seen \/ n = Inmost.cur
  BY <1>1, AllButEnd
<1>4. visited # <<>>  BY <1>1, NotFirst
<1>5. Len(visits) = 1
  <2>1. Len(visits) \in Nat \ {0}  BY Innermost DEF Sound
  <2>2. Len(visits) > 1 => 2 \in 2 .. Len(visits) /\ 2 \in 1 .. Len(visits)  BY <2>1
  <2>3. Len(visits) > 1 => visits[2].path # "main"  BY <2>2, Inside
  <2>4. ~(Len(visits) > 1)  BY <1>3, <2>2, <2>3
  <2>5. ASSUME NEW n \in Nat \ {0}, ~(n > 1) PROVE n = 1  BY <2>5
  <2> QED  BY ONLY <2>1, <2>4, <2>5
<1>6. passenger'.outcome = "going"
  <2>1. PICK f, s, l, b : /\ f = passenger.frames /\ s = passenger.states
                          /\ l = passenger.loops /\ b = passenger.branches
    OBVIOUS
  <2>2. passenger = Going(f, s, l, b) /\ passenger.outcome = "going" /\ f # <<>> /\ s # <<>>
    BY <1>4, <2>1, Carries
  <2>3. Last(s) = <<"Start", NoId>>  BY <1>4, <1>5, <2>1, Carries
  <2>4. passenger' = On("end", Going(f, s, l, b), Node)  BY <1>2, <2>2, ToldOne
  <2> QED  BY <2>2, <2>3, <2>4, EndGoes
<1>7. status' = "done"
  <2>1. \A i \in DOMAIN visits : visits[i].path \in {"main", "loop"}  BY <1>3, Innermost DEF Sound
  <2> QED  BY <1>6, <2>1 DEF VisitEnd
<1>8. UNCHANGED <<fn, cfg>>  BY <1>2
<1>9. visited' \in Seq(Nodes) /\ NoneTwice' /\ Seen' = Seen \cup {Inmost.cur}
  BY <1>2, <1>8, Added
<1>10. Seen' = Nodes'
  <2>1. \A n \in Seen : n \in Nodes  BY DEF Sound, Typed, Seen
  <2> QED  BY <1>1, <1>3, <1>8, <1>9, <2>1, Same
<1>11. Typed'  BY <1>2, <1>8, <1>9, Same DEF Typed, Sound
<1> QED  BY <1>7, <1>9, <1>10, <1>11 DEF IInv

LEMMA StepKeeps ==
  ASSUME IInv, Step
  PROVE  IInv'
<1>1. status = "visiting" /\ Sound /\ Carried
  <2>1. status = "visiting"
    BY DEF Step, VisitStart, VisitScope, VisitBlock, VisitReturn, VisitContinue, VisitBreak,
           VisitSplit, VisitHead, EndTruePath, EndFalsePath, EndLoop, VisitEnd, At
  <2> QED  BY <2>1 DEF IInv
<1>2. /\ Node.n = K(Inmost.cur) /\ Inmost.cur \in Nodes  BY <1>1, Innermost DEF Sound, Node, Here, Inmost
<1>3. K(Inmost.cur) \in Passed =>
        Comes(cfg, Lay, Behind(cfg, Inmost.cur), Lay[Inmost.cur].of, Lay[Inmost.cur].path, Lay[Inmost.cur].at)
  BY <1>1, <1>2 DEF Sound, NestedBy, Followed, Nodes, K
<1>4. CASE VisitStart  BY <1>1, <1>4, StartSteps
<1>5. CASE VisitScope
  <2>1. CASE K(Inmost.cur) = "EnterScope" /\ Pass(<<"enter_scope">>, Next(cfg, Inmost.cur))
    <3>1. Behind(cfg, Inmost.cur) = Next(cfg, Inmost.cur)  BY <2>1 DEF Behind, K
    <3> QED  BY <1>1, <1>3, <2>1, <3>1, PassSteps DEF Passed
  <2>2. CASE K(Inmost.cur) = "ExitScope" /\ Pass(<<"exit_scope">>, Next(cfg, Inmost.cur))
    <3>1. Behind(cfg, Inmost.cur) = Next(cfg, Inmost.cur)  BY <2>2 DEF Behind, K
    <3> QED  BY <1>1, <1>3, <2>2, <3>1, PassSteps DEF Passed
  <2> QED  BY <1>2, <1>5, <2>1, <2>2 DEF VisitScope, At, Here, Inmost
<1>6. CASE VisitBlock
  <2>1. K(Inmost.cur) = "Block" /\ Pass(<<"block">>, Next(cfg, Inmost.cur))
    BY <1>2, <1>6 DEF VisitBlock, At, Here, Inmost
  <2>2. Behind(cfg, Inmost.cur) = Next(cfg, Inmost.cur)  BY <2>1 DEF Behind, K
  <2> QED  BY <1>1, <1>3, <2>1, <2>2, PassSteps DEF Passed
<1>7. CASE VisitReturn
  <2>1. K(Inmost.cur) = "Return" /\ Pass(<<"ret">>, AfterJump(cfg, Inmost.cur, "End"))
    BY <1>2, <1>7 DEF VisitReturn, At, Here, Inmost
  <2>2. Behind(cfg, Inmost.cur) = AfterJump(cfg, Inmost.cur, "End")  BY <2>1 DEF Behind, K
  <2> QED  BY <1>1, <1>3, <2>1, <2>2, PassSteps DEF Passed
<1>8. CASE VisitContinue
  <2>1. K(Inmost.cur) = "Continue" /\ Pass(<<"cont">>, AfterJump(cfg, Inmost.cur, "LoopHead"))
    BY <1>2, <1>8 DEF VisitContinue, At, Here, Inmost
  <2>2. Behind(cfg, Inmost.cur) = AfterJump(cfg, Inmost.cur, "LoopHead")  BY <2>1 DEF Behind, K
  <2> QED  BY <1>1, <1>3, <2>1, <2>2, PassSteps DEF Passed
<1>9. CASE VisitBreak  BY <1>1, <1>9, BreakSteps
<1>10. CASE VisitSplit  BY <1>1, <1>10, SplitSteps
<1>11. CASE VisitHead  BY <1>1, <1>11, HeadSteps
<1>12. CASE EndTruePath  BY <1>1, <1>12, TurnSteps
<1>13. CASE EndFalsePath  BY <1>1, <1>13, MergeSteps
<1>14. CASE EndLoop  BY <1>1, <1>14, FootSteps
<1>15. CASE VisitEnd  BY <1>1, <1>15, EndSteps
<1> QED
  BY <1>4, <1>5, <1>6, <1>7, <1>8, <1>9, <1>10, <1>11, <1>12, <1>13, <1>14, <1>15 DEF Step

LEMMA StillHolds ==
  ASSUME IInv, UNCHANGED vars
  PROVE  IInv'
<1>1. /\ UNCHANGED <<fn, cfg>>
      /\ visits' = visits /\ passenger' = passenger /\ visited' = visited /\ status' = status
  BY DEF vars
<1>2. /\ Lay' = Lay /\ Nodes' = Nodes /\ Visits' = Visits /\ cfg' = cfg /\ fn' = fn
      /\ NestedBy(cfg, Lay)' <=> NestedBy(cfg, Lay)
      /\ \A n : IdOf(n)' = IdOf(n) /\ K(n)' = K(n)
  BY <1>1, Same, SameNodes
<1>3. Seen' = Seen /\ Inmost' = Inmost /\ Node' = Node  BY <1>1, <1>2 DEF Seen, Here, Inmost, Node
<1>4. NoneTwice' <=> NoneTwice  BY <1>1 DEF NoneTwice
<1>5. Typed' <=> Typed  BY <1>1, <1>2 DEF Typed
<1>6. Standing' <=> Standing  BY <1>1, <1>2 DEF Standing
<1>7. \A n : Past(n)' <=> Past(n)  BY <1>1, <1>2, <1>3 DEF Past
<1>8. Sound' <=> Sound  BY <1>2, <1>3, <1>4, <1>5, <1>6, <1>7 DEF Sound
<1>9. \A kind : Ids(kind)' = Ids(kind)  BY <1>2, <1>3 DEF Ids
<1>10. \A v, state, loops, branches :
         Backed(v, state, loops, branches)' <=> Backed(v, state, loops, branches)
  BY <1>2 DEF Backed
<1>11. Carried' <=> Carried  BY <1>1, <1>3, <1>9, <1>10 DEF Carried
<1> QED  BY <1>1, <1>2, <1>3, <1>4, <1>5, <1>8, <1>11 DEF IInv

LEMMA AtFirst ==
  ASSUME Init
  PROVE  IInv
<1>1. fn \in Sources /\ cfg = CfgOf(fn) /\ visited = <<>> /\ passenger = New
      /\ visits = <<Visit("main", Nowhere, StartNode)>>
  BY DEF Init, NewPassenger
<1>2. Seen = {} /\ NoneTwice  BY <1>1 DEF Seen, NoneTwice
<1>3. CASE cfg.err # "none"  BY <1>2, <1>3 DEF IInv, Init
<1>4. CASE cfg.err = "none"
  <2>1. NestedBy(cfg, Lay)  BY <1>1, <1>4, GraphsNested DEF Lay
  <2>2. StartNode \in Nodes  BY <2>1, Places
  <2>3. /\ Visit("main", Nowhere, StartNode) \in Visits /\ visits \in Seq(Visits)
        /\ Len(visits) = 1 /\ visits # <<>>
        /\ visits[1] = [path |-> "main", at |-> Nowhere, cur |-> StartNode, rounds |-> 0]
    BY <1>1, <2>2 DEF Visit, Visits
  <2>4. Typed
    <3>1. visited \in Seq(Nodes)  BY <1>1
    <3> QED  BY <1>1, <2>3, <3>1 DEF Typed
  <2>5. \A i \in 1 .. Len(visits) : i = 1  BY <2>3
  <2>6. Standing
    <3>1. /\ LiesOn(Lay, StartNode, Nowhere, "main") /\ Lay[StartNode].at = 0 + 1
      BY <2>1 DEF NestedBy
    <3>2. Comes(cfg, Lay, StartNode, Nowhere, "main", 0)
      BY <2>2, <3>1 DEF Comes, Nodes
    <3> QED  BY <2>3, <2>5, <3>2 DEF Standing
  <2>7. ASSUME NEW n \in Nodes, Past(n) PROVE FALSE
    <3>1. HasPlace(n)  BY <2>1, Places
    <3>2. ~(LiesOn(Lay, n, Nowhere, "main") /\ Lay[n].at <= 0)  BY <3>1 DEF HasPlace, LiesOn
    <3>3. 1 \in 1 .. Len(visits) /\ 0 + (IF 1 < Len(visits) THEN 1 ELSE 0) = 0  BY <2>3
    <3> QED  BY <1>2, <2>3, <2>5, <2>7, <3>2, <3>3 DEF Past
  <2>8. Sound  BY <1>2, <2>1, <2>4, <2>6, <2>7 DEF Sound
  <2>9. Carried
    <3>1. /\ passenger = Going(<<>>, <<>>, <<>>, <<>>) /\ IsSeq(<<>>)
          /\ passenger.frames = <<>> /\ passenger.states = <<>>
          /\ passenger.loops = <<>> /\ passenger.branches = <<>>
      BY <1>1 DEF New, Going, IsSeq, None
    <3>2. DOMAIN <<>> = {} /\ Ids("LoopHead") = {} /\ Ids("BranchSplit") = {}  BY <1>2 DEF Ids
    <3>3. Inmost.cur = StartNode  BY <2>3, <2>4, Innermost
    <3> QED  BY <1>1, <3>1, <3>2, <3>3 DEF Carried
  <2> QED  BY <1>2, <1>4, <2>4, <2>8, <2>9 DEF IInv, Init
<1> QED  BY <1>3, <1>4

LEMMA Holds == Spec => []IInv
<1>1. Init => IInv  BY AtFirst
<1>2. IInv /\ [Walk]_vars => IInv'  BY StepKeeps, StillHolds DEF Walk, Stopped
<1> QED  BY <1>1, <1>2, PTL DEF Spec

-----------------------------------------------------------------------------

\* The traversal of any graph of nested paths, of the size and depth one likes,
\* with the first pass on board panics at a break from which one edge leads on
\* and nowhere else: no unreachable!() of visit_node is reached, no accessor of
\* the graph meets a node of the wrong degree, and no assert or unwrap of the
\* first pass fails (linear_cfg_traversal.rs, first_pass.rs).
THEOREM PanicsAtBreaksOnly == Spec => []OnlyBreakPanics
<1>1. IInv => OnlyBreakPanics  BY DEF IInv, OnlyBreakPanics
<1> QED  BY <1>1, Holds, PTL

\* On any such graph the first pass is told of no node twice, and of each node
\* when the traversal is done, dead code behind a return, a break or a continue
\* included.
THEOREM NodesOnce == Spec => []EveryNodeOnce
<1>1. IInv => EveryNodeOnce
  <2>1. ToSet(visited) = Seen  BY DEF ToSet, Seen
  <2> QED  BY <2>1 DEF IInv, EveryNodeOnce, NoneTwice, Nodes
<1> QED  BY <1>1, Holds, PTL

\* On any such graph the first pass has as many frames and states as there are
\* running calls of visit_node, and its states name the branches and loops these
\* walk, in their order.
THEOREM FramesFollow == Spec => []Bracketed
<1>1. IInv => Bracketed
  <2> SUFFICES ASSUME IInv, status = "visiting", visited # <<>>
               PROVE  /\ Len(passenger.frames) = Len(visits)
                      /\ [i \in DOMAIN passenger.states |-> passenger.states[i][2]] =
                         [i \in DOMAIN visits |-> IF i = 1 THEN NoId ELSE cfg.nodes[visits[i].at].id]
    BY DEF Bracketed
  <2>1. Sound /\ Carried  BY DEF IInv
  <2>2. PICK n : n = Len(visits)  OBVIOUS
  <2>3. PICK s : s = passenger.states  OBVIOUS
  <2>4. /\ Len(passenger.frames) = n /\ Len(s) = n /\ IsSeq(s) /\ s[1] = <<"Start", NoId>>
        /\ n \in Nat \ {0}
        /\ \A i \in 2 .. n : Backed(visits[i], s[i], passenger.loops, passenger.branches)
    BY <2>1, <2>2, <2>3, Carries
  <2>5. DOMAIN s = 1 .. n /\ DOMAIN visits = 1 .. n
    BY <2>1, <2>2, <2>4 DEF IsSeq, Sound, Typed
  <2>6. s[1][2] = NoId  BY <2>4
  <2>7. \A i \in 2 .. n : s[i][2] = IdOf(visits[i].at)  BY <2>4 DEF Backed
  <2>8. \A i \in 1 .. n : i = 1 \/ (i # 1 /\ i \in 2 .. n)  BY <2>4
  <2> QED  BY <2>2, <2>3, <2>4, <2>5, <2>6, <2>7, <2>8 DEF IdOf
<1> QED  BY <1>1, Holds, PTL


-----------------------------------------------------------------------------
(* Frames, a part at a time. *)

LEMMA EmptyFrame == FrameOf({}, <<>>)
<1>1. PICK s : s = <<>>  OBVIOUS
<1>2. IsSeq(s) /\ Len(s) = 0 /\ DOMAIN s = {}  BY <1>1, Empty
<1>3. \A i \in 0 .. 0 : i = 0  OBVIOUS
<1> QED  BY <1>1, <1>2, <1>3 DEF FrameOf

LEMMA MarkFrame ==
  ASSUME NEW m, IsMark(m)
  PROVE  FrameOf({m}, <<m>>)
<1>1. PICK s : s = <<m>>  OBVIOUS
<1>2. IsSeq(s) /\ Len(s) = 1 /\ s[1] = m /\ DOMAIN s = {1}  BY <1>1, Lone
<1>3. \A i \in 0 .. 1 : i > 0 => i = 1  OBVIOUS
<1>4. \A i \in 0 .. 1 : i < 1 => i + 1 = 1  OBVIOUS
<1>5. ~Performs(m, "FnCall") /\ ~Performs(m, "TakeReturn")  BY DEF IsMark, Performs
<1> QED  BY <1>1, <1>2, <1>3, <1>4, <1>5 DEF FrameOf

LEMMA MoreMarks ==
  ASSUME NEW A, NEW B, A \subseteq B, NEW parts, FrameOf(A, parts)
  PROVE  FrameOf(B, parts)
BY DEF FrameOf

LEMMA JoinedFrames ==
  ASSUME NEW A, NEW B, NEW s, NEW t, FrameOf(A, s), FrameOf(B, t)
  PROVE  FrameOf(A \cup B, s \o t)
<1>1. PICK v, n, m : v = s \o t /\ n = Len(s) /\ m = Len(t)  OBVIOUS
<1>2. IsSeq(s) /\ IsSeq(t)  BY DEF FrameOf
<1>3. /\ IsSeq(v) /\ Len(v) = n + m /\ n \in Nat /\ m \in Nat
      /\ DOMAIN s = 1 .. n /\ DOMAIN t = 1 .. m /\ DOMAIN v = 1 .. n + m
      /\ \A i \in 1 .. n : v[i] = s[i]
      /\ \A i \in 1 .. m : v[n + i] = t[i]
  BY <1>1, <1>2, Concat, LenOfAny
<1>4. \A i \in DOMAIN v : \/ v[i] \in A \cup B
                          \/ v[i].p = "Instruction" /\ v[i].instr.op \notin {"Jump", "JumpIf"}
  <2> DEFINE Moves(x) == x.p = "Instruction" /\ x.instr.op \notin {"Jump", "JumpIf"}
  <2>1. \A i \in DOMAIN s : s[i] \in A \/ Moves(s[i])  BY Zenon DEF FrameOf
  <2>2. \A i \in DOMAIN t : t[i] \in B \/ Moves(t[i])  BY Zenon DEF FrameOf
  <2> HIDE DEF Moves
  <2>3. ASSUME NEW i \in DOMAIN v PROVE v[i] \in A \cup B \/ Moves(v[i])
    <3>1. CASE i \in 1 .. n
      <4>1. v[i] = s[i] /\ i \in DOMAIN s  BY <1>3, <3>1
      <4> QED  BY <2>1, <4>1
    <3>2. CASE i \notin 1 .. n
      <4>1. i - n \in 1 .. m /\ i = n + (i - n)  BY <1>3, <3>2
      <4>2. v[i] = t[i - n] /\ i - n \in DOMAIN t  BY <1>3, <4>1
      <4> QED  BY <2>2, <4>2
    <3> QED  BY <3>1, <3>2
  <2> QED  BY <2>3 DEF Moves
<1> DEFINE Call(u, i) == i > 0 /\ Performs(u[i], "FnCall")
           Take(u, i) == i < Len(u) /\ Performs(u[i + 1], "TakeReturn")
<1>5. \A i \in 0 .. n : Call(s, i) <=> Take(s, i)  BY <1>1 DEF FrameOf
<1>6. \A i \in 0 .. m : Call(t, i) <=> Take(t, i)  BY <1>1 DEF FrameOf
<1>7. ASSUME NEW i \in 0 .. n + m PROVE Call(v, i) <=> Take(v, i)
  <2>1. CASE i < n
    <3>1. i \in 0 .. n /\ (i > 0 => i \in 1 .. n) /\ i + 1 \in 1 .. n /\ i < n + m
      BY <1>3, <2>1
    <3> QED  BY <1>1, <1>3, <1>5, <2>1, <3>1
  <2>2. CASE i = n
    <3>1. n \in 0 .. n /\ ~(n < n) /\ (n > 0 => n \in 1 .. n)  BY <1>3
    <3>2. ~Call(s, n)  BY <1>1, <1>5, <3>1
    <3>3. ~Call(v, n)  BY <1>3, <3>1, <3>2
    <3>4. 0 \in 0 .. m /\ ~(0 > 0) /\ 0 + 1 = 1  BY <1>3
    <3>5. ~Take(t, 0)  BY <1>6, <3>4
    <3>6. n < n + m => 0 < m /\ 1 \in 1 .. m  BY <1>3
    <3>7. ~Take(v, n)  BY <1>1, <1>3, <3>4, <3>5, <3>6
    <3> QED  BY <2>2, <3>3, <3>7
  <2>3. CASE i > n
    <3>1. PICK j \in 1 .. m : i = n + j
      <4>1. i - n \in 1 .. m /\ i = n + (i - n)  BY <1>3, <2>3
      <4> QED  BY <4>1
    <3>2. j \in 0 .. m /\ j > 0 /\ i > 0 /\ (i < n + m <=> j < m) /\ i + 1 = n + (j + 1)
      BY <1>3, <3>1
    <3>3. j < m => j + 1 \in 1 .. m  BY <1>3
    <3>4. Call(v, i) <=> Call(t, j)  BY <1>3, <3>1, <3>2
    <3>5. Take(v, i) <=> Take(t, j)  BY <1>1, <1>3, <3>2, <3>3
    <3> QED  BY <1>6, <3>2, <3>4, <3>5
  <2> QED  BY <1>3, <2>1, <2>2, <2>3
<1> QED  BY <1>1, <1>3, <1>4, <1>7 DEF FrameOf

-----------------------------------------------------------------------------
(* What was gathered: each frame is that of the nodes seen on its path. *)

\* What stands for a split or a head in the frame of the path it is on.
MarkOf(g, n) == Mark(IF Kind(g, n) = "LoopHead" THEN "Loop" ELSE "Branch", g.nodes[n].id)

OpenersOn(g, lay, S, of, path) == {n \in S : Kind(g, n) \in Openers /\ LiesOn(lay, n, of, path)}
MarksOn(g, lay, S, of, path) == {MarkOf(g, n) : n \in OpenersOn(g, lay, S, of, path)}

\* The code of the nodes of S on a path.
Full(g, lay, S, of, path, parts) ==
  /\ FrameOf(MarksOn(g, lay, S, of, path), parts)
  /\ \A n \in S : LiesOn(lay, n, of, path) =>
       /\ Kind(g, n) = "Return" => Returning(parts)
       /\ Kind(g, n) \in Openers => MarkOf(g, n) \in ToSet(parts)

\* The paths of a split or head, and the one whose code is not complete.
Sides(g, n) == IF Kind(g, n) = "LoopHead" THEN {"loop"} ELSE {"true", "false"}
Walked(vs, n, path) == \E i \in 2 .. Len(vs) : vs[i].at = n /\ (path = vs[i].path \/ path = "false")

EntryOf(g, n, loops, branches) ==
  IF Kind(g, n) = "LoopHead" THEN loops[g.nodes[n].id] ELSE branches[g.nodes[n].id]
SideOf(entry, path) == IF path = "loop" THEN entry.body ELSE entry[path]

\* What is kept of a split or head.
Shape(g, n, e) ==
  /\ e.condition = CondCode(g.nodes[n].cond) /\ e.result = CondResult(g.nodes[n].cond)
  /\ DOMAIN e = {"condition", "result"} \cup
                (IF Kind(g, n) = "LoopHead" THEN {"body"} ELSE {"true", "false"})

Complete(g, lay, S, of, path, side) == side = <<side[1]>> /\ Full(g, lay, S, of, path, side[1])

FramesFull(g, lay, S, vs, frames) ==
  \A i \in 1 .. Len(vs) : Full(g, lay, S, vs[i].at, vs[i].path, frames[i])

\* Nothing is left out of a path that was left.
EntryFull(g, lay, S, vs, n, e) ==
  /\ Shape(g, n, e)
  /\ \A path \in Sides(g, n) : Walked(vs, n, path) \/ Complete(g, lay, S, n, path, SideOf(e, path))

EntriesFull(g, lay, S, vs, loops, branches) ==
  \A n \in S : Kind(g, n) \in Openers => EntryFull(g, lay, S, vs, n, EntryOf(g, n, loops, branches))

Contents ==
  /\ FramesFull(cfg, Lay, Seen, visits, passenger.frames)
  /\ EntriesFull(cfg, Lay, Seen, visits, passenger.loops, passenger.branches)

AllFull ==
  LET p == passenger IN
  /\ DOMAIN p.loops = {IdOf(n) : n \in {m \in Nodes : K(m) = "LoopHead"}}
  /\ DOMAIN p.branches = {IdOf(n) : n \in {m \in Nodes : K(m) = "BranchSplit"}}
  /\ Complete(cfg, Lay, Nodes, Nowhere, "main", p.instructions)
  /\ EntriesFull(cfg, Lay, Nodes, <<>>, p.loops, p.branches)

CInv ==
  /\ status # "rejected" => cfg.err = "none"
  /\ NoJumps(cfg) => /\ status = "visiting" /\ visited # <<>> => Contents
                     /\ status = "done" => AllFull

-----------------------------------------------------------------------------
(* A node more. *)

LEMMA FullSame ==
  ASSUME NEW S, NEW x, NEW of, NEW path, NEW parts, Full(cfg, Lay, S, of, path, parts),
         ~LiesOn(Lay, x, of, path)
  PROVE  Full(cfg, Lay, S \cup {x}, of, path, parts)
<1>1. OpenersOn(cfg, Lay, S \cup {x}, of, path) = OpenersOn(cfg, Lay, S, of, path)
  BY DEF OpenersOn
<1>2. MarksOn(cfg, Lay, S \cup {x}, of, path) = MarksOn(cfg, Lay, S, of, path)
  BY <1>1 DEF MarksOn
<1> QED  BY <1>2 DEF Full

LEMMA FullEmpty ==
  ASSUME NEW S, NEW of, NEW path, \A n \in S : ~LiesOn(Lay, n, of, path)
  PROVE  Full(cfg, Lay, S, of, path, <<>>)
<1>1. OpenersOn(cfg, Lay, S, of, path) = {}  BY DEF OpenersOn
<1>2. MarksOn(cfg, Lay, S, of, path) = {}  BY <1>1 DEF MarksOn
<1> QED  BY <1>2, EmptyFrame DEF Full

LEMMA ReturnsAlso ==
  ASSUME NEW s, IsSeq(s), NEW t, IsSeq(t)
  PROVE  /\ Returning(s) \/ Returning(t) => Returning(s \o t)
         /\ ToSet(s) \subseteq ToSet(s \o t) /\ ToSet(t) \subseteq ToSet(s \o t)
<1>1. PICK v, n, m : v = s \o t /\ n = Len(s) /\ m = Len(t)  OBVIOUS
<1>2. /\ Len(v) = n + m /\ n \in Nat /\ m \in Nat
      /\ DOMAIN s = 1 .. n /\ DOMAIN t = 1 .. m /\ DOMAIN v = 1 .. n + m
      /\ \A i \in 1 .. n : v[i] = s[i]
      /\ \A i \in 1 .. m : v[n + i] = t[i]
  BY <1>1, Concat, LenOfAny
<1>3. \A i \in 1 .. n : i \in 1 .. n + m  BY <1>2
<1>4. \A i \in 1 .. m : n + i \in 1 .. n + m  BY <1>2
<1>5. Returning(s) \/ Returning(t) => Returning(v)  BY <1>2, <1>3, <1>4 DEF Returning
<1>6. ToSet(s) \subseteq ToSet(v) /\ ToSet(t) \subseteq ToSet(v)  BY <1>2, <1>3, <1>4 DEF ToSet
<1> QED  BY <1>1, <1>5, <1>6

\* A node that is no split or head adds straight code to its path.
LEMMA FullPassed ==
  ASSUME NEW S, NEW x, NEW of, NEW path, NEW parts, Full(cfg, Lay, S, of, path, parts),
         LiesOn(Lay, x, of, path), K(x) \notin Openers,
         NEW more, Straight(more), K(x) = "Return" => Returning(more)
  PROVE  Full(cfg, Lay, S \cup {x}, of, path, parts \o more)
<1> DEFINE A == MarksOn(cfg, Lay, S, of, path)
<1>1. OpenersOn(cfg, Lay, S \cup {x}, of, path) = OpenersOn(cfg, Lay, S, of, path)
  BY DEF OpenersOn, K
<1>2. MarksOn(cfg, Lay, S \cup {x}, of, path) = A  BY <1>1 DEF MarksOn
<1>3. FrameOf(A, parts) /\ FrameOf({}, more)  BY DEF Full, Straight
<1> HIDE DEF A
<1>4. FrameOf(A, parts \o more)
  <2>1. FrameOf(A \cup {}, parts \o more)  BY <1>3, JoinedFrames
  <2>2. A \cup {} = A  OBVIOUS
  <2> QED  BY <2>1, <2>2
<1>5. /\ Returning(parts) \/ Returning(more) => Returning(parts \o more)
      /\ ToSet(parts) \subseteq ToSet(parts \o more)
  BY <1>3, ReturnsAlso DEF FrameOf
<1>6. ASSUME NEW n \in S \cup {x}, LiesOn(Lay, n, of, path)
      PROVE  /\ Kind(cfg, n) = "Return" => Returning(parts \o more)
             /\ Kind(cfg, n) \in Openers => MarkOf(cfg, n) \in ToSet(parts \o more)
  <2>1. CASE n \in S  BY <1>5, <1>6, <2>1 DEF Full
  <2>2. CASE n = x  BY <1>5, <2>2 DEF K
  <2> QED  BY <1>6, <2>1, <2>2
<1> QED  BY <1>2, <1>4, <1>6 DEF Full

\* A split or head adds what stands for it.
LEMMA FullMarked ==
  ASSUME NEW S, NEW x, NEW of, NEW path, NEW parts, Full(cfg, Lay, S, of, path, parts),
         LiesOn(Lay, x, of, path), K(x) \in Openers
  PROVE  Full(cfg, Lay, S \cup {x}, of, path, parts \o <<MarkOf(cfg, x)>>)
<1> DEFINE A == MarksOn(cfg, Lay, S, of, path)
<1>1. PICK m : m = MarkOf(cfg, x)  OBVIOUS
<1>2. OpenersOn(cfg, Lay, S \cup {x}, of, path) = OpenersOn(cfg, Lay, S, of, path) \cup {x}
  BY DEF OpenersOn, K
<1>3. MarksOn(cfg, Lay, S \cup {x}, of, path) = A \cup {m}  BY <1>1, <1>2 DEF MarksOn
<1>4. IsMark(m)  BY <1>1 DEF IsMark, MarkOf, Mark
<1>5. PICK s : s = <<m>>  OBVIOUS
<1>6. FrameOf(A, parts) /\ FrameOf({m}, s)  BY <1>4, <1>5, MarkFrame DEF Full
<1> HIDE DEF A
<1>7. FrameOf(A \cup {m}, parts \o s)  BY <1>6, JoinedFrames
<1>8. /\ Returning(parts) => Returning(parts \o s)
      /\ ToSet(parts) \subseteq ToSet(parts \o s) /\ ToSet(s) \subseteq ToSet(parts \o s)
  BY <1>6, ReturnsAlso DEF FrameOf
<1>9. m \in ToSet(s)  BY <1>5, Lone DEF ToSet
<1>10. ASSUME NEW n \in S \cup {x}, LiesOn(Lay, n, of, path)
       PROVE  /\ Kind(cfg, n) = "Return" => Returning(parts \o s)
              /\ Kind(cfg, n) \in Openers => MarkOf(cfg, n) \in ToSet(parts \o s)
  <2>1. CASE n \in S  BY <1>8, <1>10, <2>1 DEF Full
  <2>2. CASE n = x  BY <1>1, <1>8, <1>9, <2>2 DEF K, Openers
  <2> QED  BY <1>10, <2>1, <2>2
<1> QED  BY <1>1, <1>3, <1>5, <1>7, <1>10 DEF Full

LEMMA CompleteSame ==
  ASSUME NEW S, NEW x, NEW of, NEW path, NEW side, Complete(cfg, Lay, S, of, path, side),
         ~LiesOn(Lay, x, of, path)
  PROVE  Complete(cfg, Lay, S \cup {x}, of, path, side)
BY FullSame DEF Complete

-----------------------------------------------------------------------------
(* Where the nodes are that were seen. *)

LEMMA SeenNodes ==
  ASSUME Sound
  PROVE  Seen \subseteq Nodes
BY DEF Sound, Typed, Seen

\* What is inside a split or head is seen after it.
LEMMA NoneInside ==
  ASSUME Sound, NEW n \in Nodes, n \notin Seen, NEW m \in Seen
  PROVE  Lay[m].of # n
<1> SUFFICES ASSUME Lay[m].of = n PROVE FALSE  OBVIOUS
<1>1. m \in Nodes /\ Past(m)  BY DEF Sound, Typed, Seen
<1>2. /\ Len(visits) \in Nat \ {0} /\ visits[1].at = Nowhere /\ Nowhere \notin Nodes
  BY Innermost, Places DEF Sound, Standing
<1>3. ASSUME NEW i \in 1 .. Len(visits) PROVE visits[i].at # n
  <2>1. CASE i = 1  BY <1>2, <2>1
  <2>2. CASE i # 1
    <3>1. i \in 2 .. Len(visits)  BY <1>2, <2>2
    <3> QED  BY <3>1, Inside
  <2> QED  BY <2>1, <2>2
<1> QED  BY <1>1, <1>3 DEF Past, LiesOn

\* The current node lies on the innermost path only.
LEMMA OnInnermost ==
  ASSUME Sound, K(Inmost.cur) \notin Closers
  PROVE  /\ \A i \in 1 .. Len(visits) :
              LiesOn(Lay, Inmost.cur, visits[i].at, visits[i].path) <=> i = Len(visits)
         /\ \A path : \A n \in Nodes : LiesOn(Lay, Inmost.cur, n, path) => Walked(visits, n, path)
<1>1. PICK n : n = Len(visits)  OBVIOUS
<1>2. PICK v : v = visits[n]  OBVIOUS
<1>3. /\ n \in Nat \ {0} /\ n \in 1 .. n /\ Inmost = v /\ visits[1].at = Nowhere
      /\ Nowhere \notin Nodes
  BY <1>1, <1>2, Innermost, Places DEF Sound, Standing
<1>4. Lay[Inmost.cur].of = v.at /\ Lay[Inmost.cur].path = v.path
  BY <1>1, <1>2, <1>3, Stands DEF Sound
<1>5. \A i \in 1 .. n : visits[i].at = v.at => i = n  BY <1>1, <1>2, <1>3, Apart DEF Sound
<1>6. \A i \in 1 .. n : LiesOn(Lay, Inmost.cur, visits[i].at, visits[i].path) <=> i = n
  BY <1>2, <1>4, <1>5 DEF LiesOn
<1>7. ASSUME NEW m \in Nodes, NEW path, LiesOn(Lay, Inmost.cur, m, path)
      PROVE  Walked(visits, m, path)
  <2>1. v.at = m /\ v.path = path  BY <1>4, <1>7 DEF LiesOn
  <2>2. n # 1  BY <1>2, <1>3, <2>1
  <2>3. n \in 2 .. n  BY <1>3, <2>2
  <2> QED  BY <1>1, <1>2, <2>1, <2>3 DEF Walked
<1> QED  BY <1>1, <1>6, <1>7

\* A merge, a foot or the end lies on no path.
LEMMA OnNone ==
  ASSUME Sound, K(Inmost.cur) \in Closers
  PROVE  /\ \A i \in 1 .. Len(visits) : ~LiesOn(Lay, Inmost.cur, visits[i].at, visits[i].path)
         /\ \A n, path : path # "end" => ~LiesOn(Lay, Inmost.cur, n, path)
<1>1. Inmost.cur \in Nodes  BY Innermost DEF Sound
<1>2. Lay[Inmost.cur].path = "end"  BY <1>1, Places DEF Sound, HasPlace
<1>3. \A i \in 1 .. Len(visits) : visits[i].path # "end"  BY Innermost DEF Sound
<1> QED  BY <1>2, <1>3 DEF LiesOn

-----------------------------------------------------------------------------
(* The contents after a step. *)

LEMMA ContentsAre ==
  ASSUME UNCHANGED <<fn, cfg>>, NEW frames, NEW states, NEW loops, NEW branches,
         passenger' = Going(frames, states, loops, branches),
         FramesFull(cfg, Lay, Seen', visits', frames),
         EntriesFull(cfg, Lay, Seen', visits', loops, branches)
  PROVE  Contents'
<1>1. passenger'.frames = frames /\ passenger'.loops = loops /\ passenger'.branches = branches
  BY Changed
<1> QED  BY <1>1, Same DEF Contents

\* The entry of a split or head stays full when what is walked of it and what is
\* inside it stay the same.
LEMMA EntrySame ==
  ASSUME NEW S, NEW x, NEW vs, NEW ws, NEW n, NEW e, EntryFull(cfg, Lay, S, vs, n, e),
         \A path \in Sides(cfg, n) :
           Walked(vs, n, path) => Walked(ws, n, path),
         \A path \in Sides(cfg, n) : LiesOn(Lay, x, n, path) => Walked(ws, n, path)
  PROVE  EntryFull(cfg, Lay, S \cup {x}, ws, n, e)
BY CompleteSame DEF EntryFull

\* A frame with more code at its end.
LEMMA ExtendedAt ==
  ASSUME NEW s, IsSeq(s), s # <<>>, NEW parts
  PROVE  /\ Extended(s, parts)[Len(s)] = s[Len(s)] \o parts
         /\ \A i \in 1 .. Len(s) - 1 : Extended(s, parts)[i] = s[i]
<1> DEFINE x == s[Len(s)] \o parts
           S == ToSet(s) \cup {x}
<1>1. s \in Seq(S) /\ x \in S  BY DEF IsSeq
<1>2. Extended(s, parts) = [s EXCEPT ![Len(s)] = x]  BY DEF Extended
<1> HIDE DEF S, x
<1>3. /\ Extended(s, parts)[Len(s)] = x
      /\ \A i \in 1 .. Len(s) - 1 : Extended(s, parts)[i] = s[i]
  BY <1>1, <1>2, Replaced
<1> QED  BY <1>3 DEF x

\* Visits of nodes on a path are those of its frames.
LEMMA GoesOnAlong ==
  ASSUME Sound, NEW next \in Nodes, visits' = GoesOn(visits, next)
  PROVE  /\ Len(visits') = Len(visits)
         /\ \A i \in 1 .. Len(visits) :
              visits'[i].at = visits[i].at /\ visits'[i].path = visits[i].path
         /\ \A n, path : Walked(visits', n, path) <=> Walked(visits, n, path)
<1>1. PICK n : n = Len(visits)  OBVIOUS
<1>2. visits \in Seq(Visits) /\ visits # <<>>  BY DEF Sound, Typed
<1>3. /\ Len(visits') = n /\ n \in Nat \ {0}
      /\ \A i \in 1 .. n - 1 : visits'[i] = visits[i]
      /\ visits'[n] = [path |-> visits[n].path, at |-> visits[n].at, cur |-> next,
                       rounds |-> visits[n].rounds + 1]
  BY <1>1, <1>2, WentOn
<1>4. \A i \in 1 .. n : i \in 1 .. n - 1 \/ i = n  BY <1>3
<1>5. \A i \in 1 .. n : visits'[i].at = visits[i].at /\ visits'[i].path = visits[i].path
  BY <1>3, <1>4
<1>6. \A i \in 2 .. n : i \in 1 .. n  BY <1>3
<1> QED  BY <1>1, <1>3, <1>5, <1>6 DEF Walked

\* A node that is passed adds its code to the innermost frame.
LEMMA PassFills ==
  ASSUME Sound, Carried, visited # <<>>, Contents, UNCHANGED <<fn, cfg>>, NEW next \in Nodes,
         K(Inmost.cur) \notin Openers, K(Inmost.cur) \notin Closers,
         visits' = GoesOn(visits, next), visited' = Append(visited, Inmost.cur),
         NEW more, Straight(more), K(Inmost.cur) = "Return" => Returning(more),
         NEW frames, frames[Len(visits)] = passenger.frames[Len(visits)] \o more,
         \A i \in 1 .. Len(visits) - 1 : frames[i] = passenger.frames[i],
         passenger' = Going(frames, passenger.states, passenger.loops, passenger.branches)
  PROVE  Contents'
<1>1. PICK n : n = Len(visits)  OBVIOUS
<1>2. PICK p : p = passenger  OBVIOUS
<1>3. Seen' = Seen \cup {Inmost.cur}  BY Added
<1>4. n \in Nat \ {0} /\ \A i \in 1 .. n : i \in 1 .. n - 1 \/ i = n  BY <1>1, Innermost DEF Sound
<1>5. /\ Len(visits') = n
      /\ \A i \in 1 .. n : visits'[i].at = visits[i].at /\ visits'[i].path = visits[i].path
      /\ \A m, path : Walked(visits', m, path) <=> Walked(visits, m, path)
  BY <1>1, GoesOnAlong
<1>6. /\ \A i \in 1 .. n : LiesOn(Lay, Inmost.cur, visits[i].at, visits[i].path) <=> i = n
      /\ \A path : \A m \in Nodes : LiesOn(Lay, Inmost.cur, m, path) => Walked(visits, m, path)
  BY <1>1, OnInnermost
<1>7. FramesFull(cfg, Lay, Seen', visits', frames)
  <2> SUFFICES ASSUME NEW i \in 1 .. n
               PROVE  Full(cfg, Lay, Seen \cup {Inmost.cur}, visits[i].at, visits[i].path, frames[i])
    BY <1>3, <1>5 DEF FramesFull
  <2>1. Full(cfg, Lay, Seen, visits[i].at, visits[i].path, p.frames[i])
    BY <1>1, <1>2 DEF Contents, FramesFull
  <2>2. CASE i = n
    <3>1. frames[i] = p.frames[i] \o more  BY <1>1, <1>2, <2>2
    <3>2. LiesOn(Lay, Inmost.cur, visits[i].at, visits[i].path)  BY <1>6, <2>2
    <3>3. Full(cfg, Lay, Seen \cup {Inmost.cur}, visits[i].at, visits[i].path, p.frames[i] \o more)
      BY <2>1, <3>2, FullPassed
    <3> QED  BY <3>1, <3>3
  <2>3. CASE i # n
    <3>1. frames[i] = p.frames[i]  BY <1>1, <1>2, <1>4, <2>3
    <3> QED  BY <1>6, <2>1, <2>3, <3>1, FullSame
  <2> QED  BY <2>2, <2>3
<1>8. EntriesFull(cfg, Lay, Seen', visits', p.loops, p.branches)
  <2> SUFFICES ASSUME NEW m \in Seen \cup {Inmost.cur}, Kind(cfg, m) \in Openers
               PROVE  EntryFull(cfg, Lay, Seen \cup {Inmost.cur}, visits', m,
                                EntryOf(cfg, m, p.loops, p.branches))
    BY <1>3 DEF EntriesFull
  <2>1. m \in Seen /\ m \in Nodes  BY DEF K, Sound, Typed, Seen
  <2>2. EntryFull(cfg, Lay, Seen, visits, m, EntryOf(cfg, m, p.loops, p.branches))
    BY <1>2, <2>1 DEF Contents, EntriesFull
  <2> QED  BY <1>5, <1>6, <2>1, <2>2, EntrySame
<1> QED  BY <1>2, <1>7, <1>8, ContentsAre

\* A split or head stands for itself in the innermost frame, and a path of it is
\* begun.
LEMMA DescendFills ==
  ASSUME Sound, Carried, visited # <<>>, Contents, UNCHANGED <<fn, cfg>>, NEW next \in Nodes,
         NEW path \in {"true", "loop"}, K(Inmost.cur) \in Openers,
         path = "loop" <=> K(Inmost.cur) = "LoopHead",
         visits' = Append(visits, Visit(path, Inmost.cur, next)), visited' = Append(visited, Inmost.cur),
         NEW states, NEW loops, NEW branches,
         \A m \in Seen : K(m) \in Openers =>
           EntryOf(cfg, m, loops, branches) = EntryOf(cfg, m, passenger.loops, passenger.branches),
         Shape(cfg, Inmost.cur, EntryOf(cfg, Inmost.cur, loops, branches)),
         passenger' = Going(Append(Extended(passenger.frames, <<MarkOf(cfg, Inmost.cur)>>), <<>>),
                            states, loops, branches)
  PROVE  Contents'
<1>1. PICK n : n = Len(visits)  OBVIOUS
<1>2. PICK p : p = passenger  OBVIOUS
<1>3. PICK x : x = Inmost.cur  OBVIOUS
<1>4. PICK f : f = Append(Extended(p.frames, <<MarkOf(cfg, x)>>), <<>>)  OBVIOUS
<1>5. Seen' = Seen \cup {x} /\ x \in Nodes /\ x \notin Seen /\ Seen \subseteq Nodes
  BY <1>3, Added, Fresh, SeenNodes
<1>6. /\ n \in Nat \ {0} /\ Len(visits') = n + 1
      /\ \A i \in 1 .. n : visits'[i] = visits[i]
      /\ visits'[n + 1].path = path /\ visits'[n + 1].at = x
      /\ \A i \in 1 .. n + 1 : i \in 1 .. n - 1 \/ i = n \/ i = n + 1
      /\ \A i \in 1 .. n - 1 : i \in 1 .. n
      /\ n \in 1 .. n /\ n + 1 \in 2 .. n + 1 /\ \A i \in 2 .. n : i \in 1 .. n /\ i \in 2 .. n + 1
  BY <1>1, <1>3, Entered
<1>7. K(x) \notin Closers  BY <1>3 DEF Openers, Closers
<1>8. /\ \A i \in 1 .. n : LiesOn(Lay, x, visits[i].at, visits[i].path) <=> i = n
      /\ \A side : \A m \in Nodes : LiesOn(Lay, x, m, side) => Walked(visits, m, side)
  BY <1>1, <1>3, <1>7, OnInnermost
<1>9. /\ f[n + 1] = <<>> /\ f[n] = p.frames[n] \o <<MarkOf(cfg, x)>>
      /\ \A i \in 1 .. n - 1 : f[i] = p.frames[i]
  <2>1. PICK e : e = Extended(p.frames, <<MarkOf(cfg, x)>>)  OBVIOUS
  <2>2. IsSeq(p.frames) /\ Len(p.frames) = n /\ p.frames # <<>>  BY <1>1, <1>2, Carries
  <2>3. /\ IsSeq(e) /\ Len(e) = n /\ e[n] = p.frames[n] \o <<MarkOf(cfg, x)>>
        /\ \A i \in 1 .. n - 1 : e[i] = p.frames[i]
    BY <2>1, <2>2, ExtendedAny, ExtendedAt
  <2>4. f = Append(e, <<>>)  BY <1>4, <2>1
  <2>5. f[n + 1] = <<>> /\ \A i \in 1 .. n : f[i] = e[i]  BY <2>3, <2>4, PushedAny
  <2> QED  BY <1>6, <2>3, <2>5
<1>10. \A m \in Seen \cup {x} : Lay[m].of # x
  <2>1. \A m \in Seen : Lay[m].of # x  BY <1>5, NoneInside
  <2>2. HasPlace(x) /\ Nowhere \notin Nodes  BY <1>5, Places DEF Sound
  <2>3. Lay[x].of # x  BY <1>5, <2>2 DEF HasPlace
  <2> QED  BY <2>1, <2>3
<1>11. FramesFull(cfg, Lay, Seen', visits', f)
  <2> SUFFICES ASSUME NEW i \in 1 .. n + 1
               PROVE  Full(cfg, Lay, Seen \cup {x}, visits'[i].at, visits'[i].path, f[i])
    BY <1>5, <1>6 DEF FramesFull
  <2>1. ASSUME i \in 1 .. n
        PROVE  visits'[i] = visits[i]
               /\ Full(cfg, Lay, Seen, visits[i].at, visits[i].path, p.frames[i])
    BY <1>1, <1>2, <1>6, <2>1 DEF Contents, FramesFull
  <2>2. CASE i = n
    <3>1. LiesOn(Lay, x, visits[i].at, visits[i].path) /\ i \in 1 .. n  BY <1>6, <1>8, <2>2
    <3>2. Full(cfg, Lay, Seen \cup {x}, visits[i].at, visits[i].path,
               p.frames[i] \o <<MarkOf(cfg, x)>>)
      BY <1>3, <2>1, <3>1, FullMarked
    <3> QED  BY <1>9, <2>1, <2>2, <3>1, <3>2
  <2>3. CASE i \in 1 .. n - 1
    <3>1. i \in 1 .. n /\ i # n /\ f[i] = p.frames[i]  BY <1>6, <1>9, <2>3
    <3> QED  BY <1>8, <2>1, <3>1, FullSame
  <2>4. CASE i = n + 1
    <3>1. Full(cfg, Lay, Seen \cup {x}, x, path, <<>>)  BY <1>10, FullEmpty DEF LiesOn
    <3> QED  BY <1>6, <1>9, <2>4, <3>1
  <2> QED  BY <1>6, <2>2, <2>3, <2>4
<1>12. EntriesFull(cfg, Lay, Seen', visits', loops, branches)
  <2> SUFFICES ASSUME NEW m \in Seen \cup {x}, Kind(cfg, m) \in Openers
               PROVE  EntryFull(cfg, Lay, Seen \cup {x}, visits', m, EntryOf(cfg, m, loops, branches))
    BY <1>5 DEF EntriesFull
  <2>1. CASE m \in Seen
    <3>1. EntryFull(cfg, Lay, Seen, visits, m, EntryOf(cfg, m, p.loops, p.branches))
      BY <1>2, <2>1 DEF Contents, EntriesFull
    <3>2. EntryOf(cfg, m, loops, branches) = EntryOf(cfg, m, p.loops, p.branches)
      BY <1>2, <2>1 DEF K
    <3>3. \A side : Walked(visits, m, side) => Walked(visits', m, side)
      BY <1>1, <1>6 DEF Walked
    <3> QED  BY <1>5, <1>8, <2>1, <3>1, <3>2, <3>3, EntrySame
  <2>2. CASE m = x
    <3>1. \A side \in Sides(cfg, x) : side = path \/ side = "false"  BY <1>3 DEF Sides, K
    <3>2. \A side \in Sides(cfg, x) : Walked(visits', x, side)
      BY <1>6, <3>1 DEF Walked
    <3> QED  BY <1>3, <2>2, <3>2 DEF EntryFull
  <2> QED  BY <2>1, <2>2
<1> QED  BY <1>2, <1>3, <1>4, <1>11, <1>12, ContentsAre

LEMMA HeadFills ==
  ASSUME Sound, Carried, visited # <<>>, Contents, UNCHANGED <<fn, cfg>>, NEW next \in Nodes,
         K(Inmost.cur) = "LoopHead",
         visits' = Append(visits, Visit("loop", Inmost.cur, next)), visited' = Append(visited, Inmost.cur),
         passenger' = Told(<<"loop_head", "loop_start_true_path">>)
  PROVE  Contents'
<1>1. PICK p : p = passenger  OBVIOUS
<1>2. PICK id : id = IdOf(Inmost.cur)  OBVIOUS
<1>3. PICK l : l = Insert(p.loops, id, HeadEntry(Node))  OBVIOUS
<1>4. PICK s : s = Append(p.states, <<"Loop", id>>)  OBVIOUS
<1>5. MarkOf(cfg, Inmost.cur) = Mark("Loop", id)  BY <1>2 DEF MarkOf, K, IdOf
<1>6. passenger' = Going(Append(Extended(p.frames, <<MarkOf(cfg, Inmost.cur)>>), <<>>), s, l, p.branches)
  BY <1>1, <1>2, <1>3, <1>4, <1>5, HeadTold
<1>7. DOMAIN p.loops = Ids("LoopHead") /\ id \notin Ids("LoopHead")  BY <1>1, <1>2, Carries, NewId
<1>8. l[id] = HeadEntry(Node) /\ \A y \in DOMAIN p.loops : l[y] = p.loops[y]
  BY <1>3, <1>7 DEF Insert
<1>9. ASSUME NEW m \in Seen, K(m) \in Openers
      PROVE  EntryOf(cfg, m, l, p.branches) = EntryOf(cfg, m, p.loops, p.branches)
  <2>1. K(m) = "LoopHead" => IdOf(m) \in DOMAIN p.loops  BY <1>7 DEF Ids
  <2> QED  BY <1>8, <2>1 DEF EntryOf, K, IdOf
<1>10. Shape(cfg, Inmost.cur, EntryOf(cfg, Inmost.cur, l, p.branches))
  <2>1. EntryOf(cfg, Inmost.cur, l, p.branches) = HeadEntry(Node)
    BY <1>2, <1>8 DEF EntryOf, K, IdOf
  <2>2. Node = cfg.nodes[Inmost.cur] /\ Kind(cfg, Inmost.cur) = "LoopHead"  BY DEF Node, K, Here, Inmost
  <2> QED  BY <2>1, <2>2 DEF Shape, HeadEntry
<1>11. K(Inmost.cur) \in Openers  BY DEF Openers
<1>12. /\ passenger' = Going(Append(Extended(passenger.frames, <<MarkOf(cfg, Inmost.cur)>>), <<>>),
                             s, l, p.branches)
       /\ \A m \in Seen : K(m) \in Openers =>
            EntryOf(cfg, m, l, p.branches) = EntryOf(cfg, m, passenger.loops, passenger.branches)
  BY <1>1, <1>6, <1>9
<1> QED  BY <1>10, <1>11, <1>12, DescendFills

LEMMA SplitFills ==
  ASSUME Sound, Carried, visited # <<>>, Contents, UNCHANGED <<fn, cfg>>, NEW next \in Nodes,
         K(Inmost.cur) = "BranchSplit",
         visits' = Append(visits, Visit("true", Inmost.cur, next)), visited' = Append(visited, Inmost.cur),
         passenger' = Told(<<"branch_split", "branch_start_true_path">>)
  PROVE  Contents'
<1>1. PICK p : p = passenger  OBVIOUS
<1>2. PICK id : id = IdOf(Inmost.cur)  OBVIOUS
<1>3. PICK b : b = Insert(p.branches, id, SplitEntry(Node))  OBVIOUS
<1>4. PICK s : s = Append(p.states, <<"Branching", id>>)  OBVIOUS
<1>5. MarkOf(cfg, Inmost.cur) = Mark("Branch", id)  BY <1>2 DEF MarkOf, K, IdOf
<1>6. passenger' = Going(Append(Extended(p.frames, <<MarkOf(cfg, Inmost.cur)>>), <<>>), s, p.loops, b)
  BY <1>1, <1>2, <1>3, <1>4, <1>5, SplitTold
<1>7. DOMAIN p.branches = Ids("BranchSplit") /\ id \notin Ids("BranchSplit")
  BY <1>1, <1>2, Carries, NewId
<1>8. b[id] = SplitEntry(Node) /\ \A y \in DOMAIN p.branches : b[y] = p.branches[y]
  BY <1>3, <1>7 DEF Insert
<1>9. ASSUME NEW m \in Seen, K(m) \in Openers
      PROVE  EntryOf(cfg, m, p.loops, b) = EntryOf(cfg, m, p.loops, p.branches)
  <2>1. K(m) # "LoopHead" => IdOf(m) \in DOMAIN p.branches  BY <1>7, <1>9 DEF Ids, Openers
  <2> QED  BY <1>8, <2>1 DEF EntryOf, K, IdOf
<1>10. Shape(cfg, Inmost.cur, EntryOf(cfg, Inmost.cur, p.loops, b))
  <2>1. EntryOf(cfg, Inmost.cur, p.loops, b) = SplitEntry(Node)
    BY <1>2, <1>8 DEF EntryOf, K, IdOf
  <2>2. Node = cfg.nodes[Inmost.cur] /\ Kind(cfg, Inmost.cur) = "BranchSplit"  BY DEF Node, K, Here, Inmost
  <2> QED  BY <2>1, <2>2 DEF Shape, SplitEntry
<1> QED  BY <1>1, <1>6, <1>9, <1>10, DescendFills DEF Openers

\* What is walked of the other splits and heads when a path is left.
LEMMA WalkedStill ==
  ASSUME Sound, K(Inmost.cur) \in Closers, Inmost.path # "main", NEW m, m # Inmost.at, NEW vs,
         Len(vs) \in {Len(visits) - 1, Len(visits)},
         \A i \in 1 .. Len(visits) - 1 : vs[i].at = visits[i].at /\ vs[i].path = visits[i].path,
         NEW path, Walked(visits, m, path)
  PROVE  Walked(vs, m, path)
<1>1. PICK n : n = Len(visits)  OBVIOUS
<1>2. n \in Nat /\ n > 1 /\ Inmost = visits[n]  BY <1>1, AtCloser
<1>3. PICK i \in 2 .. n : visits[i].at = m /\ (path = visits[i].path \/ path = "false")
  BY <1>1 DEF Walked
<1>4. i # n  BY <1>2, <1>3
<1>5. i \in 1 .. n - 1 /\ i \in 2 .. n - 1 /\ i \in 2 .. n  BY <1>2, <1>3, <1>4
<1> QED  BY <1>1, <1>3, <1>5 DEF Walked

\* The true path of a branch is complete, nothing of the false one was seen.
LEMMA TurnFills ==
  ASSUME Sound, Carried, visited # <<>>, Contents, K(Inmost.cur) \in Closers, Inmost.path = "true",
         UNCHANGED <<fn, cfg, visited>>, NEW next \in Nodes,
         visits' = Append(Front(visits), Visit("false", Inmost.at, next)),
         passenger' = Told(<<"branch_end_true_path", "branch_start_false_path">>)
  PROVE  Contents'
<1>1. PICK n : n = Len(visits)  OBVIOUS
<1>2. PICK p : p = passenger  OBVIOUS
<1>3. PICK s : s = Inmost.at  OBVIOUS
<1>4. PICK id : id = IdOf(s)  OBVIOUS
<1>5. PICK b : b = Coded(p.branches, id, "true", <<Last(p.frames)>>)  OBVIOUS
<1>6. PICK f : f = Append(Front(p.frames), <<>>)  OBVIOUS
<1>7. /\ passenger' = Going(f, p.states, p.loops, b)
      /\ K(s) = "BranchSplit" /\ id \in DOMAIN p.branches
  BY <1>2, <1>3, <1>4, <1>5, <1>6, TurnTold
<1>8. /\ n \in Nat /\ n > 1 /\ n \in 2 .. n /\ n \in 1 .. n /\ Inmost = visits[n] /\ s \in Nodes
      /\ \A i \in 1 .. n : i \in 1 .. n - 1 \/ i = n
      /\ \A i \in 1 .. n - 1 : i \in 1 .. n /\ i # n
  <2>1. n \in Nat /\ n > 1 /\ n \in 2 .. n /\ n \in 1 .. n /\ Inmost = visits[n] /\ s \in Nodes
    BY <1>1, <1>3, AtCloser
  <2> QED  BY <2>1
<1>9. /\ Len(visits') = n /\ \A i \in 1 .. n - 1 : visits'[i] = visits[i]
      /\ visits'[n].path = "false" /\ visits'[n].at = s
  <2>1. visits \in Seq(Visits) /\ visits # <<>>  BY DEF Sound, Typed
  <2>2. /\ Front(visits) \in Seq(Visits) /\ Len(Front(visits)) = n - 1
        /\ \A i \in 1 .. n - 1 : Front(visits)[i] = visits[i]
    BY <1>1, <2>1, Popped
  <2>3. /\ Visit("false", s, next) \in Visits
        /\ Visit("false", s, next).path = "false" /\ Visit("false", s, next).at = s
    BY <1>8 DEF Visit, Visits
  <2>4. (n - 1) + 1 = n  BY <1>8
  <2> QED  BY <1>3, <2>2, <2>3, <2>4, Pushed
<1>10. /\ f[n] = <<>> /\ p.frames[n] = Last(p.frames)
       /\ \A i \in 1 .. n - 1 : f[i] = p.frames[i]
  <2>1. PICK e : e = Front(p.frames)  OBVIOUS
  <2>2. IsSeq(p.frames) /\ Len(p.frames) = n /\ p.frames # <<>>  BY <1>1, <1>2, Carries
  <2>3. /\ IsSeq(e) /\ Len(e) = n - 1 /\ \A i \in 1 .. n - 1 : e[i] = p.frames[i]
        /\ Last(p.frames) = p.frames[n]
    BY <2>1, <2>2, PoppedAny
  <2>4. f = Append(e, <<>>) /\ (n - 1) + 1 = n  BY <1>6, <1>8, <2>1
  <2>5. f[n] = <<>> /\ \A i \in 1 .. n - 1 : f[i] = e[i]  BY <2>3, <2>4, PushedAny
  <2> QED  BY <2>3, <2>5
<1>11. Seen' = Seen /\ Seen \subseteq Nodes  BY SeenNodes DEF Seen
<1>12. ASSUME NEW m \in Seen PROVE ~LiesOn(Lay, m, s, "false")
  <2> SUFFICES ASSUME LiesOn(Lay, m, s, "false") PROVE FALSE  OBVIOUS
  <2>1. Past(m)  BY <1>11 DEF Sound
  <2>2. \A i \in 1 .. n : visits[i].at = s => i = n  BY <1>1, <1>3, <1>8, Apart DEF Sound
  <2>3. visits[n].path = "true" /\ visits[n].at = s  BY <1>3, <1>8
  <2> QED  BY <1>1, <1>8, <2>1, <2>2, <2>3 DEF Past, LiesOn
<1>13. FramesFull(cfg, Lay, Seen', visits', f)
  <2> SUFFICES ASSUME NEW i \in 1 .. n
               PROVE  Full(cfg, Lay, Seen, visits'[i].at, visits'[i].path, f[i])
    BY <1>9, <1>11 DEF FramesFull
  <2>1. CASE i = n
    <3>1. Full(cfg, Lay, Seen, s, "false", <<>>)  BY <1>12, FullEmpty
    <3> QED  BY <1>9, <1>10, <2>1, <3>1
  <2>2. CASE i \in 1 .. n - 1
    <3>1. Full(cfg, Lay, Seen, visits[i].at, visits[i].path, p.frames[i])
      BY <1>1, <1>2 DEF Contents, FramesFull
    <3> QED  BY <1>9, <1>10, <2>2, <3>1
  <2> QED  BY <1>8, <2>1, <2>2
<1>14. EntriesFull(cfg, Lay, Seen', visits', p.loops, b)
  <2> SUFFICES ASSUME NEW m \in Seen, Kind(cfg, m) \in Openers
               PROVE  EntryFull(cfg, Lay, Seen, visits', m, EntryOf(cfg, m, p.loops, b))
    BY <1>11 DEF EntriesFull
  <2>1. EntryFull(cfg, Lay, Seen, visits, m, EntryOf(cfg, m, p.loops, p.branches))
    BY <1>2 DEF Contents, EntriesFull
  <2>2. CASE m = s
    <3>1. PICK d : d = p.branches[id]  OBVIOUS
    <3>2. /\ EntryOf(cfg, m, p.loops, b) = b[id] /\ EntryOf(cfg, m, p.loops, p.branches) = d
      BY <1>4, <1>7, <2>2, <3>1 DEF EntryOf, K, IdOf
    <3>3. b[id] = [d EXCEPT !["true"] = <<Last(p.frames)>>]  BY <1>5, <1>7, <3>1 DEF Coded
    <3>4. Shape(cfg, m, d) /\ Kind(cfg, m) = "BranchSplit"
      BY <1>7, <2>1, <2>2, <3>2 DEF EntryFull, K
    <3>5. DOMAIN d = {"condition", "result", "true", "false"}
      BY <3>4 DEF Shape
    <3>6. /\ b[id]["true"] = <<Last(p.frames)>> /\ DOMAIN b[id] = DOMAIN d
          /\ b[id].condition = d.condition /\ b[id].result = d.result
      BY <3>3, <3>5
    <3>7. Shape(cfg, m, b[id])  BY <3>4, <3>6 DEF Shape
    <3>8. Complete(cfg, Lay, Seen, s, "true", <<p.frames[n]>>)
      <4>1. Full(cfg, Lay, Seen, s, "true", p.frames[n])
        BY <1>1, <1>2, <1>3, <1>8 DEF Contents, FramesFull
      <4> QED  BY <4>1 DEF Complete
    <3>9. SideOf(b[id], "true") = <<p.frames[n]>>  BY <1>10, <3>6 DEF SideOf
    <3>10. Walked(visits', s, "false")  BY <1>8, <1>9 DEF Walked
    <3>11. \A path \in Sides(cfg, m) : path = "true" \/ path = "false"  BY <3>4 DEF Sides
    <3> QED  BY <2>2, <3>2, <3>7, <3>8, <3>9, <3>10, <3>11 DEF EntryFull
  <2>3. CASE m # s
    <3>1. EntryOf(cfg, m, p.loops, b) = EntryOf(cfg, m, p.loops, p.branches)
      <4>1. K(m) = "BranchSplit" => IdOf(m) # id /\ IdOf(m) \in DOMAIN p.branches
        <5>1. DOMAIN p.branches = Ids("BranchSplit")  BY <1>2, Carries
        <5>2. K(m) = "BranchSplit" => IdOf(m) # id
          BY <1>4, <1>7, <1>8, <1>11, <2>3, OwnIds DEF Sound, Openers
        <5> QED  BY <5>1, <5>2 DEF Ids
      <4>2. K(m) # "LoopHead" => K(m) = "BranchSplit"  BY DEF K, Openers
      <4> QED  BY <1>5, <4>1, <4>2 DEF EntryOf, K, IdOf, Coded
    <3>2. \A path : Walked(visits, m, path) => Walked(visits', m, path)
      <4>1. PICK vs : vs = visits'  OBVIOUS
      <4>2. Len(vs) \in {Len(visits) - 1, Len(visits)}  BY <1>1, <1>9, <4>1
      <4>3. \A i \in 1 .. Len(visits) - 1 : vs[i].at = visits[i].at /\ vs[i].path = visits[i].path
        BY <1>1, <1>9, <4>1
      <4>4. Inmost.path # "main" /\ m # Inmost.at  BY <1>3, <2>3
      <4>5. ASSUME NEW path, Walked(visits, m, path) PROVE Walked(vs, m, path)
        BY <4>2, <4>3, <4>4, <4>5, WalkedStill
      <4> QED  BY <4>1, <4>5
    <3> QED  BY <2>1, <3>1, <3>2 DEF EntryFull
  <2> QED  BY <2>2, <2>3
<1>15. UNCHANGED <<fn, cfg>>  OBVIOUS
<1> QED  BY <1>7, <1>13, <1>14, <1>15, ContentsAre

\* A loop, or the false path of a branch, is complete.
LEMMA LeaveFills ==
  ASSUME Sound, Carried, visited # <<>>, Contents, K(Inmost.cur) \in Closers,
         Inmost.path \in {"false", "loop"}, UNCHANGED <<fn, cfg>>, NEW next \in Nodes,
         visits' = GoesOn(Front(visits), next), visited' = Append(visited, Inmost.cur),
         NEW states, NEW loops, NEW branches,
         \A m \in Seen : K(m) \in Openers /\ m # Inmost.at =>
           EntryOf(cfg, m, loops, branches) = EntryOf(cfg, m, passenger.loops, passenger.branches),
         Shape(cfg, Inmost.at, EntryOf(cfg, Inmost.at, loops, branches)),
         SideOf(EntryOf(cfg, Inmost.at, loops, branches), Inmost.path) = <<Last(passenger.frames)>>,
         Inmost.path = "false" =>
           SideOf(EntryOf(cfg, Inmost.at, loops, branches), "true")
           = SideOf(EntryOf(cfg, Inmost.at, passenger.loops, passenger.branches), "true"),
         passenger' = Going(Front(passenger.frames), states, loops, branches)
  PROVE  Contents'
<1>1. PICK n : n = Len(visits)  OBVIOUS
<1>2. PICK p : p = passenger  OBVIOUS
<1>3. PICK s : s = Inmost.at  OBVIOUS
<1>4. PICK x : x = Inmost.cur  OBVIOUS
<1>5. PICK f : f = Front(p.frames)  OBVIOUS
<1>6. Inmost.path # "main"  OBVIOUS
<1>7. /\ n \in Nat /\ n > 1 /\ n \in 2 .. n /\ n \in 1 .. n /\ Inmost = visits[n] /\ s \in Nodes
      /\ \A i \in 1 .. n - 1 : i \in 1 .. n /\ i # n
  <2>1. n \in Nat /\ n > 1 /\ n \in 2 .. n /\ n \in 1 .. n /\ Inmost = visits[n] /\ s \in Nodes
    BY <1>1, <1>3, <1>6, AtCloser
  <2> QED  BY <2>1
<1>8. /\ s \in Seen
      /\ Inmost.path = "loop" => K(s) = "LoopHead"
      /\ Inmost.path = "false" => K(s) = "BranchSplit"
  BY <1>1, <1>3, <1>7, Inside
<1>9. /\ Len(visits') = n - 1
      /\ \A i \in 1 .. n - 1 : visits'[i].path = visits[i].path /\ visits'[i].at = visits[i].at
  BY <1>1, <1>6, Left
<1>10. p.frames[n] = Last(p.frames) /\ \A i \in 1 .. n - 1 : f[i] = p.frames[i]
  <2>1. IsSeq(p.frames) /\ Len(p.frames) = n /\ p.frames # <<>>  BY <1>1, <1>2, Carries
  <2> QED  BY <1>5, <2>1, PoppedAny
<1>11. Seen' = Seen \cup {x} /\ K(x) \notin Openers
  BY <1>4, Added DEF Openers, Closers
<1>12. /\ \A i \in 1 .. n : ~LiesOn(Lay, x, visits[i].at, visits[i].path)
       /\ \A m, path : path # "end" => ~LiesOn(Lay, x, m, path)
  BY <1>1, <1>4, OnNone
<1>13. FramesFull(cfg, Lay, Seen', visits', f)
  <2> SUFFICES ASSUME NEW i \in 1 .. n - 1
               PROVE  Full(cfg, Lay, Seen \cup {x}, visits[i].at, visits[i].path, f[i])
    BY <1>9, <1>11 DEF FramesFull
  <2>1. Full(cfg, Lay, Seen, visits[i].at, visits[i].path, p.frames[i])
    BY <1>1, <1>2, <1>7 DEF Contents, FramesFull
  <2> QED  BY <1>7, <1>10, <1>12, <2>1, FullSame
<1>14. \A m, path : path \in Sides(cfg, m) => path # "end"  BY DEF Sides
<1>15. EntriesFull(cfg, Lay, Seen', visits', loops, branches)
  <2> SUFFICES ASSUME NEW m \in Seen, Kind(cfg, m) \in Openers
               PROVE  EntryFull(cfg, Lay, Seen \cup {x}, visits', m, EntryOf(cfg, m, loops, branches))
    BY <1>11 DEF EntriesFull, K
  <2>1. EntryFull(cfg, Lay, Seen, visits, m, EntryOf(cfg, m, p.loops, p.branches))
    BY <1>2 DEF Contents, EntriesFull
  <2>2. CASE m = s
    <3>1. PICK e : e = EntryOf(cfg, s, loops, branches)  OBVIOUS
    <3>2. Shape(cfg, s, e) /\ SideOf(e, Inmost.path) = <<p.frames[n]>>
      BY <1>2, <1>3, <1>10, <3>1
    <3>3. Complete(cfg, Lay, Seen \cup {x}, s, Inmost.path, <<p.frames[n]>>)
      <4>1. Full(cfg, Lay, Seen, s, Inmost.path, p.frames[n])
        BY <1>1, <1>2, <1>3, <1>7 DEF Contents, FramesFull
      <4>2. ~LiesOn(Lay, x, s, Inmost.path)  BY <1>3, <1>7, <1>12
      <4>3. Full(cfg, Lay, Seen \cup {x}, s, Inmost.path, p.frames[n])  BY <4>1, <4>2, FullSame
      <4> QED  BY <4>3 DEF Complete
    <3>4. ASSUME Inmost.path = "false"
          PROVE  Complete(cfg, Lay, Seen \cup {x}, s, "true", SideOf(e, "true"))
      <4>1. ~Walked(visits, s, "true")
        <5>1. \A i \in 1 .. n : visits[i].at = s => i = n  BY <1>1, <1>3, <1>7, Apart DEF Sound
        <5>2. \A i \in 2 .. n : i \in 1 .. n  BY <1>7
        <5>3. visits[n].path = "false"  BY <1>7, <3>4
        <5> QED  BY <1>1, <5>1, <5>2, <5>3 DEF Walked
      <4>2. "true" \in Sides(cfg, s)  BY <1>8, <3>4 DEF Sides, K
      <4>3. SideOf(e, "true") = SideOf(EntryOf(cfg, s, p.loops, p.branches), "true")
        BY <1>2, <1>3, <3>1, <3>4
      <4>4. Complete(cfg, Lay, Seen, s, "true", SideOf(e, "true"))
        BY <2>1, <2>2, <4>1, <4>2, <4>3 DEF EntryFull
      <4> QED  BY <1>12, <4>4, CompleteSame
    <3>5. \A path \in Sides(cfg, s) : path = Inmost.path \/ (path = "true" /\ Inmost.path = "false")
      BY <1>8 DEF Sides, K
    <3> QED  BY <2>2, <3>1, <3>2, <3>3, <3>4, <3>5 DEF EntryFull
  <2>3. CASE m # s
    <3>1. EntryOf(cfg, m, loops, branches) = EntryOf(cfg, m, p.loops, p.branches)
      BY <1>2, <1>3, <2>3 DEF K
    <3>2. \A path : Walked(visits, m, path) => Walked(visits', m, path)
      <4>1. Len(visits') \in {Len(visits) - 1, Len(visits)}  BY <1>1, <1>9
      <4>2. \A i \in 1 .. Len(visits) - 1 :
              visits'[i].at = visits[i].at /\ visits'[i].path = visits[i].path
        BY <1>1, <1>9
      <4> QED  BY <1>3, <1>6, <2>3, <4>1, <4>2, WalkedStill
    <3> QED  BY <1>12, <1>14, <2>1, <3>1, <3>2, EntrySame
  <2> QED  BY <2>2, <2>3
<1> QED  BY <1>2, <1>5, <1>13, <1>15, ContentsAre

LEMMA FootFills ==
  ASSUME Sound, Carried, visited # <<>>, Contents, K(Inmost.cur) \in Closers, Inmost.path = "loop",
         UNCHANGED <<fn, cfg>>, NEW next \in Nodes,
         visits' = GoesOn(Front(visits), next), visited' = Append(visited, Inmost.cur),
         passenger' = Told(<<"loop_end_true_path", "loop_foot">>)
  PROVE  Contents'
<1>1. PICK p : p = passenger  OBVIOUS
<1>2. PICK x : x = Inmost.at  OBVIOUS
<1>3. PICK id : id = IdOf(x)  OBVIOUS
<1>4. PICK code : code = <<Last(p.frames)>>  OBVIOUS
<1>5. PICK l : l = Bodied(p.loops, id, code)  OBVIOUS
<1>6. PICK s : s = Front(p.states)  OBVIOUS
<1>7. /\ passenger' = Going(Front(p.frames), s, l, p.branches)
      /\ K(x) = "LoopHead" /\ id \in DOMAIN p.loops
  BY <1>1, <1>2, <1>3, <1>4, <1>5, <1>6, FootTold
<1>8. x \in Nodes /\ x \in Seen
  <2>1. Len(visits) \in 2 .. Len(visits) /\ Inmost = visits[Len(visits)]  BY AtCloser
  <2> QED  BY <1>2, <2>1, Inside
<1>9. /\ EntryOf(cfg, x, l, p.branches) = l[id] /\ EntryOf(cfg, x, p.loops, p.branches) = p.loops[id]
  BY <1>3, <1>7 DEF EntryOf, K, IdOf
<1>10. Shape(cfg, x, p.loops[id])
  <2>1. Kind(cfg, x) \in Openers  BY <1>7 DEF K, Openers
  <2> QED  BY <1>1, <1>8, <1>9, <2>1 DEF Contents, EntriesFull, EntryFull
<1>11. Kind(cfg, x) = "LoopHead"  BY <1>7 DEF K
<1>12. Shape(cfg, x, l[id]) /\ SideOf(l[id], "loop") = code
  <2>1. PICK d : d = p.loops[id]  OBVIOUS
  <2>2. l[id] = [d EXCEPT !.body = code]  BY <1>5, <1>7, <2>1 DEF Bodied
  <2>3. DOMAIN d = {"condition", "result", "body"}  BY <1>10, <1>11, <2>1 DEF Shape
  <2>4. /\ l[id].body = code /\ DOMAIN l[id] = DOMAIN d
        /\ l[id].condition = d.condition /\ l[id].result = d.result
    BY <2>2, <2>3
  <2> QED  BY <1>10, <2>1, <2>4 DEF Shape, SideOf
<1>13. ASSUME NEW m \in Seen, K(m) \in Openers, m # x
       PROVE  EntryOf(cfg, m, l, p.branches) = EntryOf(cfg, m, p.loops, p.branches)
  <2>1. m \in Nodes  BY SeenNodes
  <2>2. K(m) = "LoopHead" => IdOf(m) # id
    BY <1>3, <1>7, <1>8, <1>13, <2>1, OwnIds DEF Sound, Openers
  <2>3. K(m) = "LoopHead" => IdOf(m) \in DOMAIN p.loops
    <3>1. DOMAIN p.loops = Ids("LoopHead")  BY <1>1, Carries
    <3> QED  BY <3>1 DEF Ids
  <2> QED  BY <1>5, <2>2, <2>3 DEF EntryOf, K, IdOf, Bodied
<1>14. /\ \A m \in Seen : K(m) \in Openers /\ m # Inmost.at =>
            EntryOf(cfg, m, l, p.branches) = EntryOf(cfg, m, passenger.loops, passenger.branches)
       /\ Shape(cfg, Inmost.at, EntryOf(cfg, Inmost.at, l, p.branches))
       /\ SideOf(EntryOf(cfg, Inmost.at, l, p.branches), Inmost.path) = <<Last(passenger.frames)>>
       /\ passenger' = Going(Front(passenger.frames), s, l, p.branches)
  BY <1>1, <1>2, <1>4, <1>7, <1>9, <1>12, <1>13
<1>15. Inmost.path \in {"false", "loop"} /\ Inmost.path # "false"  OBVIOUS
<1> QED  BY <1>14, <1>15, LeaveFills

LEMMA MergeFills ==
  ASSUME Sound, Carried, visited # <<>>, Contents, K(Inmost.cur) \in Closers, Inmost.path = "false",
         UNCHANGED <<fn, cfg>>, NEW next \in Nodes,
         visits' = GoesOn(Front(visits), next), visited' = Append(visited, Inmost.cur),
         passenger' = Told(<<"branch_end_false_path", "branch_merge">>)
  PROVE  Contents'
<1>1. PICK p : p = passenger  OBVIOUS
<1>2. PICK x : x = Inmost.at  OBVIOUS
<1>3. PICK id : id = IdOf(x)  OBVIOUS
<1>4. PICK code : code = <<Last(p.frames)>>  OBVIOUS
<1>5. PICK b : b = Coded(p.branches, id, "false", code)  OBVIOUS
<1>6. PICK s : s = Front(p.states)  OBVIOUS
<1>7. /\ passenger' = Going(Front(p.frames), s, p.loops, b)
      /\ K(x) = "BranchSplit" /\ id \in DOMAIN p.branches
  BY <1>1, <1>2, <1>3, <1>4, <1>5, <1>6, MergeTold
<1>8. x \in Nodes /\ x \in Seen
  <2>1. Len(visits) \in 2 .. Len(visits) /\ Inmost = visits[Len(visits)]  BY AtCloser
  <2> QED  BY <1>2, <2>1, Inside
<1>9. /\ EntryOf(cfg, x, p.loops, b) = b[id] /\ EntryOf(cfg, x, p.loops, p.branches) = p.branches[id]
  BY <1>3, <1>7 DEF EntryOf, K, IdOf
<1>10. Shape(cfg, x, p.branches[id])
  <2>1. Kind(cfg, x) \in Openers  BY <1>7 DEF K, Openers
  <2> QED  BY <1>1, <1>8, <1>9, <2>1 DEF Contents, EntriesFull, EntryFull
<1>11. Kind(cfg, x) = "BranchSplit"  BY <1>7 DEF K
<1>12. /\ Shape(cfg, x, b[id]) /\ SideOf(b[id], "false") = code
       /\ SideOf(b[id], "true") = SideOf(p.branches[id], "true")
  <2>1. PICK d : d = p.branches[id]  OBVIOUS
  <2>2. b[id] = [d EXCEPT !["false"] = code]  BY <1>5, <1>7, <2>1 DEF Coded
  <2>3. DOMAIN d = {"condition", "result", "true", "false"}  BY <1>10, <1>11, <2>1 DEF Shape
  <2>4. /\ b[id]["false"] = code /\ b[id]["true"] = d["true"] /\ DOMAIN b[id] = DOMAIN d
        /\ b[id].condition = d.condition /\ b[id].result = d.result
    BY <2>2, <2>3
  <2> QED  BY <1>10, <2>1, <2>4 DEF Shape, SideOf
<1>13. ASSUME NEW m \in Seen, K(m) \in Openers, m # x
       PROVE  EntryOf(cfg, m, p.loops, b) = EntryOf(cfg, m, p.loops, p.branches)
  <2>1. m \in Nodes  BY SeenNodes
  <2>2. K(m) = "BranchSplit" => IdOf(m) # id
    BY <1>3, <1>7, <1>8, <1>13, <2>1, OwnIds DEF Sound, Openers
  <2>3. K(m) = "BranchSplit" => IdOf(m) \in DOMAIN p.branches
    <3>1. DOMAIN p.branches = Ids("BranchSplit")  BY <1>1, Carries
    <3> QED  BY <3>1 DEF Ids
  <2>4. K(m) # "LoopHead" => K(m) = "BranchSplit"  BY <1>13 DEF Openers
  <2> QED  BY <1>5, <2>2, <2>3, <2>4 DEF EntryOf, K, IdOf, Coded
<1>14. /\ \A m \in Seen : K(m) \in Openers /\ m # Inmost.at =>
            EntryOf(cfg, m, p.loops, b) = EntryOf(cfg, m, passenger.loops, passenger.branches)
       /\ Shape(cfg, Inmost.at, EntryOf(cfg, Inmost.at, p.loops, b))
       /\ SideOf(EntryOf(cfg, Inmost.at, p.loops, b), Inmost.path) = <<Last(passenger.frames)>>
       /\ SideOf(EntryOf(cfg, Inmost.at, p.loops, b), "true")
          = SideOf(EntryOf(cfg, Inmost.at, passenger.loops, passenger.branches), "true")
       /\ passenger' = Going(Front(passenger.frames), s, p.loops, b)
  BY <1>1, <1>2, <1>4, <1>7, <1>9, <1>12, <1>13
<1>15. Inmost.path \in {"false", "loop"}  OBVIOUS
<1> QED  BY <1>14, <1>15, LeaveFills

\* The frame of the function is begun.
LEMMA StartFills ==
  ASSUME Sound, Carried, Inmost.cur = StartNode, UNCHANGED <<fn, cfg>>, NEW next \in Nodes,
         visits' = GoesOn(visits, next), visited' = Append(visited, Inmost.cur),
         passenger' = Told(<<"start">>)
  PROVE  Contents'
<1>1. PICK p : p = passenger  OBVIOUS
<1>2. PICK s : s = Append(<<>>, <<"Start", NoId>>)  OBVIOUS
<1>3. PICK f : f = Append(<<>>, <<>>)  OBVIOUS
<1>4. passenger' = Going(f, s, p.loops, p.branches) /\ Seen = {} /\ Len(visits) = 1
  BY <1>1, <1>2, <1>3, StartTold
<1>5. Seen' = {StartNode}
  <2>1. Seen' = Seen \cup {Inmost.cur}  BY Added
  <2> QED  BY <1>4, <2>1
<1>6. Len(visits') = 1
  BY <1>4, GoesOnAlong
<1>7. Kind(cfg, StartNode) = "Start"  BY Places DEF Sound, K
<1>8. f[1] = <<>>
  <2>1. PICK e : e = <<>>  OBVIOUS
  <2>2. IsSeq(e) /\ Len(e) + 1 = 1  BY <2>1, EmptyFrame DEF FrameOf
  <2>3. Append(e, <<>>)[Len(e) + 1] = <<>>  BY <2>2, PushedAny
  <2> QED  BY <1>3, <2>1, <2>2, <2>3
<1>9. ASSUME NEW of, NEW path PROVE Full(cfg, Lay, {StartNode}, of, path, <<>>)
  <2>1. OpenersOn(cfg, Lay, {StartNode}, of, path) = {}  BY <1>7 DEF OpenersOn, Openers
  <2>2. MarksOn(cfg, Lay, {StartNode}, of, path) = {}  BY <2>1 DEF MarksOn
  <2>3. FrameOf(MarksOn(cfg, Lay, {StartNode}, of, path), <<>>)  BY <2>2, EmptyFrame
  <2> QED  BY <1>7, <2>3 DEF Full, Openers
<1>10. FramesFull(cfg, Lay, Seen', visits', f)
  <2>1. \A i \in 1 .. 1 : i = 1  OBVIOUS
  <2> QED  BY <1>5, <1>6, <1>8, <1>9, <2>1 DEF FramesFull
<1>11. EntriesFull(cfg, Lay, Seen', visits', p.loops, p.branches)
  BY <1>5, <1>7 DEF EntriesFull, Openers
<1> QED  BY <1>4, <1>10, <1>11, ContentsAre

\* All of the code is there when the end was visited.
LEMMA EndTold ==
  ASSUME NEW frames, frames # <<>>, NEW states, states # <<>>, NEW loops, NEW branches, NEW node,
         Last(states) = <<"Start", NoId>>
  PROVE  LET q == On("end", Going(frames, states, loops, branches), node) IN
         q.loops = loops /\ q.branches = branches /\ q.instructions = <<Last(frames)>>
BY DEF On, End, Require, InState, Going

LEMMA EndFills ==
  ASSUME Sound, Carried, visited # <<>>, Contents, K(Inmost.cur) = "End", UNCHANGED <<fn, cfg>>,
         visited' = Append(visited, Inmost.cur), passenger' = Told(<<"end">>)
  PROVE  AllFull'
<1>1. PICK f, s, l, b : /\ f = passenger.frames /\ s = passenger.states
                        /\ l = passenger.loops /\ b = passenger.branches
  OBVIOUS
<1>2. PICK x : x = Inmost.cur  OBVIOUS
<1>3. /\ \A i \in 1 .. Len(visits) : visits[i].path = "main"
      /\ \A n \in Nodes : n \in Seen \/ n = x
      /\ x \in Nodes /\ Seen \subseteq Nodes
  BY <1>2, AllButEnd, Fresh, SeenNodes
<1>4. Len(visits) = 1
  <2>1. Len(visits) \in Nat \ {0}  BY Innermost DEF Sound
  <2>2. Len(visits) > 1 => 2 \in 2 .. Len(visits) /\ 2 \in 1 .. Len(visits)  BY <2>1
  <2>3. Len(visits) > 1 => visits[2].path # "main"  BY <2>2, Inside
  <2>4. ~(Len(visits) > 1)  BY <1>3, <2>2, <2>3
  <2>5. ASSUME NEW n \in Nat \ {0}, ~(n > 1) PROVE n = 1  BY <2>5
  <2> QED  BY ONLY <2>1, <2>4, <2>5
<1>5. /\ passenger = Going(f, s, l, b) /\ passenger.outcome = "going" /\ f # <<>> /\ s # <<>>
      /\ Last(s) = <<"Start", NoId>> /\ IsSeq(f) /\ Len(f) = 1
      /\ DOMAIN l = Ids("LoopHead") /\ DOMAIN b = Ids("BranchSplit")
  BY <1>1, <1>4, Carries
<1>6. passenger'.loops = l /\ passenger'.branches = b /\ passenger'.instructions = <<f[1]>>
  <2>1. passenger' = On("end", Going(f, s, l, b), Node)  BY <1>5, ToldOne
  <2>2. Last(f) = f[1]  BY <1>5 DEF Last
  <2> QED  BY <1>5, <2>1, <2>2, EndTold
<1>7. Nodes = Seen \cup {x} /\ K(x) = "End"  BY <1>2, <1>3
<1>8. /\ Ids("LoopHead") = {IdOf(n) : n \in {m \in Nodes : K(m) = "LoopHead"}}
      /\ Ids("BranchSplit") = {IdOf(n) : n \in {m \in Nodes : K(m) = "BranchSplit"}}
  BY <1>7 DEF Ids
<1>9. /\ \A i \in 1 .. Len(visits) : ~LiesOn(Lay, x, visits[i].at, visits[i].path)
      /\ \A m, path : path # "end" => ~LiesOn(Lay, x, m, path)
  BY <1>2, OnNone DEF Closers
<1>10. Complete(cfg, Lay, Nodes, Nowhere, "main", <<f[1]>>)
  <2>1. visits[1].path = "main" /\ visits[1].at = Nowhere  BY DEF Sound, Standing
  <2>2. Full(cfg, Lay, Seen, Nowhere, "main", f[1])
    BY <1>1, <1>4, <2>1 DEF Contents, FramesFull
  <2>3. Full(cfg, Lay, Seen \cup {x}, Nowhere, "main", f[1])  BY <1>9, <2>2, FullSame
  <2> QED  BY <1>7, <2>3 DEF Complete
<1>11. EntriesFull(cfg, Lay, Nodes, <<>>, l, b)
  <2> SUFFICES ASSUME NEW m \in Seen, Kind(cfg, m) \in Openers
               PROVE  EntryFull(cfg, Lay, Seen \cup {x}, <<>>, m, EntryOf(cfg, m, l, b))
    BY <1>7 DEF EntriesFull, K, Openers
  <2>1. EntryFull(cfg, Lay, Seen, visits, m, EntryOf(cfg, m, l, b))
    BY <1>1 DEF Contents, EntriesFull
  <2>2. \A path : ~Walked(visits, m, path)  BY <1>4 DEF Walked
  <2>3. \A path \in Sides(cfg, m) : path # "end"  BY DEF Sides
  <2> QED  BY <1>9, <2>1, <2>2, <2>3, EntrySame
<1>12. /\ Lay' = Lay /\ Nodes' = Nodes /\ cfg' = cfg
       /\ \A n : IdOf(n)' = IdOf(n) /\ K(n)' = K(n)
  BY Same, SameNodes
<1> QED  BY <1>5, <1>6, <1>8, <1>10, <1>11, <1>12 DEF AllFull

-----------------------------------------------------------------------------
(* The steps. *)

LEMMA ProceedsOn ==
  ASSUME NEW events, NEW next, NEW loops, Proceed(events, next, loops), status = "visiting"
  PROVE  /\ passenger' = Told(events) /\ UNCHANGED <<fn, cfg>> /\ status' # "done"
         /\ status' = "visiting" => visits' = loops
BY DEF Proceed

\* The code of the current node.
LEMMA NodeStraight ==
  ASSUME Sound, cfg.err = "none"
  PROVE  /\ K(Inmost.cur) = "Block" => Straight(BlockCode(Node.stmts))
         /\ K(Inmost.cur) = "Return" =>
              Straight(ReturnCode(Node.stmt)) /\ Returning(ReturnCode(Node.stmt))
<1>1. /\ fn \in Sources /\ cfg = CfgOf(fn) /\ Inmost.cur \in DOMAIN cfg.nodes
      /\ Node = cfg.nodes[Inmost.cur] /\ Node.n = K(Inmost.cur)
  BY Innermost DEF Sound, Typed, Nodes, Node, Here, Inmost
<1> QED  BY <1>1, CodeStraight

LEMMA StartFillsStep ==
  ASSUME Sound, Carried, status = "visiting", VisitStart
  PROVE  status' # "done" /\ (status' = "visiting" => Contents')
<1> DEFINE next == Next(cfg, Inmost.cur)
<1>1. K(Inmost.cur) = "Start" /\ Inmost.cur \in Nodes  BY Innermost DEF VisitStart, At, Node, Sound, Here, Inmost
<1>2. Inmost.cur = StartNode  BY <1>1, Places DEF Sound
<1>3. Comes(cfg, Lay, next, Lay[Inmost.cur].of, Lay[Inmost.cur].path, Lay[Inmost.cur].at)
  BY <1>1 DEF Sound, NestedBy, Followed, Passed, Behind, Nodes, K
<1>4. next \in Nodes  BY <1>3, ComesInside DEF Sound
<1> HIDE DEF next
<1>5. Proceed(<<"start">>, next, GoesOn(visits, next)) /\ visited' = Append(visited, Inmost.cur)
  BY DEF VisitStart, Pass, next, Here, Inmost
<1> QED  BY <1>2, <1>4, <1>5, ProceedsOn, StartFills

LEMMA PassFillsStep ==
  ASSUME Sound, Carried, Contents, visited # <<>>, cfg.err = "none", status = "visiting",
         NEW event \in {"enter_scope", "exit_scope", "block", "ret"}, NEW next,
         event = "block" <=> K(Inmost.cur) = "Block", event = "ret" <=> K(Inmost.cur) = "Return",
         K(Inmost.cur) \in Passed, Pass(<<event>>, next),
         Comes(cfg, Lay, next, Lay[Inmost.cur].of, Lay[Inmost.cur].path, Lay[Inmost.cur].at)
  PROVE  status' # "done" /\ (status' = "visiting" => Contents')
<1>1. K(Inmost.cur) \notin Closers /\ K(Inmost.cur) \notin Openers /\ next \in Nodes
  BY ComesInside DEF Passed, Closers, Openers, Sound
<1>2. Proceed(<<event>>, next, GoesOn(visits, next)) /\ visited' = Append(visited, Inmost.cur)
  BY DEF Pass, Here, Inmost
<1>3. /\ UNCHANGED <<fn, cfg>> /\ passenger' = Told(<<event>>) /\ status' # "done"
      /\ status' = "visiting" => visits' = GoesOn(visits, next)
  BY <1>2, ProceedsOn
<1>4. PICK f, s, l, b : /\ f = passenger.frames /\ s = passenger.states
                        /\ l = passenger.loops /\ b = passenger.branches
  OBVIOUS
<1>5. PICK n : n = Len(visits)  OBVIOUS
<1>6. /\ passenger = Going(f, s, l, b) /\ passenger.outcome = "going" /\ f # <<>> /\ IsSeq(f)
      /\ Len(f) = n /\ n \in Nat \ {0}
  BY <1>4, <1>5, Carries
<1>7. passenger' = On(event, Going(f, s, l, b), Node)  BY <1>3, <1>6, ToldOne
<1>8. SUFFICES ASSUME status' = "visiting"
               PROVE  \E more, frames :
                        /\ Straight(more) /\ (K(Inmost.cur) = "Return" => Returning(more))
                        /\ frames[n] = f[n] \o more
                        /\ \A i \in 1 .. n - 1 : frames[i] = f[i]
                        /\ passenger' = Going(frames, s, l, b)
  <2> SUFFICES ASSUME status' = "visiting" PROVE Contents'  BY <1>3
  <2>1. PICK more, frames :
          /\ Straight(more) /\ (K(Inmost.cur) = "Return" => Returning(more))
          /\ frames[n] = f[n] \o more
          /\ \A i \in 1 .. n - 1 : frames[i] = f[i]
          /\ passenger' = Going(frames, s, l, b)
    BY <1>8
  <2>2. /\ frames[Len(visits)] = passenger.frames[Len(visits)] \o more
        /\ \A i \in 1 .. Len(visits) - 1 : frames[i] = passenger.frames[i]
        /\ passenger' = Going(frames, passenger.states, passenger.loops, passenger.branches)
    BY <1>4, <1>5, <2>1
  <2>3. UNCHANGED <<fn, cfg>> /\ visits' = GoesOn(visits, next)  BY <1>3
  <2> QED  BY <1>1, <1>2, <2>1, <2>2, <2>3, PassFills
<1>9. ASSUME NEW more, Straight(more), K(Inmost.cur) = "Return" => Returning(more),
             On(event, Going(f, s, l, b), Node) = Emit(Going(f, s, l, b), more)
      PROVE  \E code, frames :
               /\ Straight(code) /\ (K(Inmost.cur) = "Return" => Returning(code))
               /\ frames[n] = f[n] \o code
               /\ \A i \in 1 .. n - 1 : frames[i] = f[i]
               /\ passenger' = Going(frames, s, l, b)
  <2>1. PICK frames : frames = Extended(f, more)  OBVIOUS
  <2>2. passenger' = Going(frames, s, l, b)  BY <1>6, <1>7, <1>9, <2>1, Emits
  <2>3. frames[n] = f[n] \o more /\ \A i \in 1 .. n - 1 : frames[i] = f[i]
    BY <1>6, <2>1, ExtendedAt
  <2> QED  BY <1>9, <2>2, <2>3
<1>10. CASE event = "block"
  <2>1. On(event, Going(f, s, l, b), Node) = Emit(Going(f, s, l, b), BlockCode(Node.stmts))
    BY <1>10 DEF On
  <2>2. Straight(BlockCode(Node.stmts)) /\ K(Inmost.cur) # "Return"  BY <1>10, NodeStraight
  <2> QED  BY <1>9, <2>1, <2>2
<1>11. CASE event = "ret"
  <2>1. On(event, Going(f, s, l, b), Node) = Emit(Going(f, s, l, b), ReturnCode(Node.stmt))
    BY <1>11 DEF On
  <2>2. Straight(ReturnCode(Node.stmt)) /\ Returning(ReturnCode(Node.stmt))
    BY <1>11, NodeStraight
  <2> QED  BY <1>9, <2>1, <2>2
<1>12. CASE event \in {"enter_scope", "exit_scope"}
  <2>1. passenger' = Going(f, s, l, b)  BY <1>7, <1>12 DEF On
  <2>2. IsSeq(f[n])
    <3>1. n \in 1 .. n  BY <1>6
    <3>2. Full(cfg, Lay, Seen, visits[n].at, visits[n].path, f[n])
      BY <1>4, <1>5, <3>1 DEF Contents, FramesFull
    <3> QED  BY <3>2 DEF Full, FrameOf
  <2>3. PICK e : e = <<>>  OBVIOUS
  <2>4. f[n] = f[n] \o e /\ Straight(e)  BY <2>2, <2>3, ConcatEmpty, EmptyFrame DEF Straight
  <2>5. K(Inmost.cur) # "Return"  BY <1>12
  <2> QED  BY <2>1, <2>4, <2>5
<1> QED  BY <1>10, <1>11, <1>12

LEMMA HeadFillsStep ==
  ASSUME Sound, Carried, Contents, visited # <<>>, status = "visiting", VisitHead
  PROVE  status' # "done" /\ (status' = "visiting" => Contents')
<1> DEFINE next == After(cfg, Inmost.cur, "True")
<1>1. /\ K(Inmost.cur) = "LoopHead" /\ Inmost.cur \in Nodes
      /\ Proceed(<<"loop_head", "loop_start_true_path">>, next,
                 Append(visits, Visit("loop", Inmost.cur, next)))
      /\ visited' = Append(visited, Inmost.cur)
  BY Innermost DEF VisitHead, Descend, At, Node, Sound, Here, Inmost
<1>2. Comes(cfg, Lay, next, Inmost.cur, "loop", 0)
  BY <1>1 DEF Sound, NestedBy, Followed, Nodes, K
<1>3. next \in Nodes  BY <1>2, ComesInside DEF Sound
<1> HIDE DEF next
<1>4. /\ UNCHANGED <<fn, cfg>> /\ passenger' = Told(<<"loop_head", "loop_start_true_path">>)
      /\ status' # "done"
      /\ status' = "visiting" => visits' = Append(visits, Visit("loop", Inmost.cur, next))
  BY <1>1, ProceedsOn
<1> QED  BY <1>1, <1>3, <1>4, HeadFills

LEMMA SplitFillsStep ==
  ASSUME Sound, Carried, Contents, visited # <<>>, status = "visiting", VisitSplit
  PROVE  status' # "done" /\ (status' = "visiting" => Contents')
<1> DEFINE next == After(cfg, Inmost.cur, "True")
<1>1. /\ K(Inmost.cur) = "BranchSplit" /\ Inmost.cur \in Nodes
      /\ Proceed(<<"branch_split", "branch_start_true_path">>, next,
                 Append(visits, Visit("true", Inmost.cur, next)))
      /\ visited' = Append(visited, Inmost.cur)
  BY Innermost DEF VisitSplit, Descend, At, Node, Sound, Here, Inmost
<1>2. Comes(cfg, Lay, next, Inmost.cur, "true", 0)
  BY <1>1 DEF Sound, NestedBy, Followed, Nodes, K
<1>3. next \in Nodes  BY <1>2, ComesInside DEF Sound
<1> HIDE DEF next
<1>4. /\ UNCHANGED <<fn, cfg>> /\ passenger' = Told(<<"branch_split", "branch_start_true_path">>)
      /\ status' # "done"
      /\ status' = "visiting" => visits' = Append(visits, Visit("true", Inmost.cur, next))
  BY <1>1, ProceedsOn
<1> QED  BY <1>1, <1>3, <1>4, SplitFills

LEMMA TurnFillsStep ==
  ASSUME Sound, Carried, Contents, visited # <<>>, status = "visiting", EndTruePath
  PROVE  status' # "done" /\ (status' = "visiting" => Contents')
<1> DEFINE next == After(cfg, Inmost.at, "False")
<1>1. /\ K(Inmost.cur) = "BranchMerge" /\ Inmost.path = "true"
      /\ Proceed(<<"branch_end_true_path", "branch_start_false_path">>, next,
                 Append(Front(visits), Visit("false", Inmost.at, next)))
      /\ UNCHANGED visited
  BY Innermost DEF EndTruePath, At, Node, Sound, Here, Inmost
<1>2. K(Inmost.cur) \in Closers  BY <1>1 DEF Closers
<1>3. /\ Inmost.at \in Nodes /\ K(Inmost.at) = "BranchSplit"
      /\ Len(visits) \in 2 .. Len(visits) /\ Inmost = visits[Len(visits)]
  BY <1>1, <1>2, AtCloser, Inside
<1>4. Comes(cfg, Lay, next, Inmost.at, "false", 0)
  BY <1>3 DEF Sound, NestedBy, Followed, Nodes, K
<1>5. next \in Nodes  BY <1>4, ComesInside DEF Sound
<1> HIDE DEF next
<1>6. /\ UNCHANGED <<fn, cfg, visited>>
      /\ passenger' = Told(<<"branch_end_true_path", "branch_start_false_path">>)
      /\ status' # "done"
      /\ status' = "visiting" =>
           visits' = Append(Front(visits), Visit("false", Inmost.at, next))
  BY <1>1, ProceedsOn
<1> QED  BY <1>1, <1>2, <1>5, <1>6, TurnFills

LEMMA MergeFillsStep ==
  ASSUME Sound, Carried, Contents, visited # <<>>, status = "visiting", EndFalsePath
  PROVE  status' # "done" /\ (status' = "visiting" => Contents')
<1> DEFINE next == Next(cfg, Inmost.cur)
<1>1. /\ K(Inmost.cur) = "BranchMerge" /\ Inmost.path # "true" /\ Inmost.cur \in Nodes
      /\ Leave("false", <<"branch_end_false_path", "branch_merge">>, next)
  BY Innermost DEF EndFalsePath, At, Node, Sound, Here, Inmost
<1>2. K(Inmost.cur) \in Closers  BY <1>1 DEF Closers
<1>3. Inmost.path # "main" /\ Lay[Inmost.cur].of = Inmost.at  BY <1>1, <1>2, OnItsPath
<1>4. Inmost.path = "false"  BY <1>1, <1>2, <1>3, AtCloser
<1>5. Comes(cfg, Lay, next, Lay[Inmost.at].of, Lay[Inmost.at].path, Lay[Inmost.at].at)
  BY <1>1, <1>3 DEF Sound, NestedBy, Followed, Nodes, K
<1>6. next \in Nodes  BY <1>5, ComesInside DEF Sound
<1> HIDE DEF next
<1>7. /\ Proceed(<<"branch_end_false_path", "branch_merge">>, next, GoesOn(Front(visits), next))
      /\ visited' = Append(visited, Inmost.cur)
  BY <1>1, <1>4 DEF Leave, Here, Inmost
<1> QED  BY <1>2, <1>4, <1>6, <1>7, ProceedsOn, MergeFills

LEMMA FootFillsStep ==
  ASSUME Sound, Carried, Contents, visited # <<>>, status = "visiting", EndLoop
  PROVE  status' # "done" /\ (status' = "visiting" => Contents')
<1> DEFINE next == AfterLoopFoot(cfg, After(cfg, Inmost.at, "False"))
<1>1. K(Inmost.cur) = "LoopFoot"  BY Innermost DEF EndLoop, At, Node, Sound, Here, Inmost
<1>2. K(Inmost.cur) \in Closers  BY <1>1 DEF Closers
<1>3. Inmost.path # "main"  BY <1>1, <1>2, OnItsPath
<1>4. Inmost.path = "loop" /\ Inmost.at \in Nodes  BY <1>1, <1>2, <1>3, AtCloser
<1>5. K(Inmost.at) = "LoopHead"
  <2>1. Len(visits) \in 2 .. Len(visits) /\ Inmost = visits[Len(visits)]  BY <1>2, <1>3, AtCloser
  <2> QED  BY <1>4, <2>1, Inside
<1>6. Comes(cfg, Lay, next, Lay[Inmost.at].of, Lay[Inmost.at].path, Lay[Inmost.at].at)
  BY <1>4, <1>5 DEF Sound, NestedBy, Followed, Nodes, K
<1>7. next \in Nodes  BY <1>6, ComesInside DEF Sound
<1>8. Leave("loop", <<"loop_end_true_path", "loop_foot">>, next)  BY <1>4 DEF EndLoop, Here, Inmost
<1> HIDE DEF next
<1>9. /\ Proceed(<<"loop_end_true_path", "loop_foot">>, next, GoesOn(Front(visits), next))
      /\ visited' = Append(visited, Inmost.cur)
  BY <1>4, <1>8 DEF Leave, Here, Inmost
<1> QED  BY <1>2, <1>4, <1>7, <1>9, ProceedsOn, FootFills

LEMMA StepFills ==
  ASSUME IInv, CInv, Step
  PROVE  CInv'
<1>1. status = "visiting" /\ Sound /\ Carried /\ cfg.err = "none"
  <2>1. status = "visiting"
    BY DEF Step, VisitStart, VisitScope, VisitBlock, VisitReturn, VisitContinue, VisitBreak,
           VisitSplit, VisitHead, EndTruePath, EndFalsePath, EndLoop, VisitEnd, At
  <2> QED  BY <2>1 DEF IInv, CInv
<1>2. cfg' = cfg
  BY DEF Step, VisitStart, VisitScope, VisitBlock, VisitReturn, VisitContinue, VisitBreak,
         VisitSplit, VisitHead, EndTruePath, EndFalsePath, EndLoop, VisitEnd, Pass, Descend,
         Leave, Proceed
<1>3. SUFFICES ASSUME NoJumps(cfg)
               PROVE  /\ status' = "visiting" => Contents'
                      /\ status' = "done" => AllFull'
  BY <1>1, <1>2 DEF CInv
<1>4. /\ Node.n = K(Inmost.cur) /\ Inmost.cur \in Nodes
  BY <1>1, Innermost DEF Sound, Node, Here, Inmost
<1>5. K(Inmost.cur) \notin {"Continue", "Break"}  BY <1>3, <1>4 DEF NoJumps, K, Nodes
<1>6. K(Inmost.cur) # "Start" => visited # <<>> /\ Contents
  BY <1>1, <1>3, NotFirst DEF CInv
<1>7. K(Inmost.cur) \in Passed =>
        Comes(cfg, Lay, Behind(cfg, Inmost.cur), Lay[Inmost.cur].of, Lay[Inmost.cur].path, Lay[Inmost.cur].at)
  BY <1>1, <1>4 DEF Sound, NestedBy, Followed, Nodes, K
<1>8. CASE VisitStart  BY <1>1, <1>8, StartFillsStep
<1>9. CASE VisitScope
  <2>1. CASE K(Inmost.cur) = "EnterScope" /\ Pass(<<"enter_scope">>, Next(cfg, Inmost.cur))
    <3>1. Behind(cfg, Inmost.cur) = Next(cfg, Inmost.cur) /\ K(Inmost.cur) \in Passed
      BY <2>1 DEF Behind, K, Passed
    <3> QED  BY <1>1, <1>6, <1>7, <2>1, <3>1, PassFillsStep
  <2>2. CASE K(Inmost.cur) = "ExitScope" /\ Pass(<<"exit_scope">>, Next(cfg, Inmost.cur))
    <3>1. Behind(cfg, Inmost.cur) = Next(cfg, Inmost.cur) /\ K(Inmost.cur) \in Passed
      BY <2>2 DEF Behind, K, Passed
    <3> QED  BY <1>1, <1>6, <1>7, <2>2, <3>1, PassFillsStep
  <2> QED  BY <1>4, <1>9, <2>1, <2>2 DEF VisitScope, At, Here, Inmost
<1>10. CASE VisitBlock
  <2>1. K(Inmost.cur) = "Block" /\ Pass(<<"block">>, Next(cfg, Inmost.cur))
    BY <1>4, <1>10 DEF VisitBlock, At, Here, Inmost
  <2>2. Behind(cfg, Inmost.cur) = Next(cfg, Inmost.cur) /\ K(Inmost.cur) \in Passed
    BY <2>1 DEF Behind, K, Passed
  <2> QED  BY <1>1, <1>6, <1>7, <2>1, <2>2, PassFillsStep
<1>11. CASE VisitReturn
  <2>1. K(Inmost.cur) = "Return" /\ Pass(<<"ret">>, AfterJump(cfg, Inmost.cur, "End"))
    BY <1>4, <1>11 DEF VisitReturn, At, Here, Inmost
  <2>2. Behind(cfg, Inmost.cur) = AfterJump(cfg, Inmost.cur, "End") /\ K(Inmost.cur) \in Passed
    BY <2>1 DEF Behind, K, Passed
  <2> QED  BY <1>1, <1>6, <1>7, <2>1, <2>2, PassFillsStep
<1>12. CASE VisitContinue \/ VisitBreak  BY <1>4, <1>5, <1>12 DEF VisitContinue, VisitBreak, At
<1>13. CASE VisitSplit
  <2>1. K(Inmost.cur) # "Start"  BY <1>4, <1>13 DEF VisitSplit, At
  <2> QED  BY <1>1, <1>6, <1>13, <2>1, SplitFillsStep
<1>14. CASE VisitHead
  <2>1. K(Inmost.cur) # "Start"  BY <1>4, <1>14 DEF VisitHead, At
  <2> QED  BY <1>1, <1>6, <1>14, <2>1, HeadFillsStep
<1>15. CASE EndTruePath
  <2>1. K(Inmost.cur) # "Start"  BY <1>4, <1>15 DEF EndTruePath, At
  <2> QED  BY <1>1, <1>6, <1>15, <2>1, TurnFillsStep
<1>16. CASE EndFalsePath
  <2>1. K(Inmost.cur) # "Start"  BY <1>4, <1>16 DEF EndFalsePath, At
  <2> QED  BY <1>1, <1>6, <1>16, <2>1, MergeFillsStep
<1>17. CASE EndLoop
  <2>1. K(Inmost.cur) # "Start"  BY <1>4, <1>17 DEF EndLoop, At
  <2> QED  BY <1>1, <1>6, <1>17, <2>1, FootFillsStep
<1>18. CASE VisitEnd
  <2>1. /\ K(Inmost.cur) = "End" /\ passenger' = Told(<<"end">>)
        /\ visited' = Append(visited, Inmost.cur) /\ UNCHANGED <<fn, cfg>> /\ status' # "visiting"
    BY <1>4, <1>18 DEF VisitEnd, At, Here, Inmost
  <2> QED  BY <1>1, <1>6, <2>1, EndFills
<1> QED
  BY <1>8, <1>9, <1>10, <1>11, <1>12, <1>13, <1>14, <1>15, <1>16, <1>17, <1>18 DEF Step

LEMMA StillFull ==
  ASSUME CInv, UNCHANGED vars
  PROVE  CInv'
<1>1. /\ UNCHANGED <<fn, cfg>>
      /\ visits' = visits /\ passenger' = passenger /\ visited' = visited /\ status' = status
  BY DEF vars
<1>2. /\ Lay' = Lay /\ Nodes' = Nodes /\ cfg' = cfg
      /\ \A n : IdOf(n)' = IdOf(n) /\ K(n)' = K(n)
  BY <1>1, Same, SameNodes
<1>3. Seen' = Seen  BY <1>1 DEF Seen
<1>4. Contents' <=> Contents  BY <1>1, <1>2, <1>3 DEF Contents
<1>5. AllFull' <=> AllFull  BY <1>1, <1>2 DEF AllFull
<1> QED  BY <1>1, <1>2, <1>4, <1>5 DEF CInv

LEMMA Fills == Spec => [](IInv /\ CInv)
<1>1. Init => IInv /\ CInv
  <2> SUFFICES ASSUME Init PROVE CInv  BY AtFirst
  <2> QED  BY DEF Init, CInv
<1>2. IInv /\ CInv /\ [Walk]_vars => (IInv /\ CInv)'
  BY StepKeeps, StillHolds, StepFills, StillFull DEF Walk, Stopped
<1> QED  BY <1>1, <1>2, PTL DEF Spec

-----------------------------------------------------------------------------
(* What the first pass hands on. *)

Heads == {n \in Nodes : K(n) \in Openers}
Parted == Gathered(passenger)

\* A function that was traversed to its end.
Through ==
  fn \in Sources /\ cfg = CfgOf(fn) /\ cfg.err = "none" /\ NoJumps(cfg) /\ AllFull

LEMMA ThroughGraph ==
  ASSUME Through
  PROVE  NestedBy(cfg, Lay) /\ Traceable(cfg)
BY GraphsNested, GraphsTraceable DEF Through, Lay

\* The mark of a split or head names it.
LEMMA HeadMark ==
  ASSUME Through, NEW n \in Heads
  PROVE  /\ IsMark(MarkOf(cfg, n)) /\ MarkOf(cfg, n).id = IdOf(n)
         /\ MarkOf(cfg, n).p = "Loop" <=> K(n) = "LoopHead"
         /\ MarkOf(cfg, n) = Mark(IF K(n) = "LoopHead" THEN "Loop" ELSE "Branch", IdOf(n))
         /\ OpenerOf(MarkOf(cfg, n)) = n
<1>1. PICK m : m = MarkOf(cfg, n)  OBVIOUS
<1>2. /\ m.id = IdOf(n) /\ IsMark(m) /\ (m.p = "Loop" <=> K(n) = "LoopHead")
      /\ m = Mark(IF K(n) = "LoopHead" THEN "Loop" ELSE "Branch", IdOf(n))
  BY <1>1 DEF MarkOf, Mark, IsMark, IdOf, K
<1>3. n \in Nodes /\ K(n) \in {"BranchSplit", "LoopHead"}  BY DEF Heads, Openers
<1> DEFINE Named(x) == K(x) = (IF m.p = "Loop" THEN "LoopHead" ELSE "BranchSplit") /\ IdOf(x) = m.id
<1>4. Named(n)  BY <1>2, <1>3
<1>5. ASSUME NEW x \in Nodes, Named(x) PROVE x = n
  BY <1>2, <1>3, <1>4, <1>5, OwnIds, ThroughGraph DEF Openers
<1>6. OpenerOf(m) = CHOOSE x \in Nodes : Named(x)  BY DEF OpenerOf, Nodes, K, IdOf
<1> HIDE DEF Named
<1>7. OpenerOf(m) = n  BY <1>3, <1>4, <1>5, <1>6
<1> QED  BY <1>1, <1>2, <1>7

LEMMA PartedMarks ==
  ASSUME Through
  PROVE  Marks(Parted) = {MarkOf(cfg, n) : n \in Heads}
<1>1. /\ DOMAIN Parted.loops = {IdOf(n) : n \in {m \in Nodes : K(m) = "LoopHead"}}
      /\ DOMAIN Parted.branches = {IdOf(n) : n \in {m \in Nodes : K(m) = "BranchSplit"}}
  BY DEF Parted, Gathered, Through, AllFull
<1>2. ASSUME NEW m \in Marks(Parted) PROVE m \in {MarkOf(cfg, n) : n \in Heads}
  <2>1. CASE \E id \in DOMAIN Parted.loops : m = Mark("Loop", id)
    <3>1. PICK n \in Nodes : K(n) = "LoopHead" /\ m = Mark("Loop", IdOf(n))  BY <1>1, <2>1
    <3>2. n \in Heads  BY <3>1 DEF Heads, Openers
    <3> QED  BY <3>1, <3>2, HeadMark
  <2>2. CASE \E id \in DOMAIN Parted.branches : m = Mark("Branch", id)
    <3>1. PICK n \in Nodes : K(n) = "BranchSplit" /\ m = Mark("Branch", IdOf(n))  BY <1>1, <2>2
    <3>2. n \in Heads /\ K(n) # "LoopHead"  BY <3>1 DEF Heads, Openers
    <3> QED  BY <3>1, <3>2, HeadMark
  <2> QED  BY <2>1, <2>2 DEF Marks
<1>3. ASSUME NEW n \in Heads PROVE MarkOf(cfg, n) \in Marks(Parted)
  <2>1. n \in Nodes /\ K(n) \in {"BranchSplit", "LoopHead"}  BY DEF Heads, Openers
  <2>2. CASE K(n) = "LoopHead"
    <3>1. IdOf(n) \in DOMAIN Parted.loops  BY <1>1, <2>1, <2>2
    <3>2. MarkOf(cfg, n) = Mark("Loop", IdOf(n))  BY <2>2, HeadMark
    <3> QED  BY <3>1, <3>2 DEF Marks
  <2>3. CASE K(n) = "BranchSplit"
    <3>1. IdOf(n) \in DOMAIN Parted.branches  BY <1>1, <2>1, <2>3
    <3>2. MarkOf(cfg, n) = Mark("Branch", IdOf(n))  BY <2>3, HeadMark
    <3> QED  BY <3>1, <3>2 DEF Marks
  <2> QED  BY <2>1, <2>2, <2>3
<1> QED  BY <1>2, <1>3

\* The frames of a loop or a branch are complete.
LEMMA PartedLoop ==
  ASSUME Through, NEW n \in Heads, K(n) = "LoopHead"
  PROVE  /\ Parted.loops[IdOf(n)].condition = CondCode(cfg.nodes[n].cond)
         /\ Full(cfg, Lay, Nodes, n, "loop", Parted.loops[IdOf(n)].body)
<1>1. PICK e : e = passenger.loops[IdOf(n)]  OBVIOUS
<1>2. n \in Nodes  BY DEF Heads
<1>3. IdOf(n) \in DOMAIN passenger.loops  BY <1>2 DEF Through, AllFull
<1>4. Parted.loops[IdOf(n)] = [e EXCEPT !.body = e.body[1]]
  BY <1>1, <1>3 DEF Parted, Gathered
<1>5. EntryFull(cfg, Lay, Nodes, <<>>, n, e)
  BY <1>1, <1>2 DEF Through, AllFull, EntriesFull, EntryOf, K, Openers, IdOf
<1>6. "body" \in DOMAIN e /\ e.condition = CondCode(cfg.nodes[n].cond)
  BY <1>5 DEF EntryFull, Shape, K
<1>7. ~Walked(<<>>, n, "loop")
  <2>1. Len(<<>>) = 0 /\ 2 .. 0 = {}  OBVIOUS
  <2> QED  BY <2>1 DEF Walked
<1>8. Complete(cfg, Lay, Nodes, n, "loop", e.body)  BY <1>5, <1>7 DEF EntryFull, Sides, SideOf, K
<1>9. Parted.loops[IdOf(n)].body = e.body[1] /\ Parted.loops[IdOf(n)].condition = e.condition
  BY <1>4, <1>6
<1> QED  BY <1>6, <1>8, <1>9 DEF Complete

LEMMA PartedBranch ==
  ASSUME Through, NEW n \in Heads, K(n) = "BranchSplit"
  PROVE  /\ Parted.branches[IdOf(n)].condition = CondCode(cfg.nodes[n].cond)
         /\ Full(cfg, Lay, Nodes, n, "true", Parted.branches[IdOf(n)].true)
         /\ Full(cfg, Lay, Nodes, n, "false", Parted.branches[IdOf(n)].false)
<1>1. PICK e : e = passenger.branches[IdOf(n)]  OBVIOUS
<1>2. n \in Nodes  BY DEF Heads
<1>3. IdOf(n) \in DOMAIN passenger.branches  BY <1>2 DEF Through, AllFull
<1>4. Parted.branches[IdOf(n)] = [e EXCEPT !.true = e.true[1], !.false = e.false[1]]
  BY <1>1, <1>3 DEF Parted, Gathered
<1>5. EntryFull(cfg, Lay, Nodes, <<>>, n, e)
  BY <1>1, <1>2 DEF Through, AllFull, EntriesFull, EntryOf, K, Openers, IdOf
<1>6. {"true", "false"} \subseteq DOMAIN e /\ e.condition = CondCode(cfg.nodes[n].cond)
  BY <1>5 DEF EntryFull, Shape, K
<1>7. ~Walked(<<>>, n, "true") /\ ~Walked(<<>>, n, "false")
  <2>1. Len(<<>>) = 0 /\ 2 .. 0 = {}  OBVIOUS
  <2> QED  BY <2>1 DEF Walked
<1>8. Complete(cfg, Lay, Nodes, n, "true", e.true) /\ Complete(cfg, Lay, Nodes, n, "false", e.false)
  BY <1>5, <1>7 DEF EntryFull, Sides, SideOf, K
<1>9. /\ Parted.branches[IdOf(n)].true = e.true[1] /\ Parted.branches[IdOf(n)].false = e.false[1]
      /\ Parted.branches[IdOf(n)].condition = e.condition
  BY <1>4, <1>6
<1> QED  BY <1>6, <1>8, <1>9 DEF Complete

LEMMA PartedFrames ==
  ASSUME Through, NEW n \in Heads, NEW parts \in FramesOf(Parted, MarkOf(cfg, n))
  PROVE  \/ Straight(parts)
         \/ \E path : Full(cfg, Lay, Nodes, n, path, parts)
<1>1. n \in DOMAIN cfg.nodes /\ K(n) \in {"BranchSplit", "LoopHead"}
  BY DEF Heads, Openers, Nodes
<1>2. Straight(CondCode(cfg.nodes[n].cond))  BY <1>1, CodeStraight DEF Through, K, Kind
<1>3. CASE K(n) = "LoopHead"
  <2>1. parts \in {Parted.loops[IdOf(n)].condition, Parted.loops[IdOf(n)].body}
    BY <1>3, HeadMark DEF FramesOf
  <2> QED  BY <1>2, <1>3, <2>1, PartedLoop
<1>4. CASE K(n) = "BranchSplit"
  <2>1. parts \in {Parted.branches[IdOf(n)].condition, Parted.branches[IdOf(n)].true,
                   Parted.branches[IdOf(n)].false}
    BY <1>4, HeadMark DEF FramesOf
  <2> QED  BY <1>2, <1>4, <2>1, PartedBranch
<1> QED  BY <1>1, <1>3, <1>4

\* The marks of a path's frame are those of the splits and heads on it.
LEMMA FullParts ==
  ASSUME Through, NEW of, NEW path, NEW parts, Full(cfg, Lay, Nodes, of, path, parts)
  PROVE  /\ IsFrame(Parted, parts)
         /\ \A i \in DOMAIN parts : IsMark(parts[i]) =>
              \E k \in Heads : LiesOn(Lay, k, of, path) /\ parts[i] = MarkOf(cfg, k)
<1> DEFINE A == MarksOn(cfg, Lay, Nodes, of, path)
<1>1. FrameOf(A, parts)  BY DEF Full
<1>2. \A m \in A : \E k \in Heads : LiesOn(Lay, k, of, path) /\ m = MarkOf(cfg, k)
  BY DEF MarksOn, OpenersOn, Heads, K
<1>3. A \subseteq Marks(Parted)  BY <1>2, PartedMarks
<1> HIDE DEF A
<1>4. IsFrame(Parted, parts)  BY <1>1, <1>3, MoreMarks DEF IsFrame
<1>5. \A i \in DOMAIN parts : IsMark(parts[i]) => parts[i] \in A
  BY <1>1 DEF FrameOf, IsMark
<1> QED  BY <1>2, <1>4, <1>5

-----------------------------------------------------------------------------
(* The frames are nested. *)

\* What lies deeper than a node lies deeper than what is less deep.
LEMMA Deeper ==
  ASSUME NEW M, IsFiniteSet(M), NEW d, \A m \in M : d[m] \in Nat
  PROVE  LET height == [m \in M |-> Cardinality({k \in M : d[k] > d[m]})] IN
         /\ height \in [M -> 0 .. Cardinality(M)]
         /\ \A k, m \in M : d[k] > d[m] => height[k] < height[m]
<1> DEFINE Below(m) == {k \in M : d[k] > d[m]}
<1>1. \A m \in M : /\ IsFiniteSet(Below(m)) /\ Cardinality(Below(m)) \in Nat
                   /\ Cardinality(Below(m)) <= Cardinality(M)
  <2> TAKE m \in M
  <2>1. Below(m) \in SUBSET M  OBVIOUS
  <2> HIDE DEF Below
  <2> QED  BY <2>1, FS_Subset, FS_CardinalityType
<1>2. Cardinality(M) \in Nat  BY FS_CardinalityType
<1>3. \A m \in M : Cardinality(Below(m)) \in 0 .. Cardinality(M)  BY <1>1, <1>2
<1>4. ASSUME NEW k \in M, NEW m \in M, d[k] > d[m]
      PROVE  Cardinality(Below(k)) < Cardinality(Below(m))
  <2>1. Below(k) \in SUBSET Below(m)
    <3>1. \A x \in M : d[x] > d[k] => d[x] > d[m]  BY <1>4
    <3> QED  BY <3>1
  <2>2. k \in Below(m) /\ k \notin Below(k)  BY <1>4
  <2>3. Below(k) # Below(m)  BY <2>2
  <2> HIDE DEF Below
  <2>4. /\ Cardinality(Below(k)) <= Cardinality(Below(m))
        /\ Cardinality(Below(k)) # Cardinality(Below(m))
    BY <1>1, <2>1, <2>3, FS_Subset
  <2> QED  BY <1>1, <2>4
<1> QED  BY <1>3, <1>4

LEMMA FramesNested ==
  ASSUME Through
  PROVE  FramedBy(Parted, Height(Parted))
<1> DEFINE M == Marks(Parted)
           d == [m \in M |-> Lay[OpenerOf(m)].depth]
<1>1. M = {MarkOf(cfg, n) : n \in Heads}  BY PartedMarks
<1>2. IsFiniteSet(M)
  <2>1. IsFiniteSet(Heads)
    <3>1. IsFiniteSet(Nodes)  BY ThroughGraph, Finite DEF Nodes
    <3>2. Heads \in SUBSET Nodes  BY DEF Heads
    <3> QED  BY <3>1, <3>2, FS_Subset
  <2>2. [n \in Heads |-> MarkOf(cfg, n)] \in Surjection(Heads, M)  BY <1>1 DEF Surjection
  <2> QED  BY <2>1, <2>2, FS_Surjection
<1>3. \A n \in Heads : MarkOf(cfg, n) \in M /\ d[MarkOf(cfg, n)] = Lay[n].depth
  BY <1>1, HeadMark
<1>4. \A n \in Heads : n \in Nodes /\ HasPlace(n)  BY ThroughGraph, Places DEF Heads
<1>5. \A m \in M : d[m] \in Nat  BY <1>1, <1>3, <1>4 DEF HasPlace
<1>6. Height(Parted) = [m \in M |-> Cardinality({k \in M : d[k] > d[m]})]
  BY DEF Height, Lay
<1> HIDE DEF d, M
<1>7. /\ Height(Parted) \in [M -> 0 .. Cardinality(M)]
      /\ \A k, m \in M : d[k] > d[m] => Height(Parted)[k] < Height(Parted)[m]
  BY <1>2, <1>5, <1>6, Deeper, SMTT(60)
<1>8. IsFrame(Parted, Parted.main)
  <2>1. Parted.main = passenger.instructions[1]  BY DEF Parted, Gathered
  <2>2. Full(cfg, Lay, Nodes, Nowhere, "main", passenger.instructions[1])
    BY DEF Through, AllFull, Complete
  <2> QED  BY <2>1, <2>2, FullParts
<1>9. ASSUME NEW m \in M, NEW parts \in FramesOf(Parted, m)
      PROVE  /\ IsFrame(Parted, parts)
             /\ \A i \in DOMAIN parts : IsMark(parts[i]) => Height(Parted)[parts[i]] < Height(Parted)[m]
  <2>1. PICK n \in Heads : m = MarkOf(cfg, n)  BY <1>1
  <2>2. CASE Straight(parts)
    <3>1. IsFrame(Parted, parts)  BY <2>2, MoreMarks DEF Straight, IsFrame
    <3>2. \A i \in DOMAIN parts : ~IsMark(parts[i])  BY <2>2 DEF Straight, FrameOf, IsMark
    <3> QED  BY <3>1, <3>2
  <2>3. CASE \E path : Full(cfg, Lay, Nodes, n, path, parts)
    <3>1. PICK path : Full(cfg, Lay, Nodes, n, path, parts)  BY <2>3
    <3>2. IsFrame(Parted, parts)  BY <3>1, FullParts
    <3>3. ASSUME NEW i \in DOMAIN parts, IsMark(parts[i])
          PROVE  Height(Parted)[parts[i]] < Height(Parted)[m]
      <4>1. PICK k \in Heads : LiesOn(Lay, k, n, path) /\ parts[i] = MarkOf(cfg, k)
        BY <3>1, <3>3, FullParts
      <4>2. n # Nowhere  BY <1>4, ThroughGraph, Places
      <4>3. Lay[k].depth = Lay[n].depth + 1 /\ Lay[n].depth \in Nat
        BY <1>4, <4>1, <4>2 DEF LiesOn, HasPlace
      <4>4. d[parts[i]] > d[m] /\ parts[i] \in M  BY <1>3, <2>1, <4>1, <4>3
      <4> QED  BY <1>7, <4>4
    <3> QED  BY <3>2, <3>3
  <2> QED  BY <2>1, <2>2, <2>3, PartedFrames
<1> QED  BY <1>2, <1>7, <1>8, <1>9 DEF FramedBy, M

-----------------------------------------------------------------------------
(* What control gets past. *)

\* What falls when the marks of A do.
FallsBy(fp, A) == [m \in Marks(fp) |-> m \in A]

LEMMA MoreFalls ==
  ASSUME NEW fp, NEW A, NEW B, A \subseteq B, NEW parts, IsFrame(fp, parts),
         FrameFalls(parts, FallsBy(fp, A))
  PROVE  FrameFalls(parts, FallsBy(fp, B))
<1>1. DOMAIN parts = 1 .. Len(parts)  BY LenOfAny DEF IsFrame, FrameOf, IsSeq
<1>2. \A i \in DOMAIN parts : IsMark(parts[i]) => parts[i] \in Marks(fp)  BY <1>1, PartKinds
<1> QED  BY <1>2 DEF FrameFalls, FallsBy

\* The most that may fall: what falls is what the marks that fall let fall.
LEMMA FallsExist ==
  ASSUME NEW fp, NEW height, FramedBy(fp, height)
  PROVE  \E falls : IsFalling(fp, falls)
<1> DEFINE M == Marks(fp)
           By(A) == {m \in M : MarkFalls(fp, m, FallsBy(fp, A))}
           Some == {A \in SUBSET M : A \subseteq By(A)}
           U == UNION Some
<1>1. ASSUME NEW A, NEW B, A \subseteq B PROVE By(A) \subseteq By(B)
  <2> SUFFICES ASSUME NEW m \in M, MarkFalls(fp, m, FallsBy(fp, A))
               PROVE  MarkFalls(fp, m, FallsBy(fp, B))
    OBVIOUS
  <2>1. CASE m.p = "Loop"  BY <2>1 DEF MarkFalls
  <2>2. CASE m.p # "Loop"
    <3>1. IsFrame(fp, fp.branches[m.id].true) /\ IsFrame(fp, fp.branches[m.id].false)
      BY <2>2 DEF FramedBy, FramesOf
    <3> QED  BY <1>1, <3>1, MoreFalls DEF MarkFalls
  <2> QED  BY <2>1, <2>2
<1>2. U \subseteq M  OBVIOUS
<1>3. U \subseteq By(U)
  <2> SUFFICES ASSUME NEW A \in Some PROVE A \subseteq By(U)  OBVIOUS
  <2>1. A \subseteq By(A) /\ A \subseteq U  OBVIOUS
  <2>2. By(A) \subseteq By(U)
    <3> HIDE DEF By, Some, U
    <3> QED  BY <1>1, <2>1
  <2> QED  BY <2>1, <2>2
<1>4. By(U) \subseteq U
  <2>1. By(U) \subseteq By(By(U))
    <3> HIDE DEF By, U
    <3> QED  BY <1>1, <1>3
  <2>2. By(U) \in SUBSET M  OBVIOUS
  <2>3. By(U) \in Some
    <3> HIDE DEF By, U
    <3> QED  BY <2>1, <2>2 DEF Some
  <2> HIDE DEF By
  <2> QED  BY <2>3
<1>5. \A m \in M : FallsBy(fp, U)[m] = (m \in U)  BY DEF FallsBy
<1>6. \A m \in M : m \in U <=> MarkFalls(fp, m, FallsBy(fp, U))
  <2> HIDE DEF U, Some
  <2> QED  BY <1>2, <1>3, <1>4
<1>7. IsFalling(fp, FallsBy(fp, U))
  <2>1. \A m \in M : MarkFalls(fp, m, FallsBy(fp, U)) \in BOOLEAN
    BY DEF MarkFalls, FrameFalls
  <2> HIDE DEF U, Some
  <2> QED  BY <1>5, <1>6, <2>1 DEF IsFalling
<1> QED  BY <1>7

-----------------------------------------------------------------------------
(* Back from the end along the paths that control gets past. *)

Soft(late, n) == n \in late /\ K(n) # "Return"

\* From where a path ends back to anything on it.
PathSoft(late, of, path) ==
  (\A m \in Nodes : LiesOn(Lay, m, of, "end") => Soft(late, m)) =>
    \A at \in Nat : \A n : Comes(cfg, Lay, n, of, path, at) => Soft(late, n)

\* The edges control goes along.
LEMMA OnlyOne ==
  ASSUME NEW S, NEW x, S = {x}
  PROVE  Only(S) = x
BY DEF Only

LEMMA TwoThings ==
  ASSUME NEW S, Cardinality(S) # 0
  PROVE  S # {}
BY FS_EmptySet

LEMMA NextEdge ==
  ASSUME Through, NEW n, Next(cfg, n) # Nowhere
  PROVE  \E e \in cfg.edges : e[1] = n /\ e[3] = Next(cfg, n)
<1>1. Cardinality(Out(cfg, n)) = 1  BY DEF Next
<1>2. Out(cfg, n) # {}  BY <1>1, TwoThings
<1>3. Only(Out(cfg, n)) \in Out(cfg, n)  BY <1>2 DEF Only
<1> QED  BY <1>1, <1>3 DEF Next, Out

LEMMA AfterEdge ==
  ASSUME Through, NEW n, NEW kind, After(cfg, n, kind) # Nowhere, kind \in {"True", "False"}
  PROVE  \E e \in cfg.edges : e[1] = n /\ e[3] = After(cfg, n, kind)
<1> DEFINE on == {e \in Out(cfg, n) : e[2] = kind}
<1>1. {e[2] : e \in Out(cfg, n)} = {"True", "False"} /\ After(cfg, n, kind) = Only(on)[3]
  BY DEF After
<1>2. on # {}  BY <1>1
<1>3. Only(on) \in on  BY <1>2 DEF Only
<1> QED  BY <1>1, <1>3 DEF Out

LEMMA FootEdge ==
  ASSUME Through, NEW n, AfterLoopFoot(cfg, n) # Nowhere
  PROVE  /\ K(n) = "LoopFoot" /\ n \in Nodes
         /\ \E e \in cfg.edges : e[1] = n /\ e[3] = AfterLoopFoot(cfg, n)
<1> DEFINE on == {e \in Out(cfg, n) : ~(/\ Kind(cfg, e[3]) = "LoopHead"
                                        /\ cfg.nodes[e[3]].id = cfg.nodes[n].id)}
<1>1. K(n) = "LoopFoot" /\ on # {} /\ AfterLoopFoot(cfg, n) = Only(on)[3]
  BY DEF AfterLoopFoot, K
<1>2. Only(on) \in on  BY <1>1 DEF Only
<1>3. PICK e \in cfg.edges : e[1] = n /\ e[3] = AfterLoopFoot(cfg, n)  BY <1>1, <1>2 DEF Out
<1>4. n \in Nodes  BY <1>3, ThroughGraph DEF Traceable, Nodes
<1> QED  BY <1>1, <1>3, <1>4

LEMMA PassedNext ==
  ASSUME Through, NEW n \in Nodes, K(n) \in Passed, K(n) # "Return"
  PROVE  Behind(cfg, n) = Next(cfg, n)
BY DEF Through, NoJumps, Behind, K, Nodes

LEMMA SoftBefore ==
  ASSUME NEW late, Guards(cfg, late), NEW e \in cfg.edges, Soft(late, e[3])
  PROVE  e[1] \in late
BY DEF Guards, Soft, K

\* A node on a path is soft if what control comes to behind it is.
LEMMA NodeSoft ==
  ASSUME Through, NEW late, Guards(cfg, late), NEW falls, NEW of, NEW path, NEW parts,
         Full(cfg, Lay, Nodes, of, path, parts), FrameFalls(parts, falls),
         NEW n \in Nodes, LiesOn(Lay, n, of, path), path # "end",
         \A m : Comes(cfg, Lay, m, of, path, Lay[n].at) => Soft(late, m),
         K(n) = "BranchSplit" /\ falls[MarkOf(cfg, n)] =>
           PathSoft(late, n, "true") \/ PathSoft(late, n, "false")
  PROVE  Soft(late, n)
<1>1. NestedBy(cfg, Lay)  BY ThroughGraph
<1>2. DOMAIN parts = 1 .. Len(parts) /\ IsFrame(Parted, parts)
  BY FullParts, LenOfAny DEF IsFrame, FrameOf, IsSeq
<1>3. K(n) # "Return"
  <2> SUFFICES ASSUME Returning(parts) PROVE FALSE  BY DEF Full, K
  <2>1. PICK i \in DOMAIN parts : Performs(parts[i], "Return")  BY DEF Returning
  <2>2. ~IsMark(parts[i])  BY <2>1 DEF Performs, IsMark
  <2> QED  BY <2>1, <2>2 DEF FrameFalls
<1>4. K(n) \in Kinds /\ K(n) \notin Closers /\ K(n) \notin {"Continue", "Break"}
  <2>1. HasPlace(n)  BY <1>1, Places
  <2> QED  BY <2>1 DEF HasPlace, LiesOn, Through, NoJumps, K, Nodes
<1>5. \A m : Comes(cfg, Lay, m, Lay[n].of, Lay[n].path, Lay[n].at) => Soft(late, m)
  BY DEF LiesOn
<1>6. n \in DOMAIN cfg.nodes  BY DEF Nodes
<1>7. CASE K(n) \in Passed
  <2>1. Behind(cfg, n) = Next(cfg, n)  BY <1>3, <1>7, PassedNext
  <2>2. Comes(cfg, Lay, Next(cfg, n), Lay[n].of, Lay[n].path, Lay[n].at)
    BY <1>1, <1>6, <1>7, <2>1 DEF NestedBy, Followed, K
  <2>3. Soft(late, Next(cfg, n)) /\ Next(cfg, n) # Nowhere  BY <1>1, <1>5, <2>2, ComesInside
  <2> QED  BY <1>3, <2>3, NextEdge, SoftBefore DEF Soft
<1>8. CASE K(n) = "BranchSplit"
  <2>1. falls[MarkOf(cfg, n)]
    <3>1. MarkOf(cfg, n) \in ToSet(parts) /\ IsMark(MarkOf(cfg, n))
      BY <1>8, HeadMark DEF Full, K, Openers, Heads
    <3> QED  BY <3>1 DEF ToSet, FrameFalls
  <2>2. PICK side \in {"true", "false"} : PathSoft(late, n, side)  BY <1>8, <2>1
  <2>3. ASSUME NEW m \in Nodes, LiesOn(Lay, m, n, "end") PROVE Soft(late, m)
    <3>1. K(m) = "BranchMerge"
      <4>1. HasPlace(m) /\ n # Nowhere  BY <1>1, Places
      <4> QED  BY <1>8, <2>3, <4>1 DEF HasPlace, LiesOn, Closers
    <3>2. Comes(cfg, Lay, Next(cfg, m), Lay[n].of, Lay[n].path, Lay[n].at)
      BY <1>1, <2>3, <3>1 DEF NestedBy, Followed, K, Nodes, LiesOn
    <3>3. Soft(late, Next(cfg, m)) /\ Next(cfg, m) # Nowhere  BY <1>1, <1>5, <3>2, ComesInside
    <3> QED  BY <3>1, <3>3, NextEdge, SoftBefore DEF Soft
  <2>4. PICK kind \in {"True", "False"} : Comes(cfg, Lay, After(cfg, n, kind), n, side, 0)
    <3>1. /\ Comes(cfg, Lay, After(cfg, n, "True"), n, "true", 0)
          /\ Comes(cfg, Lay, After(cfg, n, "False"), n, "false", 0)
      BY <1>1, <1>6, <1>8 DEF NestedBy, Followed, K
    <3> QED  BY <2>2, <3>1
  <2>5. Soft(late, After(cfg, n, kind)) /\ After(cfg, n, kind) # Nowhere
    BY <1>1, <2>2, <2>3, <2>4, ComesInside DEF PathSoft
  <2> QED  BY <1>3, <2>5, AfterEdge, SoftBefore DEF Soft
<1>9. CASE K(n) = "LoopHead"
  <2>1. PICK foot : foot = After(cfg, n, "False")  OBVIOUS
  <2>2. Comes(cfg, Lay, AfterLoopFoot(cfg, foot), Lay[n].of, Lay[n].path, Lay[n].at)
    BY <1>1, <1>6, <1>9, <2>1 DEF NestedBy, Followed, K
  <2>3. Soft(late, AfterLoopFoot(cfg, foot)) /\ AfterLoopFoot(cfg, foot) # Nowhere
    BY <1>1, <1>5, <2>2, ComesInside
  <2>4. Soft(late, foot) /\ foot # Nowhere
    <3>1. K(foot) = "LoopFoot" /\ foot \in Nodes  BY <2>3, FootEdge
    <3>2. foot \in late  BY <2>3, FootEdge, SoftBefore
    <3> QED  BY <1>1, <3>1, <3>2, Places DEF Soft
  <2> QED  BY <1>3, <2>1, <2>4, AfterEdge, SoftBefore DEF Soft
<1> QED  BY <1>4, <1>7, <1>8, <1>9 DEF Kinds, Passed, Closers

LEMMA WholePathSoft ==
  ASSUME Through, NEW late, Guards(cfg, late), NEW falls, NEW of, NEW path, NEW parts,
         Full(cfg, Lay, Nodes, of, path, parts), FrameFalls(parts, falls), path # "end",
         \A n \in Nodes : LiesOn(Lay, n, of, path) /\ K(n) = "BranchSplit" /\ falls[MarkOf(cfg, n)] =>
           PathSoft(late, n, "true") \/ PathSoft(late, n, "false")
  PROVE  PathSoft(late, of, path)
<1> SUFFICES ASSUME \A m \in Nodes : LiesOn(Lay, m, of, "end") => Soft(late, m)
             PROVE  \A at \in Nat : \A n : Comes(cfg, Lay, n, of, path, at) => Soft(late, n)
  BY DEF PathSoft
<1>1. PICK N : N = Len(cfg.nodes)  OBVIOUS
<1>2. N \in Nat /\ NestedBy(cfg, Lay)  BY <1>1, ThroughGraph, Places
<1> DEFINE S == {j \in Nat : \A at \in Nat : N <= at + j =>
                   \A n : Comes(cfg, Lay, n, of, path, at) => Soft(late, n)}
<1>3. \A at \in Nat : \A n : Comes(cfg, Lay, n, of, path, at) =>
        \/ Soft(late, n)
        \/ /\ n \in Nodes /\ LiesOn(Lay, n, of, path) /\ Lay[n].at = at + 1
           /\ at + 1 <= N - 1
  <2> TAKE at \in Nat
  <2> SUFFICES ASSUME NEW n, Comes(cfg, Lay, n, of, path, at), ~LiesOn(Lay, n, of, "end")
               PROVE  /\ n \in Nodes /\ LiesOn(Lay, n, of, path) /\ Lay[n].at = at + 1
                      /\ at + 1 <= N - 1
    BY DEF Comes, Nodes
  <2>1. n \in Nodes /\ LiesOn(Lay, n, of, path) /\ Lay[n].at = at + 1  BY DEF Comes, Nodes
  <2>2. HasPlace(n) /\ Lay[n].path # "end"  BY <1>2, <2>1, Places DEF LiesOn
  <2>3. Lay[n].at \in 1 .. N - 1  BY <1>1, <2>2 DEF HasPlace
  <2> QED  BY <1>2, <2>1, <2>3
<1>4. 0 \in S  BY <1>2, <1>3
<1>5. ASSUME NEW j \in Nat, j \in S PROVE j + 1 \in S
  <2> SUFFICES ASSUME NEW at \in Nat, N <= at + (j + 1), NEW n, Comes(cfg, Lay, n, of, path, at)
               PROVE  Soft(late, n)
    OBVIOUS
  <2> SUFFICES ASSUME n \in Nodes, LiesOn(Lay, n, of, path), Lay[n].at = at + 1
               PROVE  Soft(late, n)
    BY <1>3
  <2>1. at + 1 \in Nat /\ N <= (at + 1) + j  BY <1>2
  <2>2. \A m : Comes(cfg, Lay, m, of, path, Lay[n].at) => Soft(late, m)  BY <1>5, <2>1
  <2> QED  BY <2>2, NodeSoft
<1>6. \A j \in Nat : j \in S
  <2> HIDE DEF S
  <2> QED  BY <1>4, <1>5, CountUp
<1>7. N \in S
  <2> HIDE DEF S
  <2> QED  BY <1>2, <1>6
<1>8. \A at \in Nat : N <= at + N  BY <1>2
<1> QED  BY <1>7, <1>8

\* The paths of a branch that control gets past, the innermost ones first.
LEMMA BranchesSoft ==
  ASSUME Through, NEW late, Guards(cfg, late), NEW falls, IsFalling(Parted, falls)
  PROVE  \A n \in Heads : K(n) = "BranchSplit" /\ falls[MarkOf(cfg, n)] =>
           PathSoft(late, n, "true") \/ PathSoft(late, n, "false")
<1>1. PICK height : height = Height(Parted)  OBVIOUS
<1>2. FramedBy(Parted, height)  BY <1>1, FramesNested
<1>3. PICK c : c = Cardinality(Marks(Parted))  OBVIOUS
<1>4. c \in Nat /\ \A n \in Heads : height[MarkOf(cfg, n)] \in 0 .. c
  BY <1>2, <1>3, Heights, PartedMarks
<1> DEFINE Done(n) == K(n) = "BranchSplit" /\ falls[MarkOf(cfg, n)] =>
                        PathSoft(late, n, "true") \/ PathSoft(late, n, "false")
           S == {d \in Nat : \A n \in Heads : height[MarkOf(cfg, n)] < d => Done(n)}
<1>5. 0 \in S  BY <1>4
<1>6. ASSUME NEW d \in Nat, d \in S PROVE d + 1 \in S
  <2> SUFFICES ASSUME NEW n \in Heads, height[MarkOf(cfg, n)] < d + 1,
                      K(n) = "BranchSplit", falls[MarkOf(cfg, n)]
               PROVE  PathSoft(late, n, "true") \/ PathSoft(late, n, "false")
    OBVIOUS
  <2>1. PICK m : m = MarkOf(cfg, n)  OBVIOUS
  <2>2. m \in Marks(Parted) /\ m.id = IdOf(n) /\ m.p # "Loop"  BY <2>1, PartedMarks, HeadMark
  <2>3. PICK b : b = Parted.branches[IdOf(n)]  OBVIOUS
  <2>4. FrameFalls(b.true, falls) \/ FrameFalls(b.false, falls)
    BY <2>1, <2>2, <2>3 DEF IsFalling, MarkFalls
  <2>5. /\ Full(cfg, Lay, Nodes, n, "true", b.true) /\ Full(cfg, Lay, Nodes, n, "false", b.false)
        /\ b.true \in FramesOf(Parted, m) /\ b.false \in FramesOf(Parted, m)
    BY <2>2, <2>3, PartedBranch DEF FramesOf
  <2>6. ASSUME NEW path \in {"true", "false"}, NEW parts \in FramesOf(Parted, m),
               Full(cfg, Lay, Nodes, n, path, parts), FrameFalls(parts, falls)
        PROVE  PathSoft(late, n, path)
    <3>1. ASSUME NEW k \in Nodes, LiesOn(Lay, k, n, path), K(k) = "BranchSplit" PROVE Done(k)
      <4>1. k \in Heads  BY <3>1 DEF Heads, Openers
      <4>2. MarkOf(cfg, k) \in ToSet(parts) /\ IsMark(MarkOf(cfg, k))
        BY <2>6, <3>1, <4>1, HeadMark DEF Full, K, Openers
      <4>3. PICK i \in DOMAIN parts : parts[i] = MarkOf(cfg, k)  BY <4>2 DEF ToSet
      <4>4. height[MarkOf(cfg, k)] < height[m]  BY <1>2, <2>2, <4>2, <4>3 DEF FramedBy
      <4>5. height[MarkOf(cfg, k)] < d  BY <1>4, <2>1, <4>1, <4>4
      <4> QED  BY <1>6, <4>1, <4>5
    <3>2. \A k \in Nodes : LiesOn(Lay, k, n, path) /\ K(k) = "BranchSplit" /\ falls[MarkOf(cfg, k)] =>
            PathSoft(late, k, "true") \/ PathSoft(late, k, "false")
      BY <3>1
    <3> QED  BY <2>6, <3>2, WholePathSoft
  <2> QED  BY <2>4, <2>5, <2>6
<1>7. \A d \in Nat : d \in S
  <2> HIDE DEF S
  <2> QED  BY <1>5, <1>6, CountUp
<1>8. c + 1 \in S /\ \A n \in Heads : height[MarkOf(cfg, n)] < c + 1  BY <1>4, <1>7
<1> QED  BY <1>8

\* Control does not get past a function that passed the return check.
LEMMA AcceptedStops ==
  ASSUME Through, ReturnTrace(cfg) = "ok", NEW falls, IsFalling(Parted, falls)
  PROVE  ~FrameFalls(Parted.main, falls)
<1> SUFFICES ASSUME FrameFalls(Parted.main, falls) PROVE FALSE  OBVIOUS
<1>1. NestedBy(cfg, Lay) /\ Traceable(cfg)  BY ThroughGraph
<1>2. PICK late : Guards(cfg, late)  BY <1>1, TracedGuards
<1>3. PICK parts : parts = Parted.main  OBVIOUS
<1>4. Full(cfg, Lay, Nodes, Nowhere, "main", parts)
  BY <1>3 DEF Parted, Gathered, Through, AllFull, Complete
<1>5. \A n \in Nodes : K(n) = "BranchSplit" /\ falls[MarkOf(cfg, n)] =>
        PathSoft(late, n, "true") \/ PathSoft(late, n, "false")
  BY <1>2, BranchesSoft DEF Heads, Openers
<1>6. PathSoft(late, Nowhere, "main")  BY <1>2, <1>3, <1>4, <1>5, WholePathSoft
<1>7. ASSUME NEW m \in Nodes, LiesOn(Lay, m, Nowhere, "end") PROVE Soft(late, m)
  <2>1. HasPlace(m) /\ EndNode \in Nodes /\ K(EndNode) = "End" /\ HasPlace(EndNode)
    BY <1>1, Places, TheEnd DEF Nodes, K
  <2>2. Lay[EndNode].of = Nowhere /\ Lay[EndNode].path = "end"  BY <2>1 DEF HasPlace, Closers
  <2>3. m = EndNode  BY <1>1, <1>7, <2>1, <2>2, Unique DEF LiesOn
  <2> QED  BY <1>2, <2>1, <2>3 DEF Guards, Soft
<1>8. Comes(cfg, Lay, StartNode, Nowhere, "main", 0)  BY <1>1 DEF NestedBy, Comes
<1>9. Soft(late, StartNode)  BY <1>6, <1>7, <1>8 DEF PathSoft
<1> QED  BY <1>2, <1>9 DEF Guards, Soft

-----------------------------------------------------------------------------
(* What control reaches. *)

IsReach(code, m, f) == f = [k \in 0 .. m |-> IF k = 0 THEN {0} ELSE Onward(code, f[k - 1])]

LEMMA ReachExists ==
  ASSUME NEW code
  PROVE  \A m \in Nat : \E f : IsReach(code, m, f)
<1> DEFINE S == {m \in Nat : \E f : IsReach(code, m, f)}
<1>1. 0 \in S
  <2>1. IsReach(code, 0, [k \in 0 .. 0 |-> {0}])
    <3>1. \A k \in 0 .. 0 : k = 0  OBVIOUS
    <3> QED  BY <3>1 DEF IsReach
  <2> QED  BY <2>1
<1>2. ASSUME NEW m \in Nat, m \in S PROVE m + 1 \in S
  <2>1. PICK f : IsReach(code, m, f)  BY <1>2
  <2> DEFINE h == [k \in 0 .. m + 1 |-> IF k <= m THEN f[k] ELSE Onward(code, f[m])]
  <2>2. \A k \in 0 .. m : f[k] = IF k = 0 THEN {0} ELSE Onward(code, f[k - 1])
    BY <2>1 DEF IsReach
  <2>3. \A k \in 0 .. m + 1 : h[k] = IF k = 0 THEN {0} ELSE Onward(code, h[k - 1])
    <3> TAKE k \in 0 .. m + 1
    <3>1. CASE k = 0  BY <2>2, <3>1
    <3>2. CASE k # 0 /\ k <= m
      <4>1. k - 1 \in 0 .. m + 1 /\ k - 1 <= m /\ k \in 0 .. m  BY <3>2
      <4> QED  BY <2>2, <3>2, <4>1
    <3>3. CASE k = m + 1
      <4>1. k - 1 = m /\ ~(k <= m) /\ m \in 0 .. m + 1 /\ m <= m /\ k # 0  BY <3>3
      <4> QED  BY <4>1
    <3> QED  BY <3>1, <3>2, <3>3
  <2>4. IsReach(code, m + 1, h)
    <3> HIDE DEF h
    <3>1. h = [k \in 0 .. m + 1 |-> h[k]]  BY DEF h
    <3> QED  BY <2>3, <3>1 DEF IsReach
  <2> QED  BY <2>4
<1>3. \A m \in Nat : m \in S
  <2> HIDE DEF S
  <2> QED  BY <1>1, <1>2, CountUp
<1> QED  BY <1>3

Advances(code, n, f) ==
  f[0] = {0} /\ \A k \in 0 .. n - 1 : f[k + 1] = Onward(code, f[k])

LEMMA ReachedIs ==
  ASSUME NEW code, Len(code) \in Nat
  PROVE  \E f : Reached(code) = f[Len(code)] /\ Advances(code, Len(code), f)
<1> DEFINE reached == CHOOSE f : IsReach(code, Len(code), f)
<1>1. IsReach(code, Len(code), reached)  BY ReachExists
<1>2. Reached(code) = reached[Len(code)]  BY DEF Reached, IsReach
<1> HIDE DEF reached
<1>3. \A k \in 0 .. Len(code) :
        reached[k] = IF k = 0 THEN {0} ELSE Onward(code, reached[k - 1])
  BY <1>1 DEF IsReach
<1>4. reached[0] = {0}  BY <1>3
<1>5. ASSUME NEW k \in 0 .. Len(code) - 1 PROVE reached[k + 1] = Onward(code, reached[k])
  <2>1. k + 1 \in 0 .. Len(code) /\ k + 1 # 0 /\ (k + 1) - 1 = k  OBVIOUS
  <2> QED  BY <1>3, <2>1
<1> QED  BY <1>2, <1>4, <1>5 DEF Advances

\* As many rounds as there are instructions are enough.
LEMMA ReachedCloses ==
  ASSUME NEW code, Len(code) \in Nat, NEW flow, flow \subseteq Addresses(code), 0 \in flow,
         \A a \in flow : Successors(code, a) \subseteq flow
  PROVE  /\ Reached(code) \subseteq flow /\ 0 \in Reached(code)
         /\ \A a \in Reached(code) : Successors(code, a) \subseteq Reached(code)
<1>1. PICK n : n = Len(code)  OBVIOUS
<1>2. PICK f : Reached(code) = f[n] /\ Advances(code, n, f)  BY <1>1, ReachedIs
<1>3. n \in Nat /\ Addresses(code) = 0 .. n - 1  BY <1>1 DEF Addresses
<1>4. IsFiniteSet(0 .. n - 1) /\ Cardinality(0 .. n - 1) = n
  <2>1. n = IF 0 > n - 1 THEN 0 ELSE (n - 1) - 0 + 1  BY <1>3
  <2> QED  BY <1>3, <2>1, FS_Interval
<1> DEFINE Closed(R) == Onward(code, R) = R
           Grown(k) == /\ f[k] \subseteq flow /\ 0 \in f[k]
                       /\ Closed(f[k]) \/ Cardinality(f[k]) > k
           S == {k \in Nat : k <= n => Grown(k)}
<1>5. 0 \in S
  <2>1. f[0] = {0} /\ Cardinality(f[0]) = 1  BY <1>2, FS_Singleton DEF Advances
  <2>2. f[0] \subseteq flow /\ 0 \in f[0] /\ 1 > 0  BY <2>1
  <2>3. Grown(0)  BY <2>1, <2>2
  <2> HIDE DEF Grown
  <2> QED  BY <2>3
<1>6. ASSUME NEW k \in Nat, k \in S PROVE k + 1 \in S
  <2> SUFFICES ASSUME k + 1 <= n PROVE Grown(k + 1)  OBVIOUS
  <2>1. k \in 0 .. n - 1 /\ k <= n  BY <1>3
  <2>2. Grown(k) /\ f[k + 1] = Onward(code, f[k])
    BY <1>2, <1>6, <2>1 DEF Advances
  <2>3. f[k + 1] \subseteq flow /\ f[k] \subseteq f[k + 1]  BY <2>2 DEF Onward
  <2>4. CASE Closed(f[k])  BY <2>2, <2>3, <2>4
  <2>5. CASE ~Closed(f[k])
    <3>1. f[k] # f[k + 1] /\ Cardinality(f[k]) > k  BY <2>2, <2>5
    <3>2. f[k + 1] \in SUBSET (0 .. n - 1) /\ f[k] \in SUBSET f[k + 1]  BY <1>3, <2>3
    <3>3. IsFiniteSet(f[k + 1]) /\ IsFiniteSet(f[k])  BY <1>4, <3>2, FS_Subset
    <3>4. Cardinality(f[k + 1]) \in Nat /\ Cardinality(f[k]) \in Nat  BY <3>3, FS_CardinalityType
    <3>5. /\ Cardinality(f[k]) <= Cardinality(f[k + 1])
          /\ Cardinality(f[k]) # Cardinality(f[k + 1])
      BY <3>1, <3>2, <3>3, FS_Subset
    <3>6. Cardinality(f[k + 1]) > k + 1
      <4>1. ASSUME NEW x \in Nat, NEW y \in Nat, x > k, x <= y, x # y PROVE y > k + 1
        BY <4>1
      <4> QED  BY <3>1, <3>4, <3>5, <4>1
    <3> QED  BY <2>2, <2>3, <3>6
  <2> QED  BY <2>4, <2>5
<1>7. n \in S
  <2>1. \A k \in Nat : k \in S
    <3> HIDE DEF S
    <3> QED  BY <1>5, <1>6, CountUp
  <2> HIDE DEF S
  <2> QED  BY <1>3, <2>1
<1>8. f[n] \subseteq flow /\ 0 \in f[n] /\ (Closed(f[n]) \/ Cardinality(f[n]) > n)
  BY <1>3, <1>7
<1>9. Closed(f[n])
  <2>1. f[n] \in SUBSET (0 .. n - 1)  BY <1>3, <1>8
  <2>2. IsFiniteSet(f[n]) /\ Cardinality(f[n]) <= n  BY <1>4, <2>1, FS_Subset, ZenonT(60)
  <2>3. Cardinality(f[n]) \in Nat  BY <2>2, FS_CardinalityType
  <2> QED  BY <1>3, <1>8, <2>2, <2>3
<1>10. \A a \in f[n] : Successors(code, a) \subseteq f[n]
  <2>1. f[n] \cap Addresses(code) = f[n]  BY <1>8
  <2> QED  BY <1>9, <2>1 DEF Onward
<1> QED  BY <1>2, <1>8, <1>10

-----------------------------------------------------------------------------

\* The first pass hands on frames that are nested the way the graph is, and the
\* return check keeps the executor inside the code they are inlined to: in a
\* function it has let pass, whatever its branches and loops, no branch is left
\* to the end of the code by a path that does not return, and each call control
\* reaches is followed by the instruction that takes its answer
\* (return_trace.rs, first_pass.rs, second_pass.rs, third_pass.rs).
THEOREM AcceptedCompiles == Spec => []AcceptedStaysInside
<1>1. IInv /\ CInv => AcceptedStaysInside
  <2> SUFFICES ASSUME IInv, CInv, status = "done", NoJumps(cfg)
               PROVE  /\ FramedBy(Parted, Height(Parted))
                      /\ ReturnTrace(cfg) = "ok" /\ Len(Compiled(Parted)) <= MaxIP =>
                           CodeOK(Compiled(Parted), Reached(Compiled(Parted)))
    BY DEF AcceptedStaysInside, Parted
  <2>1. Through  BY DEF IInv, CInv, Typed, Through
  <2>2. PICK height : height = Height(Parted)  OBVIOUS
  <2>3. FramedBy(Parted, height)  BY <2>1, <2>2, FramesNested
  <2>4. ASSUME ReturnTrace(cfg) = "ok", Len(Compiled(Parted)) <= MaxIP
        PROVE  CodeOK(Compiled(Parted), Reached(Compiled(Parted)))
    <3>1. PICK code : code = Compiled(Parted)  OBVIOUS
    <3>2. PICK falls : IsFalling(Parted, falls)  BY <2>3, FallsExist
    <3>3. ~FrameFalls(Parted.main, falls)  BY <2>1, <2>4, <3>2, AcceptedStops
    <3>4. PICK flow : CodeOK(code, flow)
      <4>1. Len(ThirdPass(SecondPass(Parted))) <= MaxIP  BY <2>4 DEF Compiled
      <4> QED  BY <2>3, <3>1, <3>2, <3>3, <4>1, ReturningStaysInside DEF Compiled
    <3>5. Shaped(code) /\ Len(code) \in Nat  BY <2>3, <3>1, CompiledShaped, LenOfAny DEF Shaped
    <3>6. /\ Reached(code) \subseteq flow /\ 0 \in Reached(code)
          /\ \A a \in Reached(code) : Successors(code, a) \subseteq Reached(code)
      BY <3>4, <3>5, ReachedCloses DEF CodeOK
    <3>7. Reached(code) \subseteq Addresses(code) /\ Len(code) <= MaxIP
      BY <3>4, <3>6 DEF CodeOK
    <3> QED  BY <3>1, <3>5, <3>6, <3>7, ShapedOK
  <2> QED  BY <2>2, <2>3, <2>4
<1> QED  BY <1>1, Fills, PTL

=============================================================================
