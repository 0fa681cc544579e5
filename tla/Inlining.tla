------------------------------ MODULE Inlining ------------------------------
(***************************************************************************)
(* The second and the third pass of the byte code generator: the frames    *)
(* the first pass has gathered are inlined with relative jumps between     *)
(* them (smpl/src/code_gen/byte_gen/second_pass.rs), and continue becomes  *)
(* a jump (third_pass.rs).                                                 *)
(***************************************************************************)
EXTENDS Parts, FiniteSets

RelJump(n) == [op |-> "Jump", rel |-> TRUE, dest |-> n]
RelJumpIf(n, on, arg) ==
  [op |-> "JumpIf", rel |-> TRUE, dest |-> n, on |-> on, arg |-> arg]

-----------------------------------------------------------------------------
(* Second pass: loops and branches inlined. *)

\* Mutant: the markers are counted too.
FlatLenOfAll(parts) == Len(parts)

\* Flattened::len: the markers are no instructions to jump over.
FlatLen(parts) ==
  Len(FlattenSeq([i \in DOMAIN parts |-> IF Marker(parts[i]) THEN <<>> ELSE <<parts[i]>>]))

\* Mutant: a round goes back to the test, not to the condition it tests.
LoopLayoutStale(id, cond, result, body) ==
  LET skip == RelJumpIf(FlatLen(body) + 2, FALSE, result)
      loop == RelJump(-FlatLen(body) - 1)
  IN  <<Mark("LoopBegin", id)>> \o cond \o Whole(<<skip>>) \o body
        \o Whole(<<loop>>) \o <<Mark("LoopEnd", id)>>

LoopLayout(id, cond, result, body) ==
  LET skip == RelJumpIf(FlatLen(body) + 2, FALSE, result)
      loop == RelJump(-(FlatLen(body) + FlatLen(cond)) - 1)
  IN  <<Mark("LoopBegin", id)>> \o cond \o Whole(<<skip>>) \o body
        \o Whole(<<loop>>) \o <<Mark("LoopEnd", id)>>

\* The false branch comes first.
BranchLayout(cond, result, true, false) ==
  LET enter == RelJumpIf(FlatLen(false) + 2, TRUE, result)
      leave == RelJump(FlatLen(true) + 1)
  IN  cond \o Whole(<<enter>>) \o false \o Whole(<<leave>>) \o true

\* fp: the frame of the function, and by their ids those of the loops and the
\* branches, for each of which there is a mark in the frame around it.
Marks(fp) ==
  {Mark("Loop", id) : id \in DOMAIN fp.loops} \cup {Mark("Branch", id) : id \in DOMAIN fp.branches}

\* SecondPass::flatten, when inlined says what becomes of the marks.
Flatten(parts, inlined) ==
  FlattenSeq([i \in DOMAIN parts |->
                IF IsMark(parts[i]) THEN inlined[parts[i]] ELSE <<parts[i]>>])

Inline(fp, m, inlined) ==
  LET loop == fp.loops[m.id]
      branch == fp.branches[m.id]
      Flat(parts) == Flatten(parts, inlined)
  IN  IF m.p = "Loop"
      THEN LoopLayout(m.id, Flat(loop.condition), loop.result, Flat(loop.body))
      ELSE BranchLayout(Flat(branch.condition), branch.result,
                        Flat(branch.true), Flat(branch.false))

Inlined(fp) == LET inlined[m \in Marks(fp)] == Inline(fp, m, inlined) IN inlined

SecondPass(fp) == Flatten(fp.main, Inlined(fp))

-----------------------------------------------------------------------------
(* Third pass: continue becomes a jump. *)

\* gather_loop_indexes: where the loop's begin marker is, from 0.
LoopBegin(parts, id) ==
  (CHOOSE i \in DOMAIN parts : parts[i] = Mark("LoopBegin", id)) - 1

\* The distance to the begin marker, in positions that include the markers;
\* the jump goes forward by it.
ContinueJump(parts, i) == RelJump((i - 1) - LoopBegin(parts, parts[i].id))

ThirdPass(parts) ==
  FlattenSeq([i \in DOMAIN parts |->
    CASE parts[i].p = "Instruction" -> <<parts[i].instr>>
      [] parts[i].p = "Continue" -> <<ContinueJump(parts, i)>>
      [] OTHER -> <<>>])

\* compile_to_byte_code behind the first pass.
Compiled(fp) == ThirdPass(SecondPass(fp))

-----------------------------------------------------------------------------
(* What the passes rely on, for functions without a continue. *)

IsFrame(fp, parts) == FrameOf(Marks(fp), parts)

FramesOf(fp, m) ==
  IF m.p = "Loop" THEN {fp.loops[m.id].condition, fp.loops[m.id].body}
  ELSE {fp.branches[m.id].condition, fp.branches[m.id].true, fp.branches[m.id].false}

\* The frames are nested: a mark is higher than those in its frames.
FramedBy(fp, height) ==
  /\ IsFiniteSet(Marks(fp)) /\ height \in [Marks(fp) -> 0 .. Cardinality(Marks(fp))]
  /\ IsFrame(fp, fp.main)
  /\ \A m \in Marks(fp) : \A parts \in FramesOf(fp, m) :
       /\ IsFrame(fp, parts)
       /\ \A i \in DOMAIN parts : IsMark(parts[i]) => height[parts[i]] < height[m]

\* Control gets past a frame if it gets past each part, past a loop always and
\* past a branch if it does past one of its paths.
FrameFalls(parts, falls) ==
  \A i \in DOMAIN parts :
    IF IsMark(parts[i]) THEN falls[parts[i]] ELSE ~Performs(parts[i], "Return")
MarkFalls(fp, m, falls) ==
  \/ m.p = "Loop"
  \/ FrameFalls(fp.branches[m.id].true, falls) \/ FrameFalls(fp.branches[m.id].false, falls)
IsFalling(fp, falls) == \A m \in Marks(fp) : falls[m] = MarkFalls(fp, m, falls)

=============================================================================
