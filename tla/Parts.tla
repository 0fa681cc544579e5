-------------------------------- MODULE Parts --------------------------------
(***************************************************************************)
(* The parts of byte code that the passes of the generator hand on         *)
(* (PartialInstruction, smpl/src/code_gen/byte_gen/first_pass.rs).  A part *)
(* is an instruction, or stands for something: a loop or a branch for its  *)
(* frames, a continue for a jump; the begin and the end of a loop are      *)
(* places only.                                                            *)
(***************************************************************************)
EXTENDS Integers, Sequences, SequencesExt

Whole(code) == [i \in DOMAIN code |-> [p |-> "Instruction", instr |-> code[i]]]

\* What stands for a loop, a branch or a continue until they are inlined.
Mark(tag, id) == [p |-> tag, id |-> id]

IsMark(part) == part.p \in {"Loop", "Branch"}
Marker(part) == part.p \in {"LoopBegin", "LoopEnd"}

-----------------------------------------------------------------------------
(* What the passes rely on, for functions without a continue. *)

IsSeq(s) == s \in Seq(ToSet(s))

Performs(part, op) == part.p = "Instruction" /\ part.instr.op = op

\* A frame has the given marks and instructions, of which none is a jump; a
\* call and nothing else comes before the instruction that takes its answer.
FrameOf(marks, parts) ==
  /\ IsSeq(parts)
  /\ \A i \in DOMAIN parts :
       \/ parts[i] \in marks
       \/ parts[i].p = "Instruction" /\ parts[i].instr.op \notin {"Jump", "JumpIf"}
  /\ \A i \in 0 .. Len(parts) :
       (i > 0 /\ Performs(parts[i], "FnCall"))
         <=> (i < Len(parts) /\ Performs(parts[i + 1], "TakeReturn"))

=============================================================================
