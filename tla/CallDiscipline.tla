--------------------------- MODULE CallDiscipline ---------------------------
(***************************************************************************)
(* What the executor relies on in the byte code it is given, and what it   *)
(* then guarantees.  The return register is one cell shared by all the     *)
(* activations; nothing in the executor ties a value in it to the call it  *)
(* answers.  It is the shape of the code, FnCall directly followed by      *)
(* TakeReturn (translate_tmp), that makes the register a private channel   *)
(* from a callee to its caller.                                            *)
(***************************************************************************)
EXTENDS Executor

CONSTANTS
  Flow(_, _),      \* the addresses of a function of a program that control
                   \* reaches; CodeOK is all that is asked of it
  Aborted          \* no value: the outcome of a call that failed

\* What the byte code generator promises of every function it compiles.
WellFormed(p) == \A f \in Fns : CodeOK(p.compiled[f], Flow(p, f))

-----------------------------------------------------------------------------

\* The state components have their types; an activation is there to run
\* exactly while the executor is running or awaiting.
TypeOK ==
  /\ IsProgram(prog)
  /\ stack \in Seq(ByteCodeStack)
  /\ returnRegister \in Seq(Val) /\ Len(returnRegister) <= 1
  /\ future \in Seq(Val)
  /\ status \in Status
  /\ result \in Seq(Val)
  /\ status = "running" => top \in ByteCodeStack \cup BuiltinStack
  /\ status = "awaiting" => top \in BuiltinStack

AtTakeReturn(frame) == Code(frame.fn)[frame.ip + 1].op = "TakeReturn"

\* A suspended caller is waiting at the TakeReturn of the call it made.
Suspended(frame) ==
  /\ frame.ip \in Flow(prog, frame.fn)
  /\ AtTakeReturn(frame)

\* Executing well-formed code, a caller on the stack always waits at its
\* TakeReturn: no callee can come back to code that ignores its answer.
CallersWait ==
  WellFormed(prog) => \A i \in DOMAIN stack : Suspended(stack[i])

\* Executing well-formed code, the shared register is full exactly when the
\* running activation is about to take from it: no answer is left behind for
\* another call to find, and none is missing.
RegisterIsAnswer ==
  WellFormed(prog) =>
    /\ status = "idle" => returnRegister = None /\ stack = <<>>
    /\ status = "running" =>
         (returnRegister # None <=> top.fn \in Fns /\ AtTakeReturn(top))
    /\ status = "awaiting" => returnRegister = None
    /\ status = "finished" => returnRegister # None /\ stack = <<>>

\* The instruction pointer of the running activation stays in reachable code.
PointerInFlow ==
  WellFormed(prog) =>
    (status = "running" /\ top.fn \in Fns => top.ip \in Flow(prog, top.fn))

\* The inductive invariant behind the properties of this module.
Discipline == TypeOK /\ CallersWait /\ RegisterIsAnswer /\ PointerInFlow

\* Errors of the machine itself, as opposed to errors of the program it runs.
MachineFaults ==
  {"InstructionPointerOutOfBounds", "NoReturnValue", "IPUnderflow", "IPOverflow"}

\* Well-formed code never drives the executor into one of its own internal
\* errors: running off the code, a jump out of u64, a missing return value.
NoMachineFault ==
  WellFormed(prog) /\ status = "failed" => error \notin MachineFaults

-----------------------------------------------------------------------------
(* The executor on well-formed code implements the protocol of Calls.      *)

Act(frame, answer) == [fn |-> frame.fn, locals |-> frame, answer |-> answer]

Waiting(frames) == [i \in DOMAIN frames |-> Act(frames[i], None)]

Acts ==
  IF status \notin {"running", "awaiting"} THEN <<>>
  ELSE Append(Waiting(stack), Act(top, returnRegister))

Outcome ==
  CASE status \in {"failed", "panicked"} -> Aborted
    [] status = "finished" -> returnRegister
    [] status = "completed" -> result
    [] OTHER -> None

Protocol == INSTANCE Calls WITH acts <- Acts, outcome <- Outcome

\* Every call of well-formed code is answered by its own callee, once, with
\* the caller untouched in between, and the answer is taken at once.
ImplementsCalls == Protocol!Spec

=============================================================================
