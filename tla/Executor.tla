------------------------------ MODULE Executor ------------------------------
(***************************************************************************)
(* The executor of the AVM (smpli/src/executor.rs): one activation on top, *)
(* the suspended callers on a stack, one return register shared by all of  *)
(* them, and the builtin that is awaited.                                  *)
(*                                                                         *)
(* Byte code is a sequence of instruction records.  Values, the operations *)
(* on them and the paths into structs and arrays are parameters: the       *)
(* executor itself looks only inside function values and booleans.         *)
(***************************************************************************)
EXTENDS CodeFlow

CONSTANTS
  Fns,             \* ids of the SMPL functions, the keys of CompiledProgram
  Builtins,        \* ids the metadata marks as builtin
  Names,           \* strings naming variables, functions and temporaries
  FnName,          \* the name a function has in the module environment
  Val,             \* the values of the language
  NoVal,           \* no binding in an environment
  Unit,            \* Value::Unit
  Key,             \* the field names a path selects by
  Operation,       \* what a Compute instruction computes
  Programs,        \* what AVM::new makes of the programs considered
  Eval(_, _),      \* what an instruction computes from its arguments
  Select(_, _),    \* the value at the end of a path
  Replace(_, _, _),\* the value with another one at the end of a path
  Outcomes(_, _)   \* the results a builtin may have on given arguments

Callable == Fns \cup Builtins
FnVal(f) == <<"fn", f>>
Bool(b) == <<"bool", b>>

Segment == [kind: {"Field"}, key: Key] \cup [kind: {"Index"}, name: Names]
Location == [kind: {"Namespace", "Tmp"}, name: Names]
              \cup [kind: {"Compound"}, name: Names, path: Seq(Segment)]
Arg == [kind: {"Lit"}, val: Val] \cup Location

Instruction ==
       [op: {"Compute"}, to: Location, fn: Operation, args: Seq(Arg)]
  \cup [op: {"FnCall"}, fn: Location, args: Seq(Arg)]
  \cup [op: {"TakeReturn"}, to: Location]
  \cup [op: {"Return"}, value: Seq(Arg)]
  \cup [op: {"Jump"}, rel: BOOLEAN, dest: Int]
  \cup [op: {"JumpIf"}, rel: BOOLEAN, dest: Int, on: BOOLEAN, arg: Arg]

\* compiled, params: the byte code and the parameter names of every function;
\* mapped: the builtins the host supplied; entry: what the host spawns.
IsProgram(p) ==
  /\ p.compiled \in [Fns -> Seq(Instruction)]
  /\ p.params \in [Fns -> Seq(Names)]
  /\ p.mapped \subseteq Builtins
  /\ p.entry \subseteq Callable \X Seq(Val)

ASSUME ValAssumption ==
  /\ \A f \in Callable : FnVal(f) \in Val
  /\ \A b \in BOOLEAN : Bool(b) \in Val
  /\ Unit \in Val
  /\ NoVal \notin Val
ASSUME NameAssumption == FnName \in [Callable -> Names]
ASSUME FnAssumption == Fns \cap Builtins = {}
ASSUME ProgramAssumption == \A p \in Programs : IsProgram(p)

VARIABLES
  prog,            \* the program: metadata, compiled code, mapped builtins
  top,             \* the running activation
  stack,           \* the suspended activations, the oldest first
  returnRegister,  \* Option<Value>: <<>> or <<v>>
  future,          \* the arguments owned by the awaited builtin future
  status,          \* what the host sees of the executor
  result,          \* the value execute() returned: <<>> or <<v>>
  error            \* why it returned none

vars == <<prog, top, stack, returnRegister, future, status, result, error>>

None == <<>>
Some(v) == <<v>>
NoFrame == <<>>

Env == [Names -> Val \cup {NoVal}]
ByteCodeStack == [fn: Fns, ip: Nat, env: Env, tmp: Env]
BuiltinStack == [fn: Builtins, args: Seq(Val)]

\* "finished": the flag is set, execute() has not returned yet.  "panicked":
\* an unwrap, expect or unimplemented! unwound; "failed": execute() gave Err.
Status ==
  {"idle", "running", "awaiting", "finished", "completed", "failed", "panicked"}

-----------------------------------------------------------------------------
(* Environments and locations. *)

\* Mutant: a temporary hides a variable of the same name.
LookupTmpFirst(frame, name) ==
  IF frame.tmp[name] # NoVal THEN frame.tmp[name] ELSE frame.env[name]

\* Env::get and Env::get_ref: a variable hides a temporary of the same name.
Lookup(frame, name) ==
  IF frame.env[name] # NoVal THEN frame.env[name] ELSE frame.tmp[name]

\* The path with its indices read from the environment.
Keys(frame, path) ==
  [i \in DOMAIN path |->
     IF path[i].kind = "Field" THEN path[i].key ELSE Lookup(frame, path[i].name)]

\* Executor::fetch; NoVal where the code unwraps a None or has no case.
Fetch(frame, loc) ==
  CASE loc.kind = "Namespace" -> frame.env[loc.name]
    [] loc.kind = "Tmp" -> frame.tmp[loc.name]
    [] OTHER -> LET root == Lookup(frame, loc.name)
                    v    == Select(root, Keys(frame, loc.path))
                IN  IF root # NoVal /\ v \in Val THEN v ELSE NoVal

ArgValue(frame, arg) == IF arg.kind = "Lit" THEN arg.val ELSE Fetch(frame, arg)
ArgValues(frame, args) == [i \in DOMAIN args |-> ArgValue(frame, args[i])]
Bound(vals) == \A i \in DOMAIN vals : vals[i] # NoVal

\* Writing through the reference a compound location denotes replaces the
\* value at the end of the path inside the root variable.
Updated(frame, loc, v) ==
  Replace(Lookup(frame, loc.name), Keys(frame, loc.path), v)

Storable(frame, loc, v) ==
  loc.kind = "Compound" => Fetch(frame, loc) # NoVal /\ Updated(frame, loc, v) \in Val

\* Mutant: a compound location is written in a copy of the root variable.
StoredInCopy(frame, loc, v) ==
  CASE loc.kind = "Namespace" -> [frame EXCEPT !.env[loc.name] = v]
    [] loc.kind = "Tmp" -> [frame EXCEPT !.tmp[loc.name] = v]
    [] OTHER -> frame

\* Executor::store.
Stored(frame, loc, v) ==
  CASE loc.kind = "Namespace" -> [frame EXCEPT !.env[loc.name] = v]
    [] loc.kind = "Tmp" -> [frame EXCEPT !.tmp[loc.name] = v]
    [] OTHER -> IF frame.env[loc.name] # NoVal
                THEN [frame EXCEPT !.env[loc.name] = Updated(frame, loc, v)]
                ELSE [frame EXCEPT !.tmp[loc.name] = Updated(frame, loc, v)]

\* The environment every activation starts from: the functions by name.
ModuleEnv(p) ==
  [n \in Names |->
     IF \E f \in Fns \cup p.mapped : FnName[f] = n
     THEN FnVal(CHOOSE f \in Fns \cup p.mapped : FnName[f] = n)
     ELSE NoVal]

\* The arguments, bound in order over the forked module environment.
ParamEnv(p, f, args) ==
  [n \in Names |->
     LET at == {i \in DOMAIN p.params[f] : p.params[f][i] = n}
     IN  IF at = {} THEN ModuleEnv(p)[n]
         ELSE args[CHOOSE i \in at : \A j \in at : j <= i]]

\* create_stack_info, when it does not fail.
NewFrame(p, f, args) ==
  IF f \in Builtins
  THEN [fn |-> f, args |-> args]
  ELSE [fn |-> f, ip |-> 0, env |-> ParamEnv(p, f, args),
        tmp |-> [n \in Names |-> NoVal]]

-----------------------------------------------------------------------------
(* How a step ends. *)

Stop(how, reason) ==
  /\ status' = how
  /\ error' = reason
  /\ UNCHANGED <<prog, top, stack, returnRegister, future, result>>

Fail(reason) == Stop("failed", reason)
Panic(reason) == Stop("panicked", reason)

\* Mutant: the pointer wraps around.
GotoWraps(frame, ip, register) ==
  /\ top' = [frame EXCEPT !.ip = ip % (MaxIP + 1)]
  /\ returnRegister' = register
  /\ UNCHANGED <<prog, stack, future, status, result, error>>

\* The activation goes on at ip with the given register; an AddIP that leaves
\* u64 is an error.
Goto(frame, ip, register) ==
  IF ip < 0 THEN Fail("IPUnderflow")
  ELSE IF ip > MaxIP THEN Fail("IPOverflow")
  ELSE /\ top' = [frame EXCEPT !.ip = ip]
       /\ returnRegister' = register
       /\ UNCHANGED <<prog, stack, future, status, result, error>>

\* create_stack_info on the callee and its arguments, above the given stack.
Enter(f, args, callers) ==
  IF f \in Builtins /\ f \notin prog.mapped THEN Panic("UnmappedBuiltin")
  ELSE IF f \in Fns /\ Len(prog.params[f]) # Len(args)
  THEN Fail("InvalidArgCount")
  ELSE /\ top' = NewFrame(prog, f, args)
       /\ stack' = callers
       /\ status' = "running"
       /\ UNCHANGED <<prog, returnRegister, future, result, error>>

\* Mutant: the value of the callee never gets into the register.
PopStackDropsValue(v) ==
  /\ future' = <<>>
  /\ UNCHANGED <<prog, returnRegister, result, error>>
  /\ IF stack = <<>> THEN status' = "finished" /\ UNCHANGED <<top, stack>>
     ELSE /\ status' = "running"
          /\ top' = stack[Len(stack)]
          /\ stack' = SubSeq(stack, 1, Len(stack) - 1)

\* Mutant: the flag that ends execute() is not set.
PopStackNeverFinishes(v) ==
  /\ returnRegister' = Some(v)
  /\ future' = <<>>
  /\ status' = "running"
  /\ UNCHANGED <<prog, result, error>>
  /\ IF stack = <<>> THEN UNCHANGED <<top, stack>>
     ELSE /\ top' = stack[Len(stack)]
          /\ stack' = SubSeq(stack, 1, Len(stack) - 1)

\* Mutant: the oldest caller goes on, not the last.
PopStackOldest(v) ==
  /\ returnRegister' = Some(v)
  /\ future' = <<>>
  /\ UNCHANGED <<prog, result, error>>
  /\ IF stack = <<>> THEN status' = "finished" /\ UNCHANGED <<top, stack>>
     ELSE /\ status' = "running"
          /\ top' = Head(stack)
          /\ stack' = Tail(stack)

\* ExecuteAction::PopStack.
PopStack(v) ==
  /\ returnRegister' = Some(v)
  /\ future' = <<>>
  /\ UNCHANGED <<prog, result, error>>
  /\ \/ /\ stack = <<>>
        /\ status' = "finished"
        /\ UNCHANGED <<top, stack>>
     \/ /\ stack # <<>>
        /\ status' = "running"
        /\ top' = stack[Len(stack)]
        /\ stack' = SubSeq(stack, 1, Len(stack) - 1)

-----------------------------------------------------------------------------
(* The operations. *)

Init ==
  /\ prog \in Programs
  /\ top = NoFrame
  /\ stack = <<>>
  /\ returnRegister = None
  /\ future = <<>>
  /\ status = "idle"
  /\ result = None
  /\ error = "none"

\* AVM::spawn_executor on a function handle and the host's arguments.
Spawn ==
  /\ status = "idle"
  /\ \E s \in prog.entry : Enter(s[1], s[2], <<>>)

Code(f) == prog.compiled[f]
Instr == Code(top.fn)[top.ip + 1]

Running(op) ==
  /\ status = "running"
  /\ top.fn \in Fns
  /\ top.ip < Len(Code(top.fn))
  /\ Instr.op = op

\* instructions.get(ip) is None.
OutOfBounds ==
  /\ status = "running"
  /\ top.fn \in Fns
  /\ top.ip >= Len(Code(top.fn))
  /\ Fail("InstructionPointerOutOfBounds")

\* Store, StoreStructure, StoreArray1, StoreArray2 and every arithmetic,
\* comparison and logical instruction.  Of two bad operands the unbound one is
\* reported here, the first one by the code.
Compute ==
  /\ Running("Compute")
  /\ LET vals == ArgValues(top, Instr.args)
         out  == Eval(Instr.fn, vals)
     IN  IF ~Bound(vals) THEN Panic("Unbound")
         ELSE IF out.tag = "error" THEN Fail("Operand")
         ELSE IF out.tag = "panic" \/ out.val \notin Val
                 \/ ~Storable(top, Instr.to, out.val) THEN Panic("Operation")
         ELSE Goto(Stored(top, Instr.to, out.val), top.ip + 1, returnRegister)

\* Mutant: the caller is suspended at the call itself.
FnCallAgain ==
  /\ Running("FnCall")
  /\ LET callee == Fetch(top, Instr.fn)
         vals   == ArgValues(top, Instr.args)
     IN  /\ \E f \in Callable : callee = FnVal(f)
         /\ Bound(vals)
         /\ Enter(callee[2], vals, Append(stack, top))

\* The instruction pointer moves on before the callee's frame is built.
FnCall ==
  /\ Running("FnCall")
  /\ LET callee == Fetch(top, Instr.fn)
         vals   == ArgValues(top, Instr.args)
     IN  IF callee = NoVal THEN Panic("Unbound")
         ELSE IF \A f \in Callable : callee # FnVal(f) THEN Fail("ExpectedFunction")
         ELSE IF ~Bound(vals) THEN Panic("Unbound")
         ELSE IF top.ip + 1 > MaxIP THEN Fail("IPOverflow")
         ELSE Enter(callee[2], vals, Append(stack, [top EXCEPT !.ip = @ + 1]))

\* Mutant: a bare return has no value.
ReturnNothing ==
  /\ Running("Return")
  /\ LET vals == ArgValues(top, Instr.value)
     IN  /\ Bound(vals)
         /\ PopStack(IF vals = <<>> THEN NoVal ELSE vals[1])

Return ==
  /\ Running("Return")
  /\ LET vals == ArgValues(top, Instr.value)
     IN  IF ~Bound(vals) THEN Panic("Unbound")
         ELSE PopStack(IF vals = <<>> THEN Unit ELSE vals[1])

\* Mutant: the register is read, not taken.
TakeReturnClones ==
  /\ Running("TakeReturn")
  /\ returnRegister # None
  /\ Storable(top, Instr.to, returnRegister[1])
  /\ Goto(Stored(top, Instr.to, returnRegister[1]), top.ip + 1, returnRegister)

TakeReturn ==
  /\ Running("TakeReturn")
  /\ IF returnRegister = None THEN Fail("NoReturnValue")
     ELSE IF ~Storable(top, Instr.to, returnRegister[1]) THEN Panic("Operation")
     ELSE Goto(Stored(top, Instr.to, returnRegister[1]), top.ip + 1, None)

Jump ==
  /\ Running("Jump")
  /\ Goto(top, Target(Instr, top.ip), returnRegister)

\* Mutant: a condition that does not hold skips an instruction.
JumpIfSkips ==
  /\ Running("JumpIf")
  /\ LET v == ArgValue(top, Instr.arg)
     IN  /\ v \in {Bool(TRUE), Bool(FALSE)}
         /\ Goto(top, IF v = Bool(Instr.on) THEN Target(Instr, top.ip)
                                            ELSE top.ip + 2, returnRegister)

JumpIf ==
  /\ Running("JumpIf")
  /\ LET v == ArgValue(top, Instr.arg)
     IN  IF v = NoVal THEN Panic("Unbound")
         ELSE IF v \notin {Bool(TRUE), Bool(FALSE)} THEN Fail("ExpectedBool")
         ELSE Goto(top, IF v = Bool(Instr.on) THEN Target(Instr, top.ip)
                                              ELSE top.ip + 1, returnRegister)

\* The arguments move out of the frame into the future, which is then polled.
StartBuiltin ==
  /\ status = "running"
  /\ top.fn \in Builtins
  /\ future' = top.args
  /\ top' = [top EXCEPT !.args = <<>>]
  /\ status' = "awaiting"
  /\ UNCHANGED <<prog, stack, returnRegister, result, error>>

\* The awaited future is ready.
ResolveBuiltin ==
  /\ status = "awaiting"
  /\ \E out \in Outcomes(top.fn, future) :
       \/ out.tag = "error" /\ Fail("Builtin")
       \/ out.tag = "panic" /\ Panic("Builtin")
       \/ out.tag = "value" /\ out.val \in Val /\ PopStack(out.val)

\* execute() leaves its loop and hands over the register.
Complete ==
  /\ status = "finished"
  /\ status' = "completed"
  /\ result' = IF returnRegister = None THEN Some(Unit) ELSE returnRegister
  /\ returnRegister' = None
  /\ UNCHANGED <<prog, top, stack, future, error>>

Settled == status \in {"completed", "failed", "panicked"}
Stopped == Settled /\ UNCHANGED vars

Step ==
  \/ Compute \/ FnCall \/ Return \/ TakeReturn \/ Jump \/ JumpIf
  \/ OutOfBounds \/ StartBuiltin \/ Complete

Next == Spawn \/ Step \/ ResolveBuiltin \/ Stopped

Spec == Init /\ [][Next]_vars

\* The host polls a spawned executor until it is ready; when a builtin's
\* future becomes ready is up to the host alone.
FairSpec == Spec /\ WF_vars(Step)

=============================================================================
