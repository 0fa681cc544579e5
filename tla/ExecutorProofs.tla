--------------------------- MODULE ExecutorProofs ---------------------------
(***************************************************************************)
(* Proofs about the executor for every program, whatever its functions,    *)
(* names, values and builtins: type correctness, the discipline of calls   *)
(* over the one return register, and the absence of machine faults.        *)
(***************************************************************************)
EXTENDS CallDiscipline, SequenceTheorems, WellFoundedInduction, TLAPS

-----------------------------------------------------------------------------
(* Environments and operands. *)

\* A name looked up in an activation gives a value or no binding (Env::get).
LEMMA LookupType ==
  ASSUME NEW frame \in ByteCodeStack, NEW n \in Names
  PROVE  Lookup(frame, n) \in Val \cup {NoVal}
BY DEF Lookup, ByteCodeStack, Env

\* Executor::fetch gives a value or no binding for every location.
LEMMA FetchType ==
  ASSUME NEW frame \in ByteCodeStack, NEW loc \in Location
  PROVE  Fetch(frame, loc) \in Val \cup {NoVal}
<1>1. CASE loc.kind = "Namespace"
  BY <1>1 DEF Fetch, Location, ByteCodeStack, Env
<1>2. CASE loc.kind = "Tmp"
  BY <1>2 DEF Fetch, Location, ByteCodeStack, Env
<1>3. CASE loc.kind = "Compound"
  BY <1>3 DEF Fetch
<1> QED BY <1>1, <1>2, <1>3 DEF Location

\* arg_to_value gives a value or no binding for every argument.
LEMMA ArgValueType ==
  ASSUME NEW frame \in ByteCodeStack, NEW arg \in Arg
  PROVE  ArgValue(frame, arg) \in Val \cup {NoVal}
<1>1. CASE arg.kind = "Lit"
  BY <1>1 DEF ArgValue, Arg, Location
<1>2. CASE arg.kind # "Lit"
  BY <1>2, FetchType DEF ArgValue, Arg
<1> QED BY <1>1, <1>2

\* Arguments none of which is unbound are a sequence of values.
LEMMA ArgValuesType ==
  ASSUME NEW frame \in ByteCodeStack, NEW args \in Seq(Arg),
         Bound(ArgValues(frame, args))
  PROVE  ArgValues(frame, args) \in Seq(Val)
<1>1. \A i \in 1 .. Len(args) : ArgValue(frame, args[i]) \in Val
  BY ArgValueType DEF Bound, ArgValues
<1> QED BY <1>1 DEF ArgValues

\* Executor::store leaves an activation of the same function at the same
\* address, provided the location can be stored to.
LEMMA StoredType ==
  ASSUME NEW frame \in ByteCodeStack, NEW loc \in Location, NEW v \in Val,
         Storable(frame, loc, v)
  PROVE  /\ Stored(frame, loc, v) \in ByteCodeStack
         /\ Stored(frame, loc, v).fn = frame.fn
         /\ Stored(frame, loc, v).ip = frame.ip
<1>1. loc.name \in Names /\ loc.kind \in {"Namespace", "Tmp", "Compound"}
  BY DEF Location
<1>2. CASE loc.kind = "Namespace"
  BY <1>1, <1>2 DEF Stored, ByteCodeStack, Env
<1>3. CASE loc.kind = "Tmp"
  BY <1>1, <1>3 DEF Stored, ByteCodeStack, Env
<1>4. CASE loc.kind = "Compound"
  <2>1. Updated(frame, loc, v) \in Val
    BY <1>4 DEF Storable
  <2> QED BY <1>1, <1>4, <2>1 DEF Stored, ByteCodeStack, Env
<1> QED BY <1>1, <1>2, <1>3, <1>4

\* A parameter named more than once is bound to the last argument for it.
LEMMA LastIndex ==
  ASSUME NEW n \in Nat, NEW at, at \subseteq 1 .. n, at # {}
  PROVE  \E i \in at : \A j \in at : j <= i
<1> DEFINE R == {ss \in Nat \X Nat : ss[1] < ss[2]}
           Dist == {n - i : i \in at}
<1> USE DEF Dist
<1>0. \A i \in at : i \in Int /\ i <= n /\ n - i \in Nat
  OBVIOUS
<1>1. Dist \subseteq Nat /\ Dist # {}
  BY <1>0
<1>2. IsWellFoundedOn(R, Nat)
  BY NatLessThanWellFounded, Zenon DEF OpToRel
<1>3. PICK d \in Dist : \A e \in Dist : <<e, d>> \notin R
  <2> HIDE DEF R, Dist
  <2> QED BY <1>1, <1>2, WFMin
<1>4. \A e \in Dist : ~(e < d)
  BY <1>1, <1>3
<1>5. PICK i \in at : d = n - i
  BY <1>3
<1>6. \A j \in at : ~(n - j < n - i)
  BY <1>4, <1>5
<1>7. \A j \in at : j <= i
  BY <1>0, <1>6
<1> QED BY <1>7

\* Executor::new binds only values in the module environment.
LEMMA ModuleEnvType ==
  ASSUME NEW p, IsProgram(p)
  PROVE  ModuleEnv(p) \in Env
<1> SUFFICES ASSUME NEW n \in Names,
                    \E f \in Fns \cup p.mapped : FnName[f] = n
             PROVE  FnVal(CHOOSE f \in Fns \cup p.mapped : FnName[f] = n) \in Val
  BY DEF ModuleEnv, Env
<1>1. (CHOOSE f \in Fns \cup p.mapped : FnName[f] = n) \in Callable
  BY DEF IsProgram, Callable
<1> QED BY <1>1, ValAssumption

\* Binding the arguments by the parameter names keeps an environment of values.
LEMMA ParamEnvType ==
  ASSUME NEW p, IsProgram(p), NEW f \in Fns, NEW args \in Seq(Val),
         Len(p.params[f]) = Len(args)
  PROVE  ParamEnv(p, f, args) \in Env
<1> SUFFICES ASSUME NEW n \in Names
             PROVE  LET at == {i \in DOMAIN p.params[f] : p.params[f][i] = n}
                    IN  (IF at = {} THEN ModuleEnv(p)[n]
                         ELSE args[CHOOSE i \in at : \A j \in at : j <= i])
                           \in Val \cup {NoVal}
  BY DEF ParamEnv, Env
<1> DEFINE at == {i \in DOMAIN p.params[f] : p.params[f][i] = n}
<1>1. CASE at = {}
  BY <1>1, ModuleEnvType DEF Env
<1>2. CASE at # {}
  <2>1. p.params[f] \in Seq(Names)
    BY DEF IsProgram
  <2>2. at \subseteq 1 .. Len(args)
    BY <2>1
  <2> HIDE DEF at
  <2>3. \E i \in at : \A j \in at : j <= i
    <3>1. Len(args) \in Nat
      OBVIOUS
    <3> QED BY <1>2, <2>2, <3>1, LastIndex
  <2>4. args[CHOOSE i \in at : \A j \in at : j <= i] \in Val
    <3> DEFINE last == CHOOSE i \in at : \A j \in at : j <= i
    <3>1. last \in at
      BY <2>3
    <3> HIDE DEF last
    <3>2. args[last] \in Val
      BY <2>2, <3>1
    <3> QED BY <3>2 DEF last
  <2> QED BY <1>2, <2>4 DEF at
<1> QED BY <1>1, <1>2

\* create_stack_info builds an activation of the kind its function is.
LEMMA NewFrameType ==
  ASSUME NEW p, IsProgram(p), NEW f \in Callable, NEW args \in Seq(Val),
         f \in Fns => Len(p.params[f]) = Len(args)
  PROVE  /\ f \in Fns => NewFrame(p, f, args) \in ByteCodeStack
         /\ f \in Builtins => NewFrame(p, f, args) \in BuiltinStack
<1>1. CASE f \in Fns
  BY <1>1, ParamEnvType, FnAssumption DEF NewFrame, ByteCodeStack, Env
<1>2. CASE f \in Builtins
  BY <1>2, FnAssumption DEF NewFrame, BuiltinStack
<1> QED BY <1>1, <1>2 DEF Callable

\* An activation of a builtin is not one of an SMPL function.
LEMMA FrameKinds == ByteCodeStack \cap BuiltinStack = {}
BY FnAssumption DEF ByteCodeStack, BuiltinStack

\* An instruction that runs is an instruction of the program.
LEMMA RunningType ==
  ASSUME TypeOK, NEW op, Running(op)
  PROVE  /\ top \in ByteCodeStack
         /\ Instr \in Instruction
         /\ Instr.op = op
         /\ Instr = Code(top.fn)[top.ip + 1]
<1>1. top \in ByteCodeStack
  BY FnAssumption DEF TypeOK, Running, BuiltinStack
<1>2. Code(top.fn) \in Seq(Instruction)
  BY DEF TypeOK, Running, IsProgram, Code
<1>3. top.ip + 1 \in 1 .. Len(Code(top.fn))
  BY <1>1, <1>2 DEF Running, ByteCodeStack
<1> QED BY <1>1, <1>2, <1>3 DEF Running, Instr

\* The operands each kind of instruction carries (byte_code.rs).
LEMMA InstructionFields ==
  ASSUME NEW i \in Instruction
  PROVE  /\ i.op = "Compute" => i.to \in Location /\ i.args \in Seq(Arg)
         /\ i.op = "FnCall" => i.fn \in Location /\ i.args \in Seq(Arg)
         /\ i.op = "TakeReturn" => i.to \in Location
         /\ i.op = "Return" => i.value \in Seq(Arg)
         /\ i.op = "Jump" => i.rel \in BOOLEAN /\ i.dest \in Int
         /\ i.op = "JumpIf" => i.rel \in BOOLEAN /\ i.dest \in Int /\ i.arg \in Arg
BY DEF Instruction

\* A jump goes to an integer, possibly one that is no address.
LEMMA TargetType ==
  ASSUME NEW i \in Instruction, i.op \in {"Jump", "JumpIf"}, NEW ip \in Nat
  PROVE  Target(i, ip) \in Int
BY InstructionFields DEF Target

-----------------------------------------------------------------------------
(* Type correctness: how a step may end, then the steps. *)

\* A step that fails or panics keeps the types.
LEMMA StopType ==
  ASSUME TypeOK, NEW how \in {"failed", "panicked"}, NEW reason, Stop(how, reason)
  PROVE  TypeOK'
BY DEF TypeOK, Stop, Status

\* A step to another address of the running function keeps the types.
LEMMA GotoType ==
  ASSUME TypeOK, NEW frame \in ByteCodeStack, NEW ip \in Int,
         NEW register \in Seq(Val), Len(register) <= 1,
         status = "running", Goto(frame, ip, register)
  PROVE  TypeOK'
<1>1. CASE ip < 0 \/ ip > MaxIP
  BY <1>1, StopType DEF Goto, Fail
<1>2. CASE ~(ip < 0 \/ ip > MaxIP)
  <2>1. [frame EXCEPT !.ip = ip] \in ByteCodeStack
    BY <1>2 DEF ByteCodeStack
  <2> QED BY <1>2, <2>1 DEF Goto, TypeOK
<1> QED BY <1>1, <1>2

\* Pushing the callee's activation keeps the types.
LEMMA EnterType ==
  ASSUME TypeOK, NEW f \in Callable, NEW args \in Seq(Val),
         NEW callers \in Seq(ByteCodeStack), Enter(f, args, callers)
  PROVE  TypeOK'
<1>1. CASE f \in Builtins /\ f \notin prog.mapped
  BY <1>1, StopType DEF Enter, Panic
<1>2. CASE f \in Fns /\ Len(prog.params[f]) # Len(args)
  BY <1>2, StopType, FnAssumption DEF Enter, Fail
<1>3. CASE /\ ~(f \in Builtins /\ f \notin prog.mapped)
           /\ ~(f \in Fns /\ Len(prog.params[f]) # Len(args))
  <2>1. NewFrame(prog, f, args) \in ByteCodeStack \cup BuiltinStack
    BY <1>3, NewFrameType DEF Callable, TypeOK
  <2> QED BY <1>3, <2>1 DEF Enter, TypeOK, Status
<1> QED BY <1>1, <1>2, <1>3

\* Popping an activation with a value keeps the types.
LEMMA PopType ==
  ASSUME TypeOK, NEW v \in Val, PopStack(v)
  PROVE  TypeOK'
<1>1. returnRegister' \in Seq(Val) /\ Len(returnRegister') <= 1
  BY DEF PopStack, Some
<1>2. CASE status' = "finished"
  BY <1>1, <1>2 DEF PopStack, TypeOK, Status
<1>3. CASE status' = "running"
  <2>1. stack # <<>>
    BY <1>3 DEF PopStack
  <2>2. stack[Len(stack)] \in ByteCodeStack
    BY <2>1 DEF TypeOK
  <2>3. SubSeq(stack, 1, Len(stack) - 1) \in Seq(ByteCodeStack)
    BY <2>1 DEF TypeOK
  <2>4. top' \in ByteCodeStack /\ stack' \in Seq(ByteCodeStack)
    BY <2>1, <2>2, <2>3 DEF PopStack
  <2>5. IsProgram(prog)' /\ future' \in Seq(Val) /\ result' \in Seq(Val)
    BY DEF PopStack, TypeOK
  <2> QED BY <1>1, <1>3, <2>4, <2>5 DEF TypeOK, Status
<1> QED BY <1>2, <1>3 DEF PopStack

\* Executor::new starts from components of their types.
LEMMA TypeInit == Init => TypeOK
BY ProgramAssumption DEF Init, TypeOK, Status, None

\* Every step of the executor keeps the types of its components.
LEMMA TypeStep ==
  ASSUME TypeOK, [Next]_vars
  PROVE  TypeOK'
<1> USE DEF Fail, Panic
<1>1. CASE Spawn
  <2>1. PICK s \in prog.entry : Enter(s[1], s[2], <<>>)
    BY <1>1 DEF Spawn
  <2>2. s[1] \in Callable /\ s[2] \in Seq(Val)
    BY DEF TypeOK, IsProgram
  <2>3. <<>> \in Seq(ByteCodeStack)
    OBVIOUS
  <2> QED BY <2>1, <2>2, <2>3, EnterType
<1>2. CASE Compute
  <2>1. /\ top \in ByteCodeStack /\ top.ip \in Nat
        /\ Instr.to \in Location /\ Instr.args \in Seq(Arg)
    BY <1>2, RunningType, InstructionFields DEF Compute, ByteCodeStack
  <2> DEFINE vals == ArgValues(top, Instr.args)
             out == Eval(Instr.fn, vals)
  <2> HIDE DEF vals, out
  <2>2. CASE /\ Bound(vals) /\ out.val \in Val /\ Storable(top, Instr.to, out.val)
             /\ Goto(Stored(top, Instr.to, out.val), top.ip + 1, returnRegister)
    <3>1. Stored(top, Instr.to, out.val) \in ByteCodeStack
      BY <2>1, <2>2, StoredType
    <3>2. status = "running" /\ returnRegister \in Seq(Val) /\ Len(returnRegister) <= 1
      BY <1>2 DEF Compute, Running, TypeOK
    <3> QED BY <2>1, <2>2, <3>1, <3>2, GotoType
  <2>3. CASE \E how \in {"failed", "panicked"}, reason \in {"Unbound", "Operand", "Operation"} :
               Stop(how, reason)
    BY <2>3, StopType
  <2> QED BY <1>2, <2>2, <2>3 DEF Compute, vals, out
<1>3. CASE FnCall
  <2>1. /\ top \in ByteCodeStack /\ top.ip \in Nat
        /\ Instr.fn \in Location /\ Instr.args \in Seq(Arg)
    BY <1>3, RunningType, InstructionFields DEF FnCall, ByteCodeStack
  <2> DEFINE callee == Fetch(top, Instr.fn)
             vals == ArgValues(top, Instr.args)
             caller == [top EXCEPT !.ip = @ + 1]
  <2> HIDE DEF callee, vals
  <2>2. CASE /\ \E f \in Callable : callee = FnVal(f)
             /\ Bound(vals)
             /\ Enter(callee[2], vals, Append(stack, caller))
    <3>1. callee[2] \in Callable
      BY <2>2 DEF FnVal
    <3>2. vals \in Seq(Val)
      BY <2>1, <2>2, ArgValuesType DEF vals
    <3>3. caller \in ByteCodeStack
      BY <2>1 DEF ByteCodeStack
    <3>4. Append(stack, caller) \in Seq(ByteCodeStack)
      BY <3>3 DEF TypeOK
    <3> QED BY <2>2, <3>1, <3>2, <3>4, EnterType
  <2>3. CASE \E how \in {"failed", "panicked"},
                reason \in {"Unbound", "ExpectedFunction", "IPOverflow"} :
               Stop(how, reason)
    BY <2>3, StopType
  <2> QED BY <1>3, <2>2, <2>3 DEF FnCall, callee, vals
<1>4. CASE Return
  <2>1. top \in ByteCodeStack /\ Instr.value \in Seq(Arg)
    BY <1>4, RunningType, InstructionFields DEF Return
  <2> DEFINE vals == ArgValues(top, Instr.value)
             v == IF vals = <<>> THEN Unit ELSE vals[1]
  <2>2. CASE Bound(vals) /\ PopStack(v)
    <3>1. vals \in Seq(Val)
      BY <2>1, <2>2, ArgValuesType
    <3> HIDE DEF vals
    <3>2. v \in Val
      BY <3>1, ValAssumption
    <3> QED BY <2>2, <3>2, PopType
  <2> QED BY <1>4, <2>2, StopType DEF Return
<1>5. CASE TakeReturn
  <2>1. top \in ByteCodeStack /\ top.ip \in Nat /\ Instr.to \in Location
    BY <1>5, RunningType, InstructionFields DEF TakeReturn, ByteCodeStack
  <2>2. CASE /\ returnRegister # None
             /\ Storable(top, Instr.to, returnRegister[1])
             /\ Goto(Stored(top, Instr.to, returnRegister[1]), top.ip + 1, None)
    <3>1. returnRegister[1] \in Val
      BY <2>2 DEF TypeOK, None
    <3>2. Stored(top, Instr.to, returnRegister[1]) \in ByteCodeStack
      BY <2>1, <2>2, <3>1, StoredType
    <3>3. status = "running"
      BY <1>5 DEF TakeReturn, Running
    <3>4. None \in Seq(Val) /\ Len(None) <= 1
      BY DEF None
    <3> QED BY <2>1, <2>2, <3>2, <3>3, <3>4, GotoType
  <2> QED BY <1>5, <2>2, StopType DEF TakeReturn
<1>6. CASE Jump
  <2>1. top \in ByteCodeStack /\ Target(Instr, top.ip) \in Int
    BY <1>6, RunningType, TargetType DEF Jump, ByteCodeStack
  <2> QED BY <1>6, <2>1, GotoType DEF Jump, Running, TypeOK
<1>7. CASE JumpIf
  <2>1. top \in ByteCodeStack /\ Target(Instr, top.ip) \in Int /\ top.ip + 1 \in Int
    BY <1>7, RunningType, TargetType DEF JumpIf, ByteCodeStack
  <2>2. CASE Goto(top, Target(Instr, top.ip), returnRegister)
             \/ Goto(top, top.ip + 1, returnRegister)
    BY <1>7, <2>1, <2>2, GotoType DEF JumpIf, Running, TypeOK
  <2> QED BY <1>7, <2>2, StopType DEF JumpIf
<1>8. CASE OutOfBounds
  BY <1>8, StopType DEF OutOfBounds
<1>9. CASE StartBuiltin
  <2>1. top \in BuiltinStack
    BY <1>9, FnAssumption DEF StartBuiltin, TypeOK, ByteCodeStack
  <2>2. top.args \in Seq(Val) /\ <<>> \in Seq(Val)
    BY <2>1 DEF BuiltinStack
  <2>3. [top EXCEPT !.args = <<>>] \in BuiltinStack
    BY <2>1, <2>2 DEF BuiltinStack
  <2> QED BY <1>9, <2>2, <2>3 DEF StartBuiltin, TypeOK, Status
<1>10. CASE ResolveBuiltin
  BY <1>10, StopType, PopType DEF ResolveBuiltin
<1>11. CASE Complete
  BY <1>11, ValAssumption DEF Complete, TypeOK, Status, None, Some
<1>12. CASE UNCHANGED vars
  BY <1>12 DEF vars, TypeOK, IsProgram
<1> QED BY <1>1, <1>2, <1>3, <1>4, <1>5, <1>6, <1>7, <1>8, <1>9, <1>10,
           <1>11, <1>12 DEF Next, Step, Stopped

\* The state components keep their types in every run.
THEOREM TypeCorrect == Spec => []TypeOK
BY TypeInit, TypeStep, PTL DEF Spec

-----------------------------------------------------------------------------
(* The discipline of calls. *)

\* No step changes the program that is executed.
LEMMA ProgramFixed ==
  ASSUME [Next]_vars
  PROVE  prog' = prog
BY DEF Next, Step, Stopped, Spawn, Compute, FnCall, Return, TakeReturn, Jump,
       JumpIf, OutOfBounds, StartBuiltin, ResolveBuiltin, Complete, Enter,
       Goto, PopStack, Stop, Fail, Panic, vars

\* Where a well-formed function goes on from a reachable address.
LEMMA FlowStep ==
  ASSUME TypeOK, WellFormed(prog), PointerInFlow, NEW op, Running(op),
         NEW b, b \in Successors(Code(top.fn), top.ip)
  PROVE  /\ b \in Flow(prog, top.fn)
         /\ b \in 0 .. Len(Code(top.fn)) - 1
         /\ b \in Int /\ 0 <= b /\ b <= MaxIP
         /\ (op = "FnCall" /\ b = top.ip + 1) =>
              Code(top.fn)[b + 1].op = "TakeReturn"
         /\ op # "FnCall" => Code(top.fn)[b + 1].op # "TakeReturn"
<1> DEFINE code == Code(top.fn)
           flow == Flow(prog, top.fn)
<1>1. CodeOK(code, flow)
  BY DEF Running, WellFormed, Code
<1>2. top.ip \in flow /\ top.ip \in Nat /\ code[top.ip + 1].op = op
  BY RunningType DEF Running, PointerInFlow, ByteCodeStack
<1>3. code \in Seq(Instruction)
  BY DEF TypeOK, IsProgram, Running, Code
<1> HIDE DEF code, flow
<1>4. b \in flow
  BY <1>1, <1>2 DEF CodeOK, code
<1>5. b \in 0 .. Len(code) - 1
  BY <1>1, <1>4 DEF CodeOK, Addresses
<1>6. b <= MaxIP
  BY <1>1, <1>3, <1>5, IPAssumption DEF CodeOK
<1>7. b = top.ip + 1 /\ op = "FnCall" => code[b + 1].op = "TakeReturn"
  BY <1>1, <1>2 DEF CodeOK
<1>8. op # "FnCall" => code[b + 1].op # "TakeReturn"
  BY <1>1, <1>2 DEF CodeOK, code
<1> QED BY <1>4, <1>5, <1>6, <1>7, <1>8 DEF code, flow

\* An instruction other than TakeReturn finds the register empty.
LEMMA RegisterEmpty ==
  ASSUME TypeOK, WellFormed(prog), RegisterIsAnswer, NEW op, Running(op),
         op # "TakeReturn"
  PROVE  returnRegister = None
BY RunningType DEF RegisterIsAnswer, Running, AtTakeReturn, Instr

\* A step that fails or panics keeps the call discipline.
LEMMA StopKeeps ==
  ASSUME Discipline, NEW how \in {"failed", "panicked"}, NEW reason, Stop(how, reason)
  PROVE  (CallersWait /\ RegisterIsAnswer /\ PointerInFlow)'
BY DEF Stop, Discipline, CallersWait, RegisterIsAnswer, PointerInFlow, Suspended,
       AtTakeReturn, Code

\* An instruction that goes on inside its function, with the register empty.
LEMMA GotoKeeps ==
  ASSUME Discipline, WellFormed(prog), NEW op, Running(op), op # "FnCall",
         NEW frame \in ByteCodeStack, frame.fn = top.fn,
         NEW ip \in Successors(Code(top.fn), top.ip), Goto(frame, ip, None)
  PROVE  (CallersWait /\ RegisterIsAnswer /\ PointerInFlow)'
<1>1. /\ ip \in Flow(prog, top.fn) /\ ip \in Int /\ 0 <= ip /\ ip <= MaxIP
      /\ Code(top.fn)[ip + 1].op # "TakeReturn"
  BY FlowStep DEF Discipline
<1>2. /\ top' = [frame EXCEPT !.ip = ip]
      /\ returnRegister' = None
      /\ UNCHANGED <<prog, stack, status>>
  BY <1>1, IPAssumption DEF Goto
<1>3. top'.fn = top.fn /\ top'.ip = ip
  BY <1>2 DEF ByteCodeStack
<1>4. CallersWait'
  BY <1>2 DEF Discipline, CallersWait, Suspended, AtTakeReturn, Code
<1>5. PointerInFlow'
  BY <1>1, <1>2, <1>3 DEF PointerInFlow
<1>6. RegisterIsAnswer'
  BY <1>1, <1>2, <1>3 DEF RegisterIsAnswer, AtTakeReturn, Code, Running
<1> QED BY <1>4, <1>5, <1>6

\* A new activation starts at an address that takes nothing.
LEMMA EnterKeeps ==
  ASSUME Discipline, WellFormed(prog), returnRegister = None,
         NEW f \in Callable, NEW args, NEW callers \in Seq(ByteCodeStack),
         \A i \in DOMAIN callers : Suspended(callers[i]),
         status = "idle" \/ status = "running",
         Enter(f, args, callers)
  PROVE  (CallersWait /\ RegisterIsAnswer /\ PointerInFlow)'
<1>1. CASE \E how \in {"failed", "panicked"} : \E reason : Stop(how, reason)
  BY <1>1, StopKeeps
<1>2. CASE /\ top' = NewFrame(prog, f, args)
           /\ stack' = callers
           /\ status' = "running"
           /\ UNCHANGED <<prog, returnRegister>>
  <2>1. CallersWait'
    BY <1>2 DEF CallersWait, Suspended, AtTakeReturn, Code
  <2>2. CASE f \in Fns
    <3>1. top'.fn = f /\ top'.ip = 0
      BY <1>2, <2>2, FnAssumption DEF NewFrame
    <3>2. 0 \in Flow(prog, f) /\ Code(f)[1].op # "TakeReturn"
      BY <2>2 DEF WellFormed, CodeOK, Code
    <3>3. ~AtTakeReturn(top)' /\ (top.ip \in Flow(prog, top.fn))'
      BY <1>2, <3>1, <3>2 DEF AtTakeReturn, Code
    <3> QED BY <1>2, <2>1, <3>3 DEF RegisterIsAnswer, PointerInFlow
  <2>3. CASE f \in Builtins
    <3>1. top'.fn = f /\ f \notin Fns
      BY <1>2, <2>3, FnAssumption DEF NewFrame
    <3> QED BY <1>2, <2>1, <3>1 DEF RegisterIsAnswer, PointerInFlow
  <2> QED BY <2>2, <2>3 DEF Callable
<1> QED BY <1>1, <1>2 DEF Enter, Fail, Panic

\* A caller that goes on finds its answer where it waits for it.
LEMMA PopKeeps ==
  ASSUME Discipline, WellFormed(prog), NEW v \in Val, PopStack(v)
  PROVE  (CallersWait /\ RegisterIsAnswer /\ PointerInFlow)'
<1>1. returnRegister' # None /\ prog' = prog
  BY DEF PopStack, Some, None
<1>2. CASE stack = <<>> /\ status' = "finished" /\ stack' = stack
  BY <1>1, <1>2 DEF CallersWait, RegisterIsAnswer, PointerInFlow
<1>3. CASE /\ stack # <<>> /\ status' = "running" /\ top' = stack[Len(stack)]
           /\ stack' = SubSeq(stack, 1, Len(stack) - 1)
  <2>1. /\ stack \in Seq(ByteCodeStack)
        /\ \A i \in DOMAIN stack : Suspended(stack[i])
    BY DEF Discipline, TypeOK, CallersWait
  <2>2. Len(stack) \in DOMAIN stack
    BY <1>3, <2>1
  <2>3. stack[Len(stack)] \in ByteCodeStack /\ Suspended(stack[Len(stack)])
    BY <2>1, <2>2
  <2>4. top'.fn \in Fns /\ AtTakeReturn(top)' /\ (top.ip \in Flow(prog, top.fn))'
    BY <1>1, <1>3, <2>3 DEF Suspended, AtTakeReturn, Code, ByteCodeStack
  <2>5. \A i \in DOMAIN stack' : i \in DOMAIN stack /\ stack'[i] = stack[i]
    BY <1>3, <2>1
  <2>6. CallersWait'
    BY <1>1, <2>1, <2>5 DEF CallersWait, Suspended, AtTakeReturn, Code
  <2> QED BY <1>1, <1>3, <2>4, <2>6 DEF RegisterIsAnswer, PointerInFlow
<1> QED BY <1>2, <1>3 DEF PopStack

\* The call discipline holds of a new executor.
LEMMA DisciplineInit == Init => Discipline
<1>1. Init => CallersWait /\ RegisterIsAnswer /\ PointerInFlow
  BY DEF Init, CallersWait, RegisterIsAnswer, PointerInFlow
<1> QED BY <1>1, TypeInit DEF Discipline

\* Every step of the executor on well-formed code keeps the call discipline.
LEMMA DisciplineStep ==
  ASSUME Discipline, [Next]_vars
  PROVE  Discipline'
<1>1. TypeOK'
  BY TypeStep DEF Discipline
<1> SUFFICES ASSUME WellFormed(prog)
             PROVE  (CallersWait /\ RegisterIsAnswer /\ PointerInFlow)'
  <2>1. WellFormed(prog)' => WellFormed(prog)
    BY ProgramFixed DEF WellFormed
  <2> QED BY <1>1, <2>1 DEF Discipline, CallersWait, RegisterIsAnswer, PointerInFlow
<1> USE DEF Fail, Panic
<1>2. CASE Spawn
  <2>1. PICK s \in prog.entry : Enter(s[1], s[2], <<>>)
    BY <1>2 DEF Spawn
  <2>2. s[1] \in Callable
    BY DEF Discipline, TypeOK, IsProgram
  <2>3. returnRegister = None /\ status = "idle"
    BY <1>2 DEF Spawn, Discipline, RegisterIsAnswer
  <2>4. <<>> \in Seq(ByteCodeStack) /\ DOMAIN <<>> = {}
    OBVIOUS
  <2> QED BY <2>1, <2>2, <2>3, <2>4, EnterKeeps
<1>3. CASE Compute
  <2>1. Running("Compute") /\ top \in ByteCodeStack /\ Instr.to \in Location
    BY <1>3, RunningType, InstructionFields DEF Compute, Discipline
  <2>2. top.ip + 1 \in Successors(Code(top.fn), top.ip) /\ returnRegister = None
    BY <2>1, RunningType, RegisterEmpty DEF Successors, Discipline
  <2>3. CASE \E v \in Val : /\ Storable(top, Instr.to, v)
                            /\ Goto(Stored(top, Instr.to, v), top.ip + 1, returnRegister)
    BY <2>1, <2>2, <2>3, StoredType, GotoKeeps
  <2> QED BY <1>3, <2>3, StopKeeps DEF Compute
<1>4. CASE FnCall
  <2> DEFINE caller == [top EXCEPT !.ip = @ + 1]
             callee == Fetch(top, Instr.fn)
             vals == ArgValues(top, Instr.args)
  <2>1. Running("FnCall") /\ top \in ByteCodeStack /\ Instr.fn \in Location
    BY <1>4, RunningType, InstructionFields DEF FnCall, Discipline
  <2>2. CASE /\ \E f \in Callable : callee = FnVal(f)
             /\ Enter(callee[2], vals, Append(stack, caller))
    <3>1. callee[2] \in Callable
      BY <2>2 DEF FnVal
    <3>2. caller \in ByteCodeStack /\ caller.fn = top.fn /\ caller.ip = top.ip + 1
      BY <2>1 DEF ByteCodeStack
    <3>3. Suspended(caller)
      <4>1. top.ip + 1 \in Successors(Code(top.fn), top.ip)
        BY <2>1, RunningType DEF Successors, Discipline
      <4> QED BY <2>1, <3>2, <4>1, FlowStep DEF Suspended, AtTakeReturn, Discipline
    <3>4. stack \in Seq(ByteCodeStack) /\ \A i \in DOMAIN stack : Suspended(stack[i])
      BY DEF Discipline, TypeOK, CallersWait
    <3>5. /\ Append(stack, caller) \in Seq(ByteCodeStack)
          /\ \A i \in DOMAIN Append(stack, caller) : Suspended(Append(stack, caller)[i])
      <4> HIDE DEF caller
      <4> QED BY <3>2, <3>3, <3>4
    <3>6. returnRegister = None /\ status = "running"
      BY <2>1, RegisterEmpty DEF Discipline, Running
    <3> HIDE DEF caller, callee, vals
    <3> QED BY <2>2, <3>1, <3>5, <3>6, EnterKeeps
  <2> QED BY <1>4, <2>2, StopKeeps DEF FnCall
<1>5. CASE Return
  <2> DEFINE vals == ArgValues(top, Instr.value)
             v == IF vals = <<>> THEN Unit ELSE vals[1]
  <2>1. top \in ByteCodeStack /\ Instr.value \in Seq(Arg)
    BY <1>5, RunningType, InstructionFields DEF Return, Discipline
  <2>2. CASE Bound(vals) /\ PopStack(v)
    <3>1. vals \in Seq(Val)
      BY <2>1, <2>2, ArgValuesType
    <3> HIDE DEF vals
    <3>2. v \in Val
      BY <3>1, ValAssumption
    <3> QED BY <2>2, <3>2, PopKeeps
  <2> QED BY <1>5, <2>2, StopKeeps DEF Return
<1>6. CASE TakeReturn
  <2>1. Running("TakeReturn") /\ top \in ByteCodeStack /\ Instr.to \in Location
    BY <1>6, RunningType, InstructionFields DEF TakeReturn, Discipline
  <2>2. top.ip + 1 \in Successors(Code(top.fn), top.ip)
    BY <2>1, RunningType DEF Successors, Discipline
  <2>3. CASE /\ returnRegister # None
             /\ Storable(top, Instr.to, returnRegister[1])
             /\ Goto(Stored(top, Instr.to, returnRegister[1]), top.ip + 1, None)
    <3>1. returnRegister[1] \in Val
      BY <2>3 DEF Discipline, TypeOK, None
    <3> QED BY <2>1, <2>2, <2>3, <3>1, StoredType, GotoKeeps
  <2> QED BY <1>6, <2>3, StopKeeps DEF TakeReturn
<1>7. CASE Jump
  <2>1. Running("Jump") /\ top \in ByteCodeStack
    BY <1>7, RunningType DEF Jump, Discipline
  <2>2. Target(Instr, top.ip) \in Successors(Code(top.fn), top.ip) /\ returnRegister = None
    BY <2>1, RunningType, RegisterEmpty DEF Successors, Discipline
  <2> QED BY <1>7, <2>1, <2>2, GotoKeeps DEF Jump
<1>8. CASE JumpIf
  <2>1. Running("JumpIf") /\ top \in ByteCodeStack
    BY <1>8, RunningType DEF JumpIf, Discipline
  <2>2. /\ {Target(Instr, top.ip), top.ip + 1} \subseteq Successors(Code(top.fn), top.ip)
        /\ returnRegister = None
    BY <2>1, RunningType, RegisterEmpty DEF Successors, Discipline
  <2>3. CASE Goto(top, Target(Instr, top.ip), returnRegister)
             \/ Goto(top, top.ip + 1, returnRegister)
    BY <2>1, <2>2, <2>3, GotoKeeps
  <2> QED BY <1>8, <2>3, StopKeeps DEF JumpIf
<1>9. CASE OutOfBounds
  BY <1>9, StopKeeps DEF OutOfBounds
<1>10. CASE StartBuiltin
  <2>1. top \in BuiltinStack /\ top.fn \notin Fns
    BY <1>10, FnAssumption DEF StartBuiltin, Discipline, TypeOK, ByteCodeStack
  <2>2. returnRegister = None
    BY <1>10, <2>1 DEF StartBuiltin, Discipline, RegisterIsAnswer
  <2> QED BY <1>10, <2>2 DEF StartBuiltin, Discipline, CallersWait, RegisterIsAnswer,
                             PointerInFlow, Suspended, AtTakeReturn, Code
<1>11. CASE ResolveBuiltin
  BY <1>11, StopKeeps, PopKeeps DEF ResolveBuiltin
<1>12. CASE Complete
  BY <1>12 DEF Complete, Discipline, CallersWait, RegisterIsAnswer, PointerInFlow,
               Suspended, AtTakeReturn, Code
<1>13. CASE UNCHANGED vars
  BY <1>13 DEF vars, Discipline, CallersWait, RegisterIsAnswer, PointerInFlow,
               Suspended, AtTakeReturn, Code
<1> QED BY <1>2, <1>3, <1>4, <1>5, <1>6, <1>7, <1>8, <1>9, <1>10, <1>11, <1>12,
           <1>13 DEF Next, Step, Stopped

\* In every run of every well-formed program, callers wait at their
\* TakeReturn and the shared register holds an answer exactly when the running
\* activation is about to take it.
THEOREM CallsDisciplined == Spec => [](CallersWait /\ RegisterIsAnswer /\ PointerInFlow)
<1>1. Discipline => CallersWait /\ RegisterIsAnswer /\ PointerInFlow
  BY DEF Discipline
<1> QED BY <1>1, DisciplineInit, DisciplineStep, PTL DEF Spec

\* Execution never answers the wrong call: the shared register holds a value
\* only when the activation on top is the one that takes it.
THEOREM RegisterAnswers == Spec => []RegisterIsAnswer
BY CallsDisciplined, PTL

\* No jump, branch or call leaves the code of the function that runs.
THEOREM PointerStays == Spec => []PointerInFlow
BY CallsDisciplined, PTL

-----------------------------------------------------------------------------
(* Machine faults. *)

\* In well-formed code the next instruction pointer is always a u64.
LEMMA GotoGoesOn ==
  ASSUME Discipline, WellFormed(prog), NEW op, Running(op), NEW frame, NEW register,
         NEW ip \in Successors(Code(top.fn), top.ip), Goto(frame, ip, register)
  PROVE  status' = "running"
<1>1. ip \in Int /\ 0 <= ip /\ ip <= MaxIP
  BY FlowStep DEF Discipline
<1> QED BY <1>1, IPAssumption DEF Goto, Running

\* Entering a callee may fail, but not with an error of the machine itself.
LEMMA EnterFaultless ==
  ASSUME NEW f, NEW args, NEW callers, Enter(f, args, callers)
  PROVE  status' = "failed" => error' \notin MachineFaults
BY DEF Enter, Panic, Fail, Stop, MachineFaults

\* No step of well-formed code reports an error of the machine itself.
LEMMA FaultStep ==
  ASSUME Discipline, NoMachineFault, [Next]_vars
  PROVE  NoMachineFault'
<1> SUFFICES ASSUME WellFormed(prog), status' = "failed"
             PROVE  error' \notin MachineFaults
  <2>1. WellFormed(prog)' => WellFormed(prog)
    BY ProgramFixed DEF WellFormed
  <2> QED BY <2>1 DEF NoMachineFault
<1> USE DEF Fail, Panic, Stop, MachineFaults
<1>1. CASE Spawn
  BY <1>1, EnterFaultless DEF Spawn
<1>2. CASE Compute
  <2>1. Running("Compute") /\ top.ip + 1 \in Successors(Code(top.fn), top.ip)
    BY <1>2, RunningType DEF Compute, Successors, Discipline
  <2>2. \A frame, register : ~Goto(frame, top.ip + 1, register)
    BY <2>1, GotoGoesOn
  <2> QED BY <1>2, <2>2 DEF Compute
<1>3. CASE FnCall
  <2>1. Running("FnCall") /\ top.ip + 1 \in Successors(Code(top.fn), top.ip)
    BY <1>3, RunningType DEF FnCall, Successors, Discipline
  <2>2. top.ip + 1 <= MaxIP
    BY <2>1, FlowStep DEF Discipline
  <2>3. ~(top.ip + 1 > MaxIP)
    <3>1. top.ip + 1 \in Int
      BY <2>1, FlowStep DEF Discipline
    <3> QED BY <2>2, <3>1, IPAssumption
  <2> QED BY <1>3, <2>3, EnterFaultless DEF FnCall
<1>4. CASE Return
  BY <1>4 DEF Return, PopStack
<1>5. CASE TakeReturn
  <2>1. Running("TakeReturn") /\ top.ip + 1 \in Successors(Code(top.fn), top.ip)
    BY <1>5, RunningType DEF TakeReturn, Successors, Discipline
  <2>2. \A frame, register : ~Goto(frame, top.ip + 1, register)
    BY <2>1, GotoGoesOn
  <2>3. returnRegister # None
    BY <2>1, RunningType DEF Discipline, RegisterIsAnswer, Running, AtTakeReturn, Instr
  <2> QED BY <1>5, <2>2, <2>3 DEF TakeReturn
<1>6. CASE Jump
  <2>1. Running("Jump") /\ Target(Instr, top.ip) \in Successors(Code(top.fn), top.ip)
    BY <1>6, RunningType DEF Jump, Successors, Discipline
  <2> QED BY <1>6, <2>1, GotoGoesOn DEF Jump
<1>7. CASE JumpIf
  <2>1. /\ Running("JumpIf")
        /\ {Target(Instr, top.ip), top.ip + 1} \subseteq Successors(Code(top.fn), top.ip)
    BY <1>7, RunningType DEF JumpIf, Successors, Discipline
  <2>2. CASE Goto(top, Target(Instr, top.ip), returnRegister)
             \/ Goto(top, top.ip + 1, returnRegister)
    BY <2>1, <2>2, GotoGoesOn
  <2> QED BY <1>7, <2>2 DEF JumpIf
<1>8. CASE OutOfBounds
  <2>1. top \in ByteCodeStack /\ Code(top.fn) \in Seq(Instruction)
    BY <1>8, FnAssumption
       DEF OutOfBounds, Discipline, TypeOK, IsProgram, Code, BuiltinStack
  <2>2. top.ip \in Addresses(Code(top.fn))
    BY <1>8 DEF OutOfBounds, Discipline, PointerInFlow, WellFormed, CodeOK, Code
  <2> QED BY <1>8, <2>1, <2>2 DEF OutOfBounds, Addresses, ByteCodeStack
<1>9. CASE StartBuiltin
  BY <1>9 DEF StartBuiltin
<1>10. CASE ResolveBuiltin
  BY <1>10 DEF ResolveBuiltin, PopStack
<1>11. CASE Complete
  BY <1>11 DEF Complete
<1>12. CASE UNCHANGED vars
  BY <1>12 DEF vars, NoMachineFault
<1> QED BY <1>1, <1>2, <1>3, <1>4, <1>5, <1>6, <1>7, <1>8, <1>9, <1>10, <1>11,
           <1>12 DEF Next, Step, Stopped

\* Well-formed code never runs off its end, jumps out of u64 or looks for an
\* answer that is not there.
THEOREM NoMachineFaults == Spec => []NoMachineFault
<1>1. Init => NoMachineFault
  BY DEF Init, NoMachineFault
<1> QED BY <1>1, DisciplineInit, DisciplineStep, FaultStep, PTL DEF Spec

-----------------------------------------------------------------------------
(* The executor implements the protocol of calls. *)

\* The activations of an executor with these suspended callers on the stack
\* and this frame on top.
LEMMA ActsShape ==
  ASSUME NEW s \in Seq(ByteCodeStack), NEW t, NEW r
  PROVE  LET a == Append(Waiting(s), Act(t, r))
         IN  /\ Len(a) = Len(s) + 1 /\ Len(a) \in Nat
             /\ a # <<>>
             /\ SubSeq(a, 1, Len(a) - 1) = Waiting(s)
             /\ a[Len(a)] = Act(t, r)
             /\ a[Len(s) + 1] = Act(t, r)
             /\ \A i \in 1 .. Len(s) : a[i] = Act(s[i], None)
             /\ Len(Waiting(s)) = Len(s)
             /\ \A i \in 1 .. Len(s) : Waiting(s)[i] = Act(s[i], None)
<1> DEFINE w == Waiting(s)
           a == Append(w, Act(t, r))
           S == {Act(s[i], None) : i \in 1 .. Len(s)} \cup {Act(t, r)}
<1>1. w \in Seq(S) /\ Len(w) = Len(s) /\ \A i \in 1 .. Len(s) : w[i] = Act(s[i], None)
  BY DEF Waiting
<1>2. Act(t, r) \in S
  OBVIOUS
<1> HIDE DEF w, S
<1>3. /\ a \in Seq(S) /\ a # <<>> /\ Len(a) = Len(w) + 1
      /\ \A i \in 1 .. Len(w) : a[i] = w[i]
      /\ a[Len(w) + 1] = Act(t, r)
  BY <1>1, <1>2, AppendProperties
<1>4. Len(w) \in Nat
  BY <1>1
<1> HIDE DEF a
<1>5. SubSeq(a, 1, Len(a) - 1) = w
  <2>1. SubSeq(a, 1, Len(w)) \in Seq(S) /\ Len(SubSeq(a, 1, Len(w))) = Len(w)
        /\ \A i \in 1 .. Len(w) : SubSeq(a, 1, Len(w))[i] = a[i]
    BY <1>3, <1>4
  <2>2. SubSeq(a, 1, Len(w)) = w
    BY <1>1, <1>3, <2>1, SeqEqual
  <2> QED BY <1>3, <1>4, <2>2
<1> QED BY <1>1, <1>3, <1>4, <1>5 DEF a, w

\* A step that fails or panics is an Abort of the call protocol.
LEMMA StopAborts ==
  ASSUME status \in {"idle", "running", "awaiting"},
         NEW how \in {"failed", "panicked"}, NEW reason, Stop(how, reason)
  PROVE  Protocol!Next
BY DEF Stop, Protocol!Next, Protocol!Abort, Acts, Outcome, None

\* A step that only changes the running activation, from and to a state in
\* which its answer slot is empty.
LEMMA WorkStep ==
  ASSUME Discipline, Discipline', status \in {"running", "awaiting"},
         status' \in {"running", "awaiting"}, stack' = stack,
         top'.fn = top.fn, returnRegister' = None
  PROVE  Protocol!Next
<1>1. stack \in Seq(ByteCodeStack)
  BY DEF Discipline, TypeOK
<1>2. /\ Acts = Append(Waiting(stack), Act(top, returnRegister))
      /\ Acts' = Append(Waiting(stack), Act(top', None))
  BY DEF Acts, Waiting, Act
<1>3. Outcome = <<>> /\ Outcome' = <<>>
  BY DEF Outcome, None
<1>4. /\ Protocol!Active
      /\ Protocol!Last.fn = top.fn /\ Protocol!Last.answer = returnRegister
      /\ Protocol!Callers = Waiting(stack)
  BY <1>1, <1>2, <1>3, ActsShape DEF Protocol!Active, Protocol!Last, Protocol!Callers, Act
<1>5. Protocol!TopIs(Waiting(stack), top.fn, <<>>)
  BY <1>1, <1>2, ActsShape DEF Protocol!TopIs, Act, None
<1>6. CASE returnRegister = <<>>
  BY <1>3, <1>4, <1>5, <1>6 DEF Protocol!Next, Protocol!Work
<1>7. CASE returnRegister # <<>>
  BY <1>3, <1>4, <1>5, <1>7 DEF Protocol!Next, Protocol!Receive
<1> QED BY <1>6, <1>7

\* Spawning an executor is a Begin of the call protocol, or an Abort.
LEMMA BeginStep ==
  ASSUME Discipline, WellFormed(prog), status = "idle", NEW f \in Callable,
         NEW args, Enter(f, args, <<>>)
  PROVE  Protocol!Next
<1>1. CASE \E how \in {"failed", "panicked"} : \E reason : Stop(how, reason)
  BY <1>1, StopAborts
<1>2. CASE /\ top' = NewFrame(prog, f, args) /\ stack' = <<>> /\ status' = "running"
           /\ UNCHANGED returnRegister
  <2>1. returnRegister = None /\ <<>> \in Seq(ByteCodeStack)
    BY DEF Discipline, RegisterIsAnswer
  <2>2. Acts = <<>> /\ Outcome = <<>> /\ Outcome' = <<>>
    BY <1>2 DEF Acts, Outcome, None
  <2>3. Acts' = Append(Waiting(<<>>), Act(top', None))
    BY <1>2, <2>1 DEF Acts
  <2>4. top'.fn = f
    BY <1>2 DEF NewFrame
  <2>5. SubSeq(Acts', 1, 0) = <<>> /\ Len(Acts') = 1 /\ Acts'[1] = Act(top', None)
    <3>1. Waiting(<<>>) = <<>>
      BY DEF Waiting
    <3> QED BY <2>1, <2>3, <3>1, ActsShape
  <2>6. Protocol!TopIs(<<>>, f, <<>>)
    BY <2>4, <2>5 DEF Protocol!TopIs, Act, None
  <2> QED BY <2>2, <2>6 DEF Protocol!Next, Protocol!Begin
<1> QED BY <1>1, <1>2 DEF Enter, Panic, Fail

\* Entering the callee over its suspended caller is an Invoke, or an Abort.
LEMMA InvokeStep ==
  ASSUME Discipline, status = "running", returnRegister = None,
         NEW caller \in ByteCodeStack, caller.fn = top.fn,
         NEW f \in Callable, NEW args, Enter(f, args, Append(stack, caller))
  PROVE  Protocol!Next
<1>1. CASE \E how \in {"failed", "panicked"} : \E reason : Stop(how, reason)
  BY <1>1, StopAborts
<1>2. CASE /\ top' = NewFrame(prog, f, args) /\ stack' = Append(stack, caller)
           /\ status' = "running" /\ UNCHANGED returnRegister
  <2>1. /\ stack \in Seq(ByteCodeStack)
        /\ stack' \in Seq(ByteCodeStack) /\ Len(stack') = Len(stack) + 1
        /\ \A i \in 1 .. Len(stack) : stack'[i] = stack[i]
        /\ stack'[Len(stack) + 1] = caller
    BY <1>2 DEF Discipline, TypeOK
  <2>2. /\ Acts = Append(Waiting(stack), Act(top, None))
        /\ Acts' = Append(Waiting(stack'), Act(top', None))
    BY <1>2 DEF Acts
  <2>3. Outcome = <<>> /\ Outcome' = <<>>
    BY <1>2 DEF Outcome, None
  <2>4. /\ Protocol!Active /\ Protocol!Last.fn = top.fn /\ Protocol!Last.answer = <<>>
        /\ Protocol!Callers = Waiting(stack)
    BY <2>1, <2>2, <2>3, ActsShape
       DEF Protocol!Active, Protocol!Last, Protocol!Callers, Act, None
  <2>5. /\ Len(Acts) = Len(stack) + 1 /\ Len(Acts') = Len(stack') + 1
        /\ Acts'[Len(Acts')] = Act(top', None)
        /\ Acts'[Len(Acts)] = Act(caller, None)
        /\ SubSeq(Acts', 1, Len(Acts') - 1) = Waiting(stack')
    BY <2>1, <2>2, ActsShape
  <2>6. SubSeq(Acts', 1, Len(Acts) - 1) = Waiting(stack)
    <3> DEFINE S == {Act(stack'[i], None) : i \in 1 .. Len(stack')} \cup {Act(top', None)}
               long == SubSeq(Acts', 1, Len(stack))
               short == Waiting(stack)
    <3>1. \A i \in 1 .. Len(stack) : Acts'[i] = Act(stack[i], None)
      BY <2>1, <2>2, ActsShape
    <3>2. \A i \in 1 .. Len(stack) : Acts'[i] \in S /\ Act(stack[i], None) \in S
      BY <2>1, <3>1
    <3>3. /\ short \in Seq(S) /\ Len(short) = Len(stack)
          /\ \A i \in 1 .. Len(stack) : short[i] = Act(stack[i], None)
      BY <2>1, <3>2 DEF Waiting
    <3> HIDE DEF S
    <3>4. /\ long \in Seq(S) /\ Len(long) = Len(stack)
          /\ \A i \in 1 .. Len(stack) : long[i] = Acts'[i]
      <4>1. Len(stack) \in Nat
        BY <2>1
      <4>2. \A i \in 1 .. Len(stack) - 1 + 1 : Acts'[1 + i - 1] = Acts'[i]
        BY <4>1
      <4> QED BY <3>2, <4>1, <4>2, SubSeqProperties
    <3> HIDE DEF long, short
    <3>5. long = short
      BY <3>1, <3>3, <3>4, SeqEqual
    <3> QED BY <2>1, <2>5, <3>5 DEF long, short
  <2>7. top'.fn = f
    BY <1>2 DEF NewFrame
  <2> QED BY <2>1, <2>3, <2>4, <2>5, <2>6, <2>7
          DEF Protocol!Next, Protocol!Invoke, Act, None
<1> QED BY <1>1, <1>2 DEF Enter, Panic, Fail

\* Popping an activation with a value is a Yield of the call protocol.
LEMMA YieldStep ==
  ASSUME Discipline, status \in {"running", "awaiting"}, returnRegister = None,
         NEW v \in Val, PopStack(v)
  PROVE  Protocol!Next
<1>1. stack \in Seq(ByteCodeStack)
  BY DEF Discipline, TypeOK
<1>2. Acts = Append(Waiting(stack), Act(top, None)) /\ Outcome = <<>>
  BY DEF Acts, Outcome, None
<1>3. /\ Protocol!Active /\ Protocol!Last.answer = <<>>
      /\ Protocol!Callers = Waiting(stack) /\ Len(Acts) = Len(stack) + 1
  BY <1>1, <1>2, ActsShape DEF Protocol!Active, Protocol!Last, Protocol!Callers, Act, None
<1>4. CASE stack = <<>> /\ status' = "finished"
  <2>1. Acts' = <<>> /\ Outcome' = <<v>> /\ Len(Acts) = 1
    BY <1>3, <1>4 DEF Acts, Outcome, PopStack, Some
  <2> QED BY <1>3, <2>1 DEF Protocol!Next, Protocol!Yield
<1>5. CASE /\ stack # <<>> /\ status' = "running" /\ top' = stack[Len(stack)]
           /\ stack' = SubSeq(stack, 1, Len(stack) - 1)
  <2> DEFINE n == Len(stack)
             answered == [Waiting(stack) EXCEPT ![n].answer = <<v>>]
             S == {Act(stack[i], None) : i \in 1 .. n} \cup {Act(stack[n], <<v>>)}
  <2>1. /\ n \in Nat /\ n > 0
        /\ stack' \in Seq(ByteCodeStack) /\ Len(stack') = n - 1
        /\ \A i \in 1 .. n - 1 : stack'[i] = stack[i]
    <3>1. n \in Nat /\ n > 0
      BY <1>1, <1>5
    <3>2. \A i \in 1 .. n - 1 : stack[i] \in ByteCodeStack
      BY <1>1
    <3> HIDE DEF n
    <3>3. /\ SubSeq(stack, 1, n - 1) \in Seq(ByteCodeStack)
          /\ Len(SubSeq(stack, 1, n - 1)) = IF 1 <= n - 1 THEN (n - 1) - 1 + 1 ELSE 0
          /\ \A i \in 1 .. (n - 1) - 1 + 1 : SubSeq(stack, 1, n - 1)[i] = stack[1 + i - 1]
      BY <3>1, <3>2, SubSeqProperties
    <3>4. stack' = SubSeq(stack, 1, n - 1)
      BY <1>5 DEF n
    <3> QED BY <3>1, <3>3, <3>4
  <2>2. Acts' = Append(Waiting(stack'), Act(stack[n], <<v>>))
    BY <1>5 DEF Acts, PopStack, Some
  <2>3. /\ Len(Acts') = n
        /\ \A i \in 1 .. n - 1 : Acts'[i] = Act(stack[i], None)
        /\ Acts'[n] = Act(stack[n], <<v>>)
    <3> HIDE DEF n
    <3> QED BY <2>1, <2>2, ActsShape
  <2>4. /\ answered \in Seq(S) /\ Len(answered) = n
        /\ \A i \in 1 .. n - 1 : answered[i] = Act(stack[i], None)
        /\ answered[n] = Act(stack[n], <<v>>)
    <3>1. /\ Waiting(stack) \in Seq(S) /\ Len(Waiting(stack)) = n
          /\ \A i \in 1 .. n : Waiting(stack)[i] = Act(stack[i], None)
      BY <1>1, SMTT(60) DEF Waiting
    <3>2. [Waiting(stack)[n] EXCEPT !.answer = <<v>>] = Act(stack[n], <<v>>)
      <4>1. [Act(stack[n], None) EXCEPT !.answer = <<v>>] = Act(stack[n], <<v>>)
        BY DEF Act
      <4> HIDE DEF n
      <4> QED BY <2>1, <3>1, <4>1
    <3>3. Act(stack[n], <<v>>) \in S
      OBVIOUS
    <3> HIDE DEF S, n
    <3> QED BY <2>1, <3>1, <3>2, <3>3, ExceptSeq
  <2>5. Acts' \in Seq(S)
    <3>1. Waiting(stack') \in Seq(S)
      BY <2>1 DEF Waiting
    <3>2. Act(stack[n], <<v>>) \in S
      OBVIOUS
    <3> HIDE DEF S, n
    <3> QED BY <2>2, <3>1, <3>2, AppendProperties
  <2>6. Acts' = answered
    <3> HIDE DEF S, n, answered
    <3>1. \A i \in 1 .. n : Acts'[i] = answered[i]
      BY <2>1, <2>3, <2>4
    <3> QED BY <2>3, <2>4, <2>5, <3>1, SeqEqual
  <2>7. Outcome' = <<>>
    BY <1>5 DEF Outcome, None
  <2>8. Len(Acts) - 1 = n /\ Len(Acts) > 1
    BY <1>3, <2>1
  <2>9. Acts' = [Protocol!Callers EXCEPT ![Len(Acts) - 1].answer = <<v>>]
    BY <1>3, <2>6, <2>8
  <2> HIDE DEF n
  <2>10. Protocol!Yield
    BY <1>2, <1>3, <2>7, <2>8, <2>9 DEF Protocol!Yield
  <2> QED BY <2>10 DEF Protocol!Next
<1> QED BY <1>4, <1>5 DEF PopStack

\* An instruction that goes on inside its function.
LEMMA GotoWorks ==
  ASSUME Discipline, Discipline', WellFormed(prog), NEW op, Running(op),
         NEW frame \in ByteCodeStack, frame.fn = top.fn,
         NEW ip \in Successors(Code(top.fn), top.ip), Goto(frame, ip, None)
  PROVE  Protocol!Next
<1>1. /\ ip \in Int /\ 0 <= ip /\ ip <= MaxIP
  BY FlowStep DEF Discipline
<1>2. /\ top' = [frame EXCEPT !.ip = ip] /\ returnRegister' = None
      /\ stack' = stack /\ status' = status
  BY <1>1, IPAssumption DEF Goto
<1>3. top'.fn = top.fn
  BY <1>2 DEF ByteCodeStack
<1> QED BY <1>2, <1>3, WorkStep DEF Running

\* Every step of the executor is a step of the call protocol or changes none
\* of its variables.
LEMMA RefinementStep ==
  ASSUME Discipline, Discipline', WellFormed(prog), [Next]_vars
  PROVE  Protocol!Next \/ UNCHANGED <<Acts, Outcome>>
<1> USE DEF Fail, Panic
<1>1. CASE Spawn
  <2>1. PICK s \in prog.entry : Enter(s[1], s[2], <<>>)
    BY <1>1 DEF Spawn
  <2>2. s[1] \in Callable
    BY DEF Discipline, TypeOK, IsProgram
  <2> QED BY <1>1, <2>1, <2>2, BeginStep DEF Spawn
<1>2. CASE Compute
  <2>1. Running("Compute") /\ top \in ByteCodeStack /\ Instr.to \in Location
    BY <1>2, RunningType, InstructionFields DEF Compute, Discipline
  <2>2. top.ip + 1 \in Successors(Code(top.fn), top.ip) /\ returnRegister = None
    BY <2>1, RunningType, RegisterEmpty DEF Successors, Discipline
  <2>3. CASE \E v \in Val : /\ Storable(top, Instr.to, v)
                            /\ Goto(Stored(top, Instr.to, v), top.ip + 1, returnRegister)
    BY <2>1, <2>2, <2>3, StoredType, GotoWorks
  <2> QED BY <1>2, <2>1, <2>3, StopAborts DEF Compute, Running
<1>3. CASE FnCall
  <2> DEFINE caller == [top EXCEPT !.ip = @ + 1]
             callee == Fetch(top, Instr.fn)
             vals == ArgValues(top, Instr.args)
  <2>1. Running("FnCall") /\ top \in ByteCodeStack
    BY <1>3, RunningType DEF FnCall, Discipline
  <2>2. CASE /\ \E f \in Callable : callee = FnVal(f)
             /\ Enter(callee[2], vals, Append(stack, caller))
    <3>1. callee[2] \in Callable
      BY <2>2 DEF FnVal
    <3>2. caller \in ByteCodeStack /\ caller.fn = top.fn
      BY <2>1 DEF ByteCodeStack
    <3>3. returnRegister = None /\ status = "running"
      BY <2>1, RegisterEmpty DEF Discipline, Running
    <3> HIDE DEF caller, callee, vals
    <3> QED BY <2>2, <3>1, <3>2, <3>3, InvokeStep
  <2> QED BY <1>3, <2>1, <2>2, StopAborts DEF FnCall, Running
<1>4. CASE Return
  <2> DEFINE vals == ArgValues(top, Instr.value)
             v == IF vals = <<>> THEN Unit ELSE vals[1]
  <2>1. Running("Return") /\ top \in ByteCodeStack /\ Instr.value \in Seq(Arg)
    BY <1>4, RunningType, InstructionFields DEF Return, Discipline
  <2>2. CASE Bound(vals) /\ PopStack(v)
    <3>1. vals \in Seq(Val)
      BY <2>1, <2>2, ArgValuesType
    <3> HIDE DEF vals
    <3>2. v \in Val
      BY <3>1, ValAssumption
    <3>3. returnRegister = None /\ status = "running"
      BY <2>1, RegisterEmpty DEF Discipline, Running
    <3> QED BY <2>2, <3>2, <3>3, YieldStep
  <2> QED BY <1>4, <2>1, <2>2, StopAborts DEF Return, Running
<1>5. CASE TakeReturn
  <2>1. Running("TakeReturn") /\ top \in ByteCodeStack /\ Instr.to \in Location
    BY <1>5, RunningType, InstructionFields DEF TakeReturn, Discipline
  <2>2. top.ip + 1 \in Successors(Code(top.fn), top.ip)
    BY <2>1, RunningType DEF Successors, Discipline
  <2>3. CASE /\ returnRegister # None
             /\ Storable(top, Instr.to, returnRegister[1])
             /\ Goto(Stored(top, Instr.to, returnRegister[1]), top.ip + 1, None)
    <3>1. returnRegister[1] \in Val
      BY <2>3 DEF Discipline, TypeOK, None
    <3> QED BY <2>1, <2>2, <2>3, <3>1, StoredType, GotoWorks
  <2> QED BY <1>5, <2>1, <2>3, StopAborts DEF TakeReturn, Running
<1>6. CASE Jump
  <2>1. Running("Jump") /\ top \in ByteCodeStack
    BY <1>6, RunningType DEF Jump, Discipline
  <2>2. Target(Instr, top.ip) \in Successors(Code(top.fn), top.ip) /\ returnRegister = None
    BY <2>1, RunningType, RegisterEmpty DEF Successors, Discipline
  <2> QED BY <1>6, <2>1, <2>2, GotoWorks DEF Jump
<1>7. CASE JumpIf
  <2>1. Running("JumpIf") /\ top \in ByteCodeStack
    BY <1>7, RunningType DEF JumpIf, Discipline
  <2>2. /\ {Target(Instr, top.ip), top.ip + 1} \subseteq Successors(Code(top.fn), top.ip)
        /\ returnRegister = None
    BY <2>1, RunningType, RegisterEmpty DEF Successors, Discipline
  <2>3. CASE Goto(top, Target(Instr, top.ip), returnRegister)
             \/ Goto(top, top.ip + 1, returnRegister)
    BY <2>1, <2>2, <2>3, GotoWorks
  <2> QED BY <1>7, <2>1, <2>3, StopAborts DEF JumpIf, Running
<1>8. CASE OutOfBounds
  BY <1>8, StopAborts DEF OutOfBounds
<1>9. CASE StartBuiltin
  <2>1. top \in BuiltinStack /\ top.fn \notin Fns
    BY <1>9, FnAssumption DEF StartBuiltin, Discipline, TypeOK, ByteCodeStack
  <2>2. returnRegister = None
    BY <1>9, <2>1 DEF StartBuiltin, Discipline, RegisterIsAnswer
  <2>3. top'.fn = top.fn
    BY <1>9, <2>1 DEF StartBuiltin, BuiltinStack
  <2> QED BY <1>9, <2>2, <2>3, WorkStep DEF StartBuiltin
<1>10. CASE ResolveBuiltin
  <2>1. returnRegister = None /\ status = "awaiting"
    BY <1>10 DEF ResolveBuiltin, Discipline, RegisterIsAnswer
  <2> QED BY <1>10, <2>1, StopAborts, YieldStep DEF ResolveBuiltin
<1>11. CASE Complete
  <2>1. returnRegister # None
    BY <1>11 DEF Complete, Discipline, RegisterIsAnswer
  <2> QED BY <1>11, <2>1 DEF Complete, Acts, Outcome
<1>12. CASE UNCHANGED vars
  BY <1>12 DEF vars, Acts, Outcome, Waiting, Act
<1> QED BY <1>1, <1>2, <1>3, <1>4, <1>5, <1>6, <1>7, <1>8, <1>9, <1>10, <1>11,
           <1>12 DEF Next, Step, Stopped

\* The executor of well-formed programs implements the protocol of calls: each
\* answer reaches the activation that asked for it, once, and a suspended
\* activation goes on exactly as it was left.
THEOREM ExecutorImplementsCalls ==
  ASSUME \A p \in Programs : WellFormed(p)
  PROVE  Spec => ImplementsCalls
<1>1. Init => Protocol!Init /\ WellFormed(prog)
  BY DEF Init, Protocol!Init, Acts, Outcome, None
<1>2. WellFormed(prog) /\ [Next]_vars => WellFormed(prog)'
  BY ProgramFixed DEF WellFormed
<1>3. Discipline /\ Discipline' /\ WellFormed(prog) /\ [Next]_vars
        => [Protocol!Next]_(Protocol!vars)
  BY RefinementStep DEF Protocol!vars
<1> QED BY <1>1, <1>2, <1>3, DisciplineInit, DisciplineStep, PTL
        DEF Spec, ImplementsCalls, Protocol!Spec

=============================================================================
