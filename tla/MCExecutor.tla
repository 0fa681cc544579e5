----------------------------- MODULE MCExecutor -----------------------------
(***************************************************************************)
(* Bounded instances of the executor: programs of eval-tests/ compiled by  *)
(* ByteGen, with the arguments the tests pass and smaller ones, host       *)
(* builtins that may also fail or panic, and byte code that no generator   *)
(* emits, which reaches the executor's own errors.                         *)
(***************************************************************************)
EXTENDS CallDiscipline, EvalTests

MCSelect(v, path) == V!SelectIn(v, path, NoVal)

-----------------------------------------------------------------------------

Compiled(fn, argLists) == Made(<<fn, Absent>>, {1} \X argLists)

\* Code as no generator emits it, in function 1.
Raw(code) ==
  [Compiled(Absent, {<<>>}) EXCEPT !.compiled[1] = code]

Lit1 == G!Lit(I(1))
Call2 == <<G!Store(G!Tmp(1), G!Var(MCFnName[2])),
           [op |-> "FnCall", fn |-> G!Tmp(1), args |-> <<>>]>>
Take == [op |-> "TakeReturn", to |-> G!Tmp(2)]
RetTmp == [op |-> "Return", value |-> <<G!Tmp(2)>>]
RetLit == [op |-> "Return", value |-> <<Lit1>>]
AbsJump(n) == [op |-> "Jump", rel |-> FALSE, dest |-> n]

\* The functions compiled, and the calls of the host.
Alone(fn, argLists) == <<<<fn, Absent>>, {1} \X argLists>>
Generated ==
  [recurse     |-> Alone(Recurse, {<<I(n)>> : n \in 0 .. 3}),
   mutual      |-> <<<<Mutual(2, 5), Mutual(1, -5)>>, {1, 2} \X {<<I(n)>> : n \in 0 .. 3}>>,
   bind        |-> Alone(BuiltinBind, {<<>>}),
   while       |-> Alone(WhileLoop(4), {<<>>}),
   arrayPath   |-> Alone(ArrayPath, {<<>>}),
   structs     |-> Alone(StructsComplex, {<<>>}),
   nestedArray |-> Alone(NestedArray, {<<I(n)>> : n \in -1 .. 2}),
   unitCalls   |-> <<<<UnitCalls, UsesArg>>, {1} \X {<<I(1)>>, <<>>}>>,
   divide      |-> Alone(Arithmetic("DivI"), {<<I(m), I(n)>> : m \in {-7, 7}, n \in {-2, 0, 2}}),
   multiply    |-> Alone(Arithmetic("MulI"), {<<I(9), I(n)>> : n \in {4, 60}}),
   negate      |-> Alone(NotAnInt, {<<I(3)>>, <<B(TRUE)>>}),
   anything    |-> <<<<CallsAnything, UsesArg>>,
                     {1} \X ({<<FnVal(f)>> : f \in {1, 2, 8, 9}} \cup {<<I(1)>>})>>,
   branch      |-> Alone(BranchOn, {<<B(b)>> : b \in BOOLEAN} \cup {<<I(1)>>}),
   bothReturn  |-> Alone(BothReturn, {<<B(b)>> : b \in BOOLEAN}),
   builtin     |-> <<<<Absent, Absent>>, {8, 9} \X {<<I(1), I(2)>>}>>]

\* A pointer that wrapped around would find a return in the two jumps out of
\* u64; the widest jump that stays in it ends behind the code.
Malformed ==
  [offTheEnd   |-> <<G!Store(G!Tmp(1), Lit1)>>,
   jumpsOut    |-> <<AbsJump(7)>>,
   underflow   |-> <<G!RelJump(-MCMaxIP), RetLit>>,
   underByOne  |-> <<AbsJump(1), G!RelJump(-2)>>,
   overflow    |-> <<AbsJump(2), RetLit, G!RelJump(MCMaxIP)>>,
   widest      |-> <<G!RelJump(MCMaxIP), RetLit>>,
   overflowIf  |-> <<AbsJump(2), RetLit, G!RelJumpIf(MCMaxIP, TRUE, G!Lit(B(TRUE)))>>,
   jumpsBack   |-> <<AbsJump(2), RetTmp, G!Store(G!Tmp(2), Lit1), AbsJump(1)>>,
   takesNone   |-> <<Take, RetTmp>>,
   takesTwice  |-> Call2 \o <<Take, Take, RetTmp>>,
   leavesOne   |-> Call2 \o Call2 \o <<Take, RetTmp>>,
   takesNoTmp  |-> Call2 \o <<[Take EXCEPT !.to = [kind |-> "Compound", name |-> "a", path |-> <<>>]]>>,
   unbound     |-> <<RetTmp>>,
   unboundOp   |-> <<G!Store(G!Tmp(1), G!Tmp(2))>>,
   unboundFn   |-> <<[op |-> "FnCall", fn |-> G!Tmp(1), args |-> <<>>]>>,
   unboundArg  |-> <<G!Store(G!Tmp(1), G!Var(MCFnName[2])),
                     [op |-> "FnCall", fn |-> G!Tmp(1), args |-> <<G!Tmp(2)>>]>>,
   unboundIf   |-> <<G!RelJumpIf(1, TRUE, G!Tmp(1))>>]

\* The libraries, and the builtin add of the tests, whose host may also report
\* an error or panic.
MCOutcomes(f, args) ==
  IF f \in LibraryFns THEN {Lib!Answer(Library[f - 20], args)}
  ELSE {V!Error, V!Panicked}
    \cup IF V!AllTagged(args, "int") /\ Len(args) = 2
         THEN {V!Value(I(args[1][2] + args[2][2]))} ELSE {V!Value(V!UnitVal)}

\* How a program that does not complete ends: the error, or the panic.
Stops(why) == <<"stops", why>>

\* What the tests expect of the programs, and how they end on other arguments.
Expected ==
  [recurse     |-> {I(0), I(1), I(3), I(6)},
   mutual      |-> {I(5), I(-5)},
   bind        |-> {I(8), Stops("Builtin")},
   while       |-> {I(41)},
   arrayPath   |-> {V!Array(<<I(1), I(1), I(2), I(3)>>)},
   structs     |-> {I(0)},
   nestedArray |-> {I(7), Stops("Operation")},
   unitCalls   |-> {V!UnitVal, Stops("Builtin"), Stops("InvalidArgCount")},
   divide      |-> {I(-3), I(3), Stops("Operation")},
   multiply    |-> {I(36), Stops("Operation")},
   negate      |-> {I(-3), Stops("Operand")},
   anything    |-> {V!UnitVal, Stops("Builtin"), Stops("UnmappedBuiltin"),
                    Stops("ExpectedFunction")},
   branch      |-> {I(1), I(2), Stops("ExpectedBool")},
   bothReturn  |-> {V!UnitVal},
   builtin     |-> {I(3), Stops("Builtin"), Stops("UnmappedBuiltin")}]

\* What comes of code that no generator emits.
ExpectedMalformed ==
  [n \in DOMAIN Malformed |->
     CASE n = "jumpsBack" -> {I(1)}
       [] n = "leavesOne" -> {V!UnitVal}
       [] n \in {"offTheEnd", "jumpsOut", "widest"} -> {Stops("InstructionPointerOutOfBounds")}
       [] n \in {"underflow", "underByOne"} -> {Stops("IPUnderflow")}
       [] n \in {"overflow", "overflowIf"} -> {Stops("IPOverflow")}
       [] n \in {"takesNone", "takesTwice"} -> {Stops("NoReturnValue")}
       [] n = "takesNoTmp" -> {Stops("Operation")}
       [] OTHER -> {Stops("Unbound")}]

\* Functions that use the libraries, the argument and what they then return,
\* unless the library fails or panics in the host.
Fails == {Stops("Builtin")}
VecOf(s) == Lib!Vec([k \in DOMAIN s |-> I(s[k])], Len(s))
LibraryTests ==
  {<<VecLen, 0, {I(2)}>>, <<VecGetTwo, 0, {I(6)}>>, <<VecRemoveOne, 0, {I(3)}>>,
   <<VecInsertFirst, 0, {I(3)}>>, <<VecHolds(2), 0, {B(TRUE)}>>,
   <<VecHolds(7), 0, {B(FALSE)}>>, <<VecCleared, 0, {I(0)}>>,
   <<VecRotated, 0, {VecOf(<<2, 3, 1>>)}>>,
   <<VecInsertAt, -1, Fails>>, <<VecInsertAt, 0, {VecOf(<<3, 1, 2>>)}>>,
   <<VecInsertAt, 2, {VecOf(<<1, 2, 3>>)}>>, <<VecInsertAt, 3, Fails>>,
   <<VecRemoveAt, -1, Fails>>, <<VecRemoveAt, 0, {VecOf(<<2>>)}>>,
   <<VecRemoveAt, 1, {VecOf(<<1>>)}>>, <<VecRemoveAt, 2, Fails>>,
   <<VecGetAt, -1, {Lib!None}>>, <<VecGetAt, 1, {Lib!Some(I(2))}>>, <<VecGetAt, 2, Fails>>,
   <<VecValueAt, -1, Fails>>, <<VecValueAt, 1, {I(2)}>>, <<VecValueAt, 2, Fails>>,
   <<OptionFn(MakeSome, "option::unwrap"), 0, {I(3)}>>,
   <<OptionFn(MakeNone, "option::unwrap"), 0, Fails>>,
   <<OptionFn(MakeSome, "option::is_some"), 0, {B(TRUE)}>>,
   <<OptionFn(MakeSome, "option::is_none"), 0, {B(FALSE)}>>,
   <<OptionFn(MakeNone, "option::is_some"), 0, {B(FALSE)}>>,
   <<OptionFn(MakeNone, "option::is_none"), 0, {B(TRUE)}>>,
   <<PowerOf(2), 5, {I(32)}>>, <<PowerOf(2), 6, Fails>>, <<PowerOf(-2), 3, {I(-8)}>>,
   <<PowerOf(2), -1, Fails>>, <<Asserts, 0, {V!UnitVal}>>, <<Asserts, 1, Fails>>}

\* A library function spawned by the host, with arguments nobody has checked.
Unchecked(name, args, expected) ==
  Tested(Made(<<Absent, Absent>>, {<<LibraryFn(name), args>>}), expected)

\* Of a library that the host has not mapped no function ever answers.
WithLibraries(p) == [p EXCEPT !.mapped = @ \cup LibraryFns]

MCGenerated ==
  {Tested(Made(Generated[n][1], Generated[n][2]), Expected[n]) : n \in DOMAIN Generated}
    \cup {WithLibraries(Tested(Compiled(t[1], {<<I(t[2])>>}), t[3])) : t \in LibraryTests}
    \cup {WithLibraries(Unchecked(c[1], c[2], Fails)) : c \in
            {<<"vec::push", <<I(1)>>>>, <<"vec::push", <<I(1), I(1)>>>>,
             <<"vec::len", <<Lib!None>>>>, <<"err::assert", <<>>>>}}
    \cup {Unchecked("vec::new", <<>>, {Stops("UnmappedBuiltin")}),
          Tested(Compiled(VecLen, {<<I(0)>>}), {Stops("Unbound")})}
MCPrograms ==
  MCGenerated \cup {Tested(Raw(Malformed[n]), ExpectedMalformed[n]) : n \in DOMAIN Malformed}

-----------------------------------------------------------------------------

\* A program ends as its test expects.  If it completes the answers of its
\* calls reached the right callers, the length of a vec is that of its elements
\* after any sequence of operations, and no operation of a library went on where
\* its index, its argument or its result is out of range.  If it does not, the
\* reason is the right one: a jump below 0 or above the width of the pointer is
\* an error and never wraps around.
Ending == IF status = "completed" THEN result[1] ELSE Stops(error)
AsTested == Settled => Ending \in prog.expected

\* An executor that is polled settles or is left waiting for a host's future.
Settles == (status = "running") ~> (Settled \/ status = "awaiting")

=============================================================================
