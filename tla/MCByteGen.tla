------------------------------ MODULE MCByteGen ------------------------------
(***************************************************************************)
(* Compiled code against the meaning of its source: small functions of     *)
(* loops, branches, returns and assignments in every nesting, and the      *)
(* functions of eval-tests/, compiled by ByteGen, run by Executor and      *)
(* compared with Structured.                                               *)
(***************************************************************************)
EXTENDS CallDiscipline, EvalTests

MCSelect(v, path) == V!SelectIn(v, path, NoVal)
MCOutcomes(f, args) == {V!Error, V!Panicked, V!Value(I(1))}

\* Rounds of a loop and depth of calls the reference follows; no function
\* below takes as many without diverging.
Fuel == 6

Meaning(fns) ==
  INSTANCE Structured WITH
    Functions <- [v \in {V!FnOf(1), V!FnOf(2)} |-> fns[v[2]]],
    FnNamed <- [n \in {MCFnName[f] : f \in MCFns} |->
                  V!FnOf(CHOOSE f \in MCFns : MCFnName[f] = n)]

Reference(fns, f, args) == Meaning(fns)!Apply(V!FnOf(f), args, Fuel)

\* The program that calls f on args, and how the reference ends.
Case(fns, f, args) ==
  Tested(Made(fns, {<<f, args>>}), Reference(fns, f, args))

-----------------------------------------------------------------------------
(* Functions of one variable x.  Loops go on while x < 2 and branches are  *)
(* taken then; t is the first temporary a statement may use.               *)

Below2(t) == Op(t + 2, "LEI", <<Var(t, "x"), Lit(t + 1, I(2))>>)
Inc == Set("x", Op(6, "AddI", <<Var(4, "x"), Lit(5, I(1))>>))
Inner == {<<>>, <<Inc>>, <<Ret(Var(7, "x"))>>, <<Inc, Ret(Var(7, "x"))>>}

Branches(id, bodies) == {If(id, Below2(1), a, b) : a \in bodies, b \in bodies}
Loops(id, bodies) == {While(id, Below2(1), a) : a \in bodies}
Level1(id) == Branches(id, Inner) \cup Loops(id, Inner)

Sequences2 == {<<s, t>> : s \in Level1(1), t \in Level1(2)}
Nestings ==
  {<<While(2, Below2(1), body)>> :
     body \in {<<s, Inc>> : s \in Level1(1)} \cup {<<Inc, s>> : s \in Level1(1)}}
  \cup {<<If(2, Below2(1), <<s>>, <<Inc>>)>> : s \in Level1(1)}
  \cup {<<If(2, Below2(1), <<Inc>>, <<s>>)>> : s \in Level1(1)}
  \cup {<<While(3, Below2(1), <<While(2, Below2(1), <<s, Inc>>), Inc>>)>> : s \in Level1(1)}

InX(body) == IntFn(<<"x">>, Append(body, Ret(Var(8, "x"))))

Cases(bodies, xs) ==
  {Case(<<InX(b), Absent>>, 1, <<I(x)>>) : b \in bodies, x \in xs}

\* Functions that call the host: how they end is for its builtins to say.
HostDecides == [tag |-> "host"]
Hosted ==
  {Tested(Made(<<BuiltinBind, Absent>>, {<<1, <<>>>>}), HostDecides),
   Tested(Made(<<UnitCalls, UsesArg>>, {<<1, <<I(1)>>>>}), HostDecides)}

\* A loop that its first round ends.
Once == InX(<<While(1, Below2(1), <<Set("x", Lit(4, I(5)))>>)>>)

\* An array is read at index 0, through its name and as a value, and a function
\* is called, beside a variable whose name begins with an underscore, as those
\* of temporaries and of functions do.
PairOf == Let("a", Op(3, "Array1", <<Lit(1, I(1)), Lit(2, I(2))>>))
Underscored(name) == IntFn(<<name>>, <<PairOf, Ret(Access(5, Path("a", <<Lit(4, I(0))>>, <<>>)))>>)
UnderscoredValue(name) ==
  IntFn(<<name>>, <<PairOf, Ret(Append(Var(4, "a") \o Lit(5, I(0)),
                                       T(6, [v |-> "Indexing", array |-> 4, indexer |-> 5])))>>)
UnderscoredCall(name) == IntFn(<<name>>, <<Ret(Call(3, FnRef(1, 2), <<Lit(2, I(1))>>))>>)

\* The variable takes the place of what it shares the name with where the byte
\* code reads by name: the index and the root of a path, and a function.  It
\* does not where a temporary is an operand.
Beside(fn, arg) == Made(<<fn, UsesArg>>, {<<1, <<arg>>>>})
Captured ==
  {Tested(Beside(Underscored("_tmp4"), I(1)), V!Value(I(2))),
   Tested(Beside(UnderscoredValue("_tmp5"), I(1)), V!Value(I(2))),
   Tested(Beside(UnderscoredValue("_tmp4"), V!Array(<<I(7), I(2)>>)), V!Value(I(7))),
   Tested(Beside(UnderscoredCall("_fn2"), I(1)), V!Error)}
Apart ==
  {Case(<<Underscored(n), UsesArg>>, 1, <<I(1)>>) :
     n \in {"_i", "_tmp1", "_tmp2", "_tmp3", "_tmp5", "_tmp9", "_fn2"}}
  \cup {Case(<<UnderscoredValue(n), UsesArg>>, 1, <<I(1)>>) : n \in {"_tmp3", "_tmp6"}}
  \cup {Case(<<UnderscoredCall(n), UsesArg>>, 1, <<I(1)>>) : n \in {"_tmp1", "_tmp2", "_tmp3"}}

Tests ==
  {Case(<<Recurse, Absent>>, 1, <<I(n)>>) : n \in 0 .. 3}
  \cup {Case(<<Mutual(2, 5), Mutual(1, -5)>>, f, <<I(n)>>) : f \in {1, 2}, n \in 0 .. 3}
  \cup {Case(<<NestedArray, Absent>>, 1, <<I(n)>>) : n \in -1 .. 2}
  \cup {Case(<<Once, Absent>>, 1, <<I(0)>>)}
  \cup {Case(<<fn, Absent>>, 1, <<>>) : fn \in {WhileLoop(4), ArrayPath, StructsComplex}}
  \cup {Case(<<Arithmetic(op), Absent>>, 1, <<I(-7), I(n)>>) :
          op \in {"AddI", "DivI", "ModI", "LEqI"}, n \in {-2, 0, 2}}
  \cup {Case(<<CallsAnything, UsesArg>>, 1, <<v>>) : v \in {V!FnOf(1), V!FnOf(2), I(1)}}
  \cup {Case(<<BranchOn, Absent>>, 1, <<v>>) : v \in {B(TRUE), B(FALSE), I(1)}}
  \cup Captured \cup Apart

-----------------------------------------------------------------------------
(* Expression trees, over an argument x, an array a and a function of two   *)
(* integers.  Some parts end in an error and some in a panic, so that the  *)
(* order in which the parts are computed shows.                            *)

LitT(v) == <<"Literal", v>>
PathT(name) == <<"Path", name>>
OpT(op, trees) == <<"Op", <<op>>, trees>>
CallT(args) == <<"FnCall", MCFnName[2], args>>
Element(index) == <<"FieldAccess", <<Seg("a", <<index>>)>>>>

Fails == OpT("Negate", <<LitT(B(TRUE))>>)
Panics == OpT("DivI", <<PathT("x"), LitT(I(0))>>)
Parts == {PathT("x"), LitT(I(1)), Fails, Panics, Element(LitT(I(1))),
          CallT(<<LitT(I(1)), PathT("x")>>), OpT("SubI", <<LitT(I(7)), PathT("x")>>)}
AnyPart == Parts \cup {LitT(B(FALSE)), PathT("a"), <<"AnonymousFn", MCFnName[2]>>,
                      OpT("Array1", <<LitT(I(2)), LitT(I(7))>>)}
Links == {PathT("x"), LitT(I(1)), Fails, Panics}

TreesTested ==
  {OpT(op, <<l, r>>) : op \in {"SubI", "And", "Eq"}, l \in AnyPart, r \in AnyPart}
  \cup {CallT(<<l, r>>) : l \in Parts, r \in Parts}
  \cup {<<"Indexing", l, r>> : l \in AnyPart, r \in Parts}
  \cup {Element(t) : t \in Parts \cup {LitT(I(0)), CallT(<<PathT("x"), PathT("x")>>)}}
  \cup {<<"Chain", CallT(<<k, l>>), <<CallT(<<m>>), CallT(<<PathT("x")>>)>>>> :
          k \in Links, l \in Links, m \in Links}
  \cup {OpT("SubI", <<OpT("SubI", <<k, l>>), OpT("SubI", <<l, m>>)>>) :
          k \in Links, l \in Links, m \in Links}
  \cup {<<"Op", <<"Array2", 2>>, <<PathT("x")>>>>, <<"Op", <<"Struct", <<"x">>>>, <<LitT(I(5))>>>>}

Subtract == Arithmetic("SubI")
OfTree(tree) ==
  IntFn(<<"x">>, <<Let("a", Op(3, "Array1", <<Lit(1, I(7)), Lit(2, I(1))>>)),
                   Ret(F!Flatten(4, tree))>>)
TreeMeaning(tree) ==
  LET M == INSTANCE Structured WITH
             Functions <- (V!FnOf(2) :> Subtract), FnNamed <- (MCFnName[2] :> V!FnOf(2))
  IN  M!Tree(tree, M!Config("normal", <<("x" :> I(2)) @@ ("a" :> V!Array(<<I(7), I(1)>>))>>,
                            V!UnitVal), Fuel)
TreeCases ==
  {Tested(Made(<<OfTree(t), Subtract>>, {<<1, <<I(2)>>>>}), TreeMeaning(t)) : t \in TreesTested}

\* A round that is cut short by continue, and a block with a variable x of its
\* own.
Skips == {<<While(1, Below2(1), <<Inc, Continue(1)>>)>>,
          <<While(1, Below2(1), <<Inc, If(2, Below2(1), <<Continue(1)>>, <<>>), Inc>>)>>}
Shadows == {<<If(1, Below2(1), <<Let("x", Lit(4, I(7)))>>, <<>>)>>,
            <<While(1, Below2(1), <<Inc, Let("x", Lit(7, I(7)))>>)>>}

MCPrograms ==
  LET generated == Cases(Nestings, {0, 2}) \cup Cases(Sequences2, {0})
  IN  generated \cup Tests \cup Hosted \cup TreeCases
MCSkips == LET generated == Cases(Skips, {0, 2}) IN generated
MCShadows == LET generated == Cases(Shadows, {0, 2}) IN generated

-----------------------------------------------------------------------------

\* A function that ends, ends as its source does: with the same value, or with
\* an error or a panic where the source has one; and one that loops for ever
\* does not end.  Second pass: every jump over an inlined loop or branch lands
\* where the source goes on.  The exception is a variable that takes the place
\* of a temporary or of a function of the same name (Captured).
SameOutcome == prog.expected.tag # "host" =>
  /\ status = "completed" => prog.expected = V!Value(result[1])
  /\ status = "failed" => prog.expected.tag = "error"
  /\ status = "panicked" => prog.expected.tag = "panic"

\* The generator emits the code the executor relies on: control stays inside
\* the function and every FnCall is followed by its TakeReturn.
GeneratesWellFormed == status = "idle" => WellFormed(prog)

\* The same of functions whose loops have a continue.  compile_to_byte_code
\* says it resolves a continue "to jump to the correct index".
ContinueAsSource == SameOutcome

\* The same of functions that declare a variable again in a block.  README.md
\* calls the language "Lexically scoped".
ScopedAsSource == SameOutcome

\* A function whose source ends does end, unless it waits for the host.
EndsAsSource ==
  (status = "running" /\ prog.expected.tag # "diverges") ~> (Settled \/ status = "awaiting")

=============================================================================
