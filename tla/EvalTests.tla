------------------------------ MODULE EvalTests ------------------------------
(***************************************************************************)
(* The functions of eval-tests/ and smpl-tests/ that the instances run, in *)
(* the notation of Programs.                                               *)
(***************************************************************************)
EXTENDS Programs

\* interpreter_recursive_fn_call
Recurse ==
  IntFn(<<"i">>, <<If(1, Op(3, "Eq", <<Var(1, "i"), Lit(2, I(0))>>),
    <<Ret(Lit(4, I(0)))>>,
    <<Ret(Op(10, "AddI", <<Var(5, "i"),
        Call(9, FnRef(6, 1), <<Op(8, "SubI", <<Var(7, "i"), Lit(11, I(1))>>)>>)>>))>>)>>)

\* interpreter_mutually_recursive_fn_call: f calls g, ends with v
Mutual(g, v) ==
  IntFn(<<"i">>, <<If(1, Op(3, "Eq", <<Var(1, "i"), Lit(2, I(0))>>),
    <<Ret(Lit(4, I(v)))>>,
    <<Ret(Call(9, FnRef(6, g), <<Op(8, "SubI", <<Var(7, "i"), Lit(11, I(1))>>)>>))>>)>>)

\* interpreter_builtin_bind
BuiltinBind ==
  IntFn(<<>>, <<Let("f", FnRef(1, 9)),
                Ret(Call(5, Var(2, "f"), <<Lit(3, I(3)), Lit(4, I(5))>>))>>)

\* interpreter_while_loop, with n rounds
WhileLoop(n) ==
  IntFn(<<>>, <<Let("accu", Lit(1, I(0))),
    While(1, Op(4, "LEI", <<Var(2, "accu"), Lit(3, I(n))>>),
      <<Set("accu", Op(7, "AddI", <<Var(5, "accu"), Lit(6, I(1))>>))>>),
    Let("bar", Lit(8, I(37))),
    Ret(Op(11, "AddI", <<Var(9, "accu"), Var(10, "bar")>>))>>)

\* interpreter_array_path_assignment
ArrayPath ==
  LET At(t) == Path("array", <<Op(t + 2, "AddI", <<Var(t, "index"), Lit(t + 1, I(1))>>)>>, <<>>)
  IN  IntFn(<<>>, <<
    Let("array", Op(5, "Array1", <<Lit(1, I(0)), Lit(2, I(1)), Lit(3, I(2)), Lit(4, I(3))>>)),
    Let("index", Op(7, "Negate", <<Lit(6, I(1))>>)),
    Let("v", Access(4, At(1))),
    SetTo(At(8), Op(3, "AddI", <<Var(1, "v"), Lit(2, I(1))>>)),
    Ret(Var(1, "array"))>>)

\* interpreter_structs_complex: a copy of a structure is not the structure
StructsComplex ==
  IntFn(<<>>, <<
    Let("a", StructOf(2, <<"x">>, <<Lit(1, I(0))>>)),
    Let("b", Var(3, "a")),
    SetTo(Path("b", <<>>, <<Seg("x", <<>>)>>), Lit(4, I(5))),
    Ret(Access(5, Path("a", <<>>, <<Seg("x", <<>>)>>)))>>)

\* A field that is an array, written through a computed index: n.field[i].
NestedArray ==
  LET Elem(t) == Path("s", <<>>, <<Seg("y", <<Var(t, "i")>>)>>)
  IN  IntFn(<<"i">>, <<
    Let("s", StructOf(3, <<"y">>, <<Op(2, "Array1", <<Lit(1, I(1)), Lit(4, I(2))>>)>>)),
    SetTo(Elem(5), Lit(6, I(7))),
    Ret(Access(8, Elem(7)))>>)

\* smpl-tests/fn_tests.smpl: calls whose answers nobody uses
UnitCalls ==
  UnitFn(<<"a">>, <<Do(Call(3, FnRef(1, 2), <<Var(2, "a")>>)),
                    Do(Call(6, FnRef(4, 9), <<Var(5, "a"), Var(7, "a")>>)),
                    Do(Call(10, FnRef(8, 2), <<Lit(9, I(1))>>))>>)
UsesArg == UnitFn(<<"a">>, <<Let("b", Var(1, "a"))>>)

\* Operands of the wrong kind and operations that panic.
Arithmetic(op) ==
  IntFn(<<"a", "b">>, <<Ret(Op(3, op, <<Var(1, "a"), Var(2, "b")>>))>>)
NotAnInt == IntFn(<<"a">>, <<Ret(Op(2, "Negate", <<Var(1, "a")>>))>>)
CallsAnything == IntFn(<<"f">>, <<Ret(Call(3, Var(1, "f"), <<Lit(2, I(1))>>))>>)
BranchOn == IntFn(<<"a">>, <<If(1, Var(1, "a"), <<Ret(Lit(2, I(1)))>>, <<Ret(Lit(3, I(2)))>>)>>)

\* Both branches return at once: what follows them is dead code.
BothReturn == UnitFn(<<"a">>, <<If(1, Var(1, "a"), <<RetUnit>>, <<RetUnit>>), Do(Lit(2, I(1)))>>)

-----------------------------------------------------------------------------
(* The tests of builtins/vec.rs and builtins/option.rs. *)

LibCall(name, es) == Call(9, FnRef(8, LibraryFn(name)), es)
Vecs(name, es) == LibCall(name, <<Var(1, "v")>> \o es)

\* v holds the elements pushed one after the other; then the statements run.
WithVec(elements, stmts) ==
  IntFn(<<"i">>,
        <<Let("v", LibCall("vec::new", <<>>))>>
        \o [k \in DOMAIN elements |->
              Set("v", Vecs("vec::push", <<Lit(2, I(elements[k]))>>))]
        \o stmts)
SetV(name, es) == Set("v", Vecs(name, es))
RetV(name, es) == Ret(Vecs(name, es))

\* interpreter_vec_push, _get, _remove, _insert, _contains and _clear
VecLen == WithVec(<<1, 2>>, <<RetV("vec::len", <<>>)>>)
VecGetTwo ==
  WithVec(<<3, 2>>, <<Let("a", Vecs("vec::get_value", <<Lit(2, I(0))>>)),
                      Let("b", Vecs("vec::get_value", <<Lit(2, I(1))>>)),
                      Ret(Op(3, "MulI", <<Var(1, "a"), Var(2, "b")>>))>>)
VecRemoveOne ==
  WithVec(<<1, 2, 3>>, <<SetV("vec::remove", <<Lit(2, I(1))>>),
                         RetV("vec::get_value", <<Lit(2, I(1))>>)>>)
VecInsertFirst ==
  WithVec(<<1, 2>>, <<SetV("vec::insert", <<Lit(2, I(0)), Lit(3, I(3))>>),
                      RetV("vec::get_value", <<Lit(2, I(0))>>)>>)
VecHolds(n) == WithVec(<<1, 2, 3>>, <<RetV("vec::contains", <<Lit(2, I(n))>>)>>)
VecCleared ==
  WithVec(<<1, 2>>, <<Let("a", Vecs("vec::clear", <<>>)),
                      Ret(LibCall("vec::len", <<Var(1, "a")>>))>>)

\* An index at, before and past the ends, and what is left of v.
VecInsertAt == WithVec(<<1, 2>>, <<RetV("vec::insert", <<Var(2, "i"), Lit(3, I(3))>>)>>)
VecRemoveAt == WithVec(<<1, 2>>, <<RetV("vec::remove", <<Var(2, "i")>>)>>)
VecGetAt == WithVec(<<1, 2>>, <<RetV("vec::get", <<Var(2, "i")>>)>>)
VecValueAt == WithVec(<<1, 2>>, <<RetV("vec::get_value", <<Var(2, "i")>>)>>)

\* An element moved from one end to the other: the length follows.
VecRotated ==
  WithVec(<<1, 2, 3>>, <<Let("a", Vecs("vec::get_value", <<Lit(2, I(0))>>)),
                         SetV("vec::remove", <<Lit(2, I(0))>>),
                         Let("b", Vecs("vec::len", <<>>)),
                         SetV("vec::insert", <<Var(2, "b"), Var(3, "a")>>),
                         Ret(Var(1, "v"))>>)

\* interpreter_option_is_variant and interpreter_option_unwrap_expect
OptionFn(make, ask) == IntFn(<<"i">>, <<Let("a", make), Ret(LibCall(ask, <<Var(1, "a")>>))>>)
MakeSome == LibCall("option::some", <<Lit(1, I(3))>>)
MakeNone == LibCall("option::none", <<>>)

PowerOf(b) == IntFn(<<"i">>, <<Ret(LibCall("math::ipow", <<Lit(1, I(b)), Var(2, "i")>>))>>)
Asserts == UnitFn(<<"i">>, <<Do(LibCall("err::assert",
                     <<Op(3, "LEI", <<Var(1, "i"), Lit(2, I(1))>>)>>))>>)

=============================================================================
