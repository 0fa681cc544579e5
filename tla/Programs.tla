------------------------------ MODULE Programs ------------------------------
(***************************************************************************)
(* Notation for the SMPL functions of the bounded instances, and the       *)
(* constants of the executor that do not depend on the instance.           *)
(***************************************************************************)
EXTENDS Integers, Sequences, SequencesExt

IntMin == -8
IntMax == 63
Shapes == {<<"x">>, <<"y">>}
MaxArray == 4
MCMaxIP == 1000

G == INSTANCE ByteGen
V == INSTANCE Values
Lib == INSTANCE Libraries
F == INSTANCE ExprFlow
C == INSTANCE CodeFlow WITH MaxIP <- MCMaxIP

I(n) == V!Int64(n)
B(b) == V!Truth(b)

MCEval(op, vals) == V!EvalOp(op, vals)
MCReplace(v, path, x) == V!ReplaceIn(v, path, x)
MCKey == {V!FieldKey("x"), V!FieldKey("y")}
MCOperation == V!Operations(Shapes, MaxArray)
MCUnit == V!UnitVal

\* Two SMPL functions, two builtins, of which the host maps the second, and
\* the functions of the libraries.
Library ==
  <<"vec::new", "vec::len", "vec::contains", "vec::push", "vec::insert",
    "vec::get_value", "vec::get", "vec::remove", "vec::clear", "option::some",
    "option::none", "option::is_some", "option::is_none", "option::unwrap",
    "err::assert", "math::ipow">>
LibraryFn(name) == 20 + (CHOOSE i \in DOMAIN Library : Library[i] = name)
LibraryFns == {20 + i : i \in DOMAIN Library}
MCFns == {1, 2}
MCBuiltins == {8, 9} \cup LibraryFns
MCFnName == [f \in MCFns \cup MCBuiltins |-> G!FnNameOf(f)]
MCNames == {MCFnName[f] : f \in MCFns \cup MCBuiltins}
             \cup {G!TmpName(t) : t \in 1 .. 24}
             \cup {"i", "a", "b", "f", "x", "accu", "bar", "array", "index", "v", "s", "_i"}

\* Integers, booleans, functions, and the arrays, the structures, the vecs
\* and the options of the tests.
MCVal ==
  LET elements == {I(n) : n \in 1 .. 3}
      vecs == {Lib!Vec(s, n) : s \in UNION {[1 .. k -> elements] : k \in 0 .. 3}, n \in 0 .. 3}
      pairs == {V!Array(s) : s \in [1 .. 2 -> {I(1), I(2), I(7)}]}
  IN  V!Ints \cup {B(b) : b \in BOOLEAN} \cup {V!UnitVal}
        \cup {V!FnOf(f) : f \in MCFns \cup MCBuiltins}
        \cup {V!Array(s) : s \in [1 .. 4 -> {I(n) : n \in 0 .. 3}]} \cup pairs
        \cup V!StructsOf({I(0), I(5)}, {"x"}) \cup V!StructsOf(pairs, {"y"})
        \cup vecs \cup {Lib!Some(x) : x \in elements} \cup {Lib!None}

-----------------------------------------------------------------------------
(* Expressions; t is the first temporary an expression uses. *)

T(id, v) == [id |-> id, value |-> v]
Lit(t, v) == <<T(t, [v |-> "Literal", lit |-> v])>>
Var(t, name) == <<T(t, [v |-> "Binding", name |-> name])>>
FnRef(t, f) == Var(t, G!FnNameOf(f))

LastId(e) == e[Len(e)].id
Op(t, op, es) ==
  Append(FlattenSeq(es), T(t, [v |-> "Op", op |-> <<op>>,
                               args |-> [i \in DOMAIN es |-> LastId(es[i])]]))
StructOf(t, fields, es) ==
  Append(FlattenSeq(es), T(t, [v |-> "Op", op |-> <<"Struct", fields>>,
                               args |-> [i \in DOMAIN es |-> LastId(es[i])]]))
\* The function value is read before the arguments (flatten_expr).
Call(t, fn, es) ==
  Append(fn \o FlattenSeq(es), T(t, [v |-> "Call", fn |-> LastId(fn),
                                  args |-> [i \in DOMAIN es |-> LastId(es[i])]]))

Path(root, index, path) == [root |-> root, index |-> index, path |-> path]
Seg(field, index) == [field |-> field, index |-> index]
Access(t, acc) == <<T(t, [v |-> "Access", root |-> acc.root, index |-> acc.index,
                          path |-> acc.path])>>

\* Statements.
Let(name, e) == [s |-> "Decl", name |-> name, value |-> e]
SetTo(acc, e) == [s |-> "Assign", to |-> acc, value |-> e]
Set(name, e) == SetTo(Path(name, <<>>, <<>>), e)
Do(e) == [s |-> "Expr", value |-> e]
Ret(e) == [s |-> "Return", value |-> <<e>>]
RetUnit == [s |-> "Return", value |-> <<>>]
If(id, c, then, else) ==
  [s |-> "If", id |-> id, cond |-> c, then |-> then, else |-> else]
While(id, c, body) == [s |-> "While", id |-> id, cond |-> c, body |-> body]
Continue(id) == [s |-> "Continue", id |-> id]

\* Functions.
IntFn(params, body) == [params |-> params, unit |-> FALSE, body |-> body]
UnitFn(params, body) == [params |-> params, unit |-> TRUE, body |-> body]
Absent == UnitFn(<<>>, <<>>)

-----------------------------------------------------------------------------

\* The program of two functions, as AVM::new has it.
Made(fns, entry) ==
  [compiled |-> <<G!CompileToByteCode(fns[1]), G!CompileToByteCode(fns[2])>>,
   params |-> <<fns[1].params, fns[2].params>>,
   mapped |-> {9},
   entry |-> entry]

\* The program with the addresses that control reaches in each function and
\* the results it is allowed.
Tested(p, expected) ==
  [compiled |-> p.compiled, params |-> p.params, mapped |-> p.mapped,
   entry |-> p.entry, expected |-> expected,
   flow |-> <<C!Reached(p.compiled[1]), C!Reached(p.compiled[2])>>]
MCFlow(p, f) == p.flow[f]

=============================================================================
