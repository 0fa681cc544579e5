------------------------------- MODULE ExprFlow -------------------------------
(***************************************************************************)
(* Expression flow (analysis/expr_flow.rs): an expression tree is taken    *)
(* apart into temporaries, each after those it reads, in the order in      *)
(* which the byte code generator translates and the executor computes      *)
(* them.  The ids come from one counter for the whole function.            *)
(*                                                                         *)
(* A tree is a tuple that begins with its kind:                            *)
(*   Literal value, Path name, AnonymousFn name,                           *)
(*   Op operation trees      (unary, binary, structures and arrays),       *)
(*   Indexing array index, FnCall name trees, Chain call calls,            *)
(*   FieldAccess segments    (each a field with at most one index).        *)
(* A name is the one its value has at run time, in its module or another.  *)
(***************************************************************************)
EXTENDS Integers, Sequences, SequencesExt

\* typed_ast::Expr under construction, and LocalData's counter.
NewExpr(id) == [next |-> id, temps |-> <<>>]
MapTmp(scope, value) ==
  [next |-> scope.next + 1,
   temps |-> Append(scope.temps, [id |-> scope.next, value |-> value])]
LastTmp(scope) == Last(scope.temps).id

RECURSIVE FlattenExpr(_, _)

\* Mutant: the operands are taken from the last one to the first.
OperandsBackwards(scope, trees) ==
  LET r == FoldRight(LAMBDA tree, r :
             LET s == FlattenExpr(r.scope, tree)
             IN  [scope |-> s, ids |-> <<LastTmp(s)>> \o r.ids],
             trees, [scope |-> scope, ids |-> <<>>])
  IN  r

\* The operands one after the other, and the temporaries that hold them.
Operands(scope, trees) ==
  FoldLeft(LAMBDA r, tree :
             LET s == FlattenExpr(r.scope, tree)
             IN  [scope |-> s, ids |-> Append(r.ids, LastTmp(s))],
           [scope |-> scope, ids |-> <<>>], trees)

\* Path::new: an index is an expression of its own, with ids of the function.
Segments(id, path) ==
  FoldLeft(LAMBDA r, seg :
             IF seg.index = <<>> THEN [r EXCEPT !.path = Append(@, seg)]
             ELSE LET s == FlattenExpr(NewExpr(r.next), seg.index[1])
                  IN  [next |-> s.next,
                       path |-> Append(r.path, [seg EXCEPT !.index = <<s.temps>>])],
           [next |-> id, path |-> <<>>], path)

\* The function value is read before its arguments are computed.
FlattenCall(scope, call) ==
  LET f == FlattenExpr(scope, <<"Path", call[2]>>)
      r == Operands(f, call[3])
  IN  MapTmp(r.scope, [v |-> "Call", fn |-> LastTmp(f), args |-> r.ids])

\* One link of a chain: the result so far becomes its first argument.
Link(scope, call) ==
  LET s == FlattenCall(scope, call)
  IN  [s EXCEPT !.temps[Len(s.temps)].value.args = <<LastTmp(scope)>> \o @]

FlattenExpr(scope, tree) ==
  CASE tree[1] = "Literal" -> MapTmp(scope, [v |-> "Literal", lit |-> tree[2]])
    [] tree[1] \in {"Path", "AnonymousFn"} ->
         MapTmp(scope, [v |-> "Binding", name |-> tree[2]])
    [] tree[1] = "Op" ->
         LET r == Operands(scope, tree[3])
         IN  MapTmp(r.scope, [v |-> "Op", op |-> tree[2], args |-> r.ids])
    [] tree[1] = "Indexing" ->
         LET r == Operands(scope, <<tree[2], tree[3]>>)
         IN  MapTmp(r.scope, [v |-> "Indexing", array |-> r.ids[1], indexer |-> r.ids[2]])
    [] tree[1] = "FieldAccess" ->
         LET r == Segments(scope.next, tree[2])
         IN  MapTmp([scope EXCEPT !.next = r.next],
                    [v |-> "Access", root |-> Head(r.path).field,
                     index |-> Head(r.path).index, path |-> Tail(r.path)])
    [] tree[1] = "FnCall" -> FlattenCall(scope, tree)
    [] tree[1] = "Chain" -> FoldLeft(Link, FlattenCall(scope, tree[2]), tree[3])

\* flatten: the expression, when the next id of the function is given.
Flatten(id, tree) == FlattenExpr(NewExpr(id), tree).temps

=============================================================================
