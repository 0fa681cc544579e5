----------------------------- MODULE Structured -----------------------------
(***************************************************************************)
(* What a SMPL function means, read off its statements with no byte code:  *)
(* the reference the compiled code is compared with.  Variables are scoped *)
(* by blocks, as README.md says ("Lexically scoped").                      *)
(*                                                                         *)
(* A configuration is [tag, scopes, tmp, val]: tag "normal" while          *)
(* execution goes on, "returned" with val once it has returned, "continue" *)
(* on its way to the next round of a loop, and "error", "panic" or         *)
(* "diverges" when it will not return.  fuel bounds the rounds of a loop   *)
(* and the depth of calls.                                                 *)
(*                                                                         *)
(* The meaning of an expression is also read off its tree (ExprFlow says   *)
(* what trees there are), with no temporaries: from left to right, to the  *)
(* first part that has no value.                                           *)
(***************************************************************************)
EXTENDS Integers, Sequences, SequencesExt

CONSTANTS IntMin, IntMax,
          Functions,  \* the functions by value: [params, body, unit]
          FnNamed     \* the function values by the name they are bound to

LOCAL INSTANCE Values

Config(tag, scopes, val) == [tag |-> tag, scopes |-> scopes, tmp |-> <<>>, val |-> val]
Ends(c, tag) == [c EXCEPT !.tag = tag]

\* The innermost scope that declares name, 0 if there is none.
Holder(scopes, name) ==
  LET at == {i \in DOMAIN scopes : name \in DOMAIN scopes[i]}
  IN  IF at = {} THEN 0 ELSE CHOOSE i \in at : \A j \in at : j <= i

With(fcn, k, v) == [x \in {k} \cup DOMAIN fcn |-> IF x = k THEN v ELSE fcn[x]]

Declare(c, name, v) == [c EXCEPT !.scopes[Len(c.scopes)] = With(@, name, v)]
Assign(c, name, v) == [c EXCEPT !.scopes[Holder(c.scopes, name)] = With(@, name, v)]
VarValue(c, name) ==
  IF Holder(c.scopes, name) = 0 THEN FnNamed[name]
                                ELSE c.scopes[Holder(c.scopes, name)][name]

RECURSIVE Evaluate(_, _, _), Execute(_, _, _), Apply(_, _, _)

Result(expr, c) == c.tmp[expr[Len(expr)].id]

\* The keys of an access path, its index expressions evaluated in order.
PathKeys(acc, c, fuel) ==
  LET IndexOf(e) == Result(e, Evaluate(e, c, fuel))
  IN  [i \in DOMAIN acc.index |-> IndexOf(acc.index[i])] \o
      FlattenSeq([i \in DOMAIN acc.path |->
        <<FieldKey(acc.path[i].field)>> \o
        [j \in DOMAIN acc.path[i].index |-> IndexOf(acc.path[i].index[j])]])

ValueAt(v, keys) == LET x == SelectIn(v, keys, <<"none">>)
                    IN  IF x = <<"none">> THEN Panicked ELSE Value(x)

TmpResult(v, c, fuel) ==
  LET ArgsOf(ids) == [i \in DOMAIN ids |-> c.tmp[ids[i]]]
  IN  CASE v.v = "Literal" -> Value(v.lit)
        [] v.v = "Binding" -> Value(VarValue(c, v.name))
        [] v.v = "Access" -> ValueAt(VarValue(c, v.root), PathKeys(v, c, fuel))
        [] v.v = "Op" -> EvalOp(v.op, ArgsOf(v.args))
        [] v.v = "Indexing" -> ValueAt(c.tmp[v.array], <<c.tmp[v.indexer]>>)
        [] v.v = "Call" -> Apply(c.tmp[v.fn], ArgsOf(v.args), fuel)

\* The temporaries of an expression, one after the other.
Evaluate(expr, c, fuel) ==
  LET After[i \in 0 .. Len(expr)] ==
        IF i = 0 THEN c
        ELSE LET b == After[i - 1]
                 r == TmpResult(expr[i].value, b, fuel)
             IN  IF b.tag # "normal" THEN b
                 ELSE IF r.tag # "value" THEN Ends(b, r.tag)
                 ELSE [b EXCEPT !.tmp = With(@, expr[i].id, r.val)]
  IN  After[Len(expr)]

\* A block in a scope of its own.
Block(stmts, c, fuel) ==
  LET r == Execute(stmts, [c EXCEPT !.scopes = Append(@, <<>>)], fuel)
  IN  [r EXCEPT !.scopes = SubSeq(@, 1, Len(c.scopes))]

AssignTo(acc, v, c, fuel) ==
  IF acc.index = <<>> /\ acc.path = <<>> THEN Assign(c, acc.root, v)
  ELSE LET keys == PathKeys(acc, c, fuel)
           root == VarValue(c, acc.root)
       IN  IF ValueAt(root, keys).tag = "panic" THEN Ends(c, "panic")
           ELSE Assign(c, acc.root, ReplaceIn(root, keys, v))

\* A condition that is no boolean is an error.
Goes(cond, r) == IF cond \in {Truth(TRUE), Truth(FALSE)} THEN r ELSE Ends(r, "error")

Loop(s, c, fuel) ==
  LET Round[n \in 0 .. fuel] ==
        LET b == IF n = 0 THEN c ELSE Round[n - 1]
            d == Evaluate(s.cond, [b EXCEPT !.tag = "normal"], fuel)
        IN  IF b.tag \notin {"normal", "continue"} THEN b
            ELSE IF n = fuel THEN Ends(b, "diverges")
            ELSE IF d.tag # "normal" THEN d
            ELSE IF Result(s.cond, d) = Truth(FALSE) THEN Ends(d, "left")
            ELSE Goes(Result(s.cond, d), Block(s.body, d, fuel))
  IN  LET r == Round[fuel] IN IF r.tag = "left" THEN Ends(r, "normal") ELSE r

Statement(s, c, fuel) ==
  CASE s.s = "Continue" -> Ends(c, "continue")
    [] s.s = "While" -> Loop(s, c, fuel)
    [] s.s = "Return" /\ s.value = <<>> -> [c EXCEPT !.tag = "returned", !.val = UnitVal]
    [] OTHER ->
         LET e == CASE s.s = "If" -> s.cond
                    [] s.s = "Return" -> s.value[1]
                    [] OTHER -> s.value
             d == Evaluate(e, c, fuel)
         IN  IF d.tag # "normal" THEN d
             ELSE CASE s.s = "Expr" -> d
                    [] s.s = "Decl" -> Declare(d, s.name, Result(e, d))
                    [] s.s = "Assign" -> AssignTo(s.to, Result(e, d), d, fuel)
                    [] s.s = "Return" -> [d EXCEPT !.tag = "returned", !.val = Result(e, d)]
                    [] s.s = "If" ->
                         Goes(Result(e, d),
                              Block(IF Result(e, d) = Truth(TRUE) THEN s.then ELSE s.else,
                                    d, fuel))

Execute(stmts, c, fuel) ==
  LET After[i \in 0 .. Len(stmts)] ==
        IF i = 0 THEN c
        ELSE LET b == After[i - 1]
             IN  IF b.tag = "normal" THEN Statement(stmts[i], b, fuel) ELSE b
  IN  After[Len(stmts)]

\* A call of function value f: the value it returns, or how it ends instead.
Apply(f, args, fuel) ==
  IF f \notin DOMAIN Functions THEN Error
  ELSE LET fn  == Functions[f]
           env == [n \in {fn.params[i] : i \in DOMAIN fn.params} |->
                     args[CHOOSE i \in DOMAIN fn.params : fn.params[i] = n]]
           r   == Execute(fn.body, Config("normal", <<env>>, UnitVal), fuel - 1)
       IN  IF fuel = 0 THEN [tag |-> "diverges"]
           ELSE IF Len(args) # Len(fn.params) THEN Error
           ELSE IF r.tag = "returned" THEN Value(r.val)
           ELSE IF r.tag = "normal" THEN Value(UnitVal)
           ELSE [tag |-> r.tag]

-----------------------------------------------------------------------------
(* Trees. *)

Then(r, F(_)) == IF r.tag = "value" THEN F(r.val) ELSE r

RECURSIVE Tree(_, _, _)

Trees(trees, c, fuel) ==
  FoldLeft(LAMBDA r, t : Then(r, LAMBDA vals :
                           Then(Tree(t, c, fuel), LAMBDA v : Value(Append(vals, v)))),
           Value(<<>>), trees)

\* A call of a named function, behind the arguments that are already there.
Called(call, before, c, fuel) ==
  Then(Trees(call[3], c, fuel), LAMBDA vals : Apply(VarValue(c, call[2]), before \o vals, fuel))

\* The keys of the segments of a path, but for the field of the first.
TreeKeys(path, c, fuel) ==
  FoldLeft(LAMBDA r, i : Then(r, LAMBDA keys :
             Then(Trees(path[i].index, c, fuel), LAMBDA ks :
               Value(keys \o (IF i = 1 THEN <<>> ELSE <<FieldKey(path[i].field)>>) \o ks))),
           Value(<<>>), [i \in DOMAIN path |-> i])

Tree(t, c, fuel) ==
  CASE t[1] = "Literal" -> Value(t[2])
    [] t[1] \in {"Path", "AnonymousFn"} -> Value(VarValue(c, t[2]))
    [] t[1] = "Op" -> Then(Trees(t[3], c, fuel), LAMBDA vals : EvalOp(t[2], vals))
    [] t[1] = "Indexing" ->
         Then(Trees(Tail(t), c, fuel), LAMBDA vals : ValueAt(vals[1], <<vals[2]>>))
    [] t[1] = "FieldAccess" ->
         Then(TreeKeys(t[2], c, fuel), LAMBDA keys : ValueAt(VarValue(c, t[2][1].field), keys))
    [] t[1] = "FnCall" -> Called(t, <<>>, c, fuel)
    [] t[1] = "Chain" ->
         FoldLeft(LAMBDA r, call : Then(r, LAMBDA v : Called(call, <<v>>, c, fuel)),
                  Called(t[2], <<>>, c, fuel), t[3])

=============================================================================
