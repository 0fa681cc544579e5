---------------------------- MODULE ScopeResolver ----------------------------
(***************************************************************************)
(* Scope resolution (smpl/src/analysis/resolve_scope.rs) as a passenger of *)
(* the traversal: a stack of scopes, each a copy of the one it was entered *)
(* from, in which every name of the function is looked up.  Types are left *)
(* out.  Expressions and statements are written as in ByteGen; a module    *)
(* path is a name.                                                         *)
(***************************************************************************)
EXTENDS Integers, Sequences, SequencesExt

CONSTANT Exprs  \* the expressions considered, those inside others included

\* What a name may denote.  Ids of variables come from a counter in the code;
\* here parameter i is -i, a declaration has the id of its initial value.
Variable(id) == <<"var", id>>
FnId(f) == <<"fn", f>>
Unknown == <<"unknown">>

VarOf(decl) == Variable(Last(decl.value).id)

\* HashMap::insert.
Put(map, key, x) == [k \in DOMAIN map \cup {key} |-> IF k = key THEN x ELSE map[k]]

\* ScopedData: the variables and functions by name.
Scoped(vars, fns) == [vars |-> vars, fns |-> fns]
InsertVar(scope, name, var) == [scope EXCEPT !.vars = Put(@, name, var)]

VarId(scope, name) == IF name \in DOMAIN scope.vars THEN scope.vars[name] ELSE Unknown
GetFn(scope, path) == IF path \in DOMAIN scope.fns THEN scope.fns[path] ELSE Unknown
BindingInfo(scope, name) ==
  IF name \in DOMAIN scope.vars THEN scope.vars[name] ELSE GetFn(scope, name)

\* Of parameters with one name the last one is inserted last.
Parameter(params, name) ==
  LET named == {i \in DOMAIN params : params[i] = name}
  IN  Variable(-(CHOOSE i \in named : \A j \in named : j <= i))
Parameters(scope, params) ==
  [scope EXCEPT !.vars = [name \in DOMAIN @ \cup ToSet(params) |->
                            IF name \in ToSet(params) THEN Parameter(params, name) ELSE @[name]]]

\* Mutant: an anonymous function sees the variables around it.
FnScopeCaptures(outer, params) == Parameters(outer, params)

\* generate_fn_analysis_data: the scope of a function, from the one around it
\* without the variables.
FnScope(outer, params) == Parameters([outer EXCEPT !.vars = <<>>], params)

\* bound: what the temporaries and the assigned paths denote; anon: the scopes
\* around anonymous functions.
New(scope) == [outcome |-> "going", scopes |-> <<scope>>, bound |-> <<>>, anon |-> <<>>]

Current(p) == Last(p.scopes)
Panics(p) == [p EXCEPT !.outcome = "panicked"]

\* One after the other, until the first error.
Try(p, x, Do(_, _)) == IF p.outcome = "going" THEN Do(p, x) ELSE p
Each(p, xs, Do(_, _)) ==
  LET after[k \in 0 .. Len(xs)] == IF k = 0 THEN p ELSE Try(after[k - 1], xs[k], Do)
  IN  after[Len(xs)]

\* set_id, set_root_var, set_fn_id: an id is set once.
Set(p, key, id) ==
  IF id = Unknown THEN [p EXCEPT !.outcome = "failed"]
  ELSE IF key \in DOMAIN p.bound THEN Panics(p)
  ELSE [p EXCEPT !.bound = Put(@, key, id)]

TmpKey(t) == <<"tmp", t.id>>
PathKey(assign) == <<"to", Last(assign.value).id>>
Indices(path) == FlattenSeq([i \in DOMAIN path |-> path[i].index])

\* The temporaries of an expression in the order they are resolved: those in the
\* indices of an access path that is read come before the path itself, and the
\* index of its root is not looked into.
InOrder[expr \in Exprs] ==
  LET within(t) == IF t.value.v = "Access" THEN Indices(t.value.path) ELSE <<>>
  IN  FlattenSeq([i \in DOMAIN expr |->
        Append(FlattenSeq([j \in DOMAIN within(expr[i]) |-> InOrder[within(expr[i])[j]]]),
               expr[i])])
Tmps(exprs) == FlattenSeq([i \in DOMAIN exprs |-> InOrder[exprs[i]]])

ResolveTmp(p, t) ==
  CASE t.value.v = "Binding" -> Set(p, TmpKey(t), BindingInfo(Current(p), t.value.name))
    [] t.value.v = "Access" -> Set(p, TmpKey(t), VarId(Current(p), t.value.root))
    [] t.value.v \in {"ModAccess", "TypeInst"} -> Set(p, TmpKey(t), GetFn(Current(p), t.value.path))
    [] t.value.v = "AnonymousFn" ->
         IF t.value.fn \in DOMAIN p.anon THEN Panics(p)
         ELSE [p EXCEPT !.anon = Put(@, t.value.fn, Current(p))]
    [] OTHER -> p

\* resolve_expr_scope, of one expression after the other.
Resolve(p, exprs) == Each(p, Tmps(exprs), ResolveTmp)

\* Mutant: the variable is there before its initial value is resolved.
LocalVarDeclEarly(p, s) ==
  Resolve([p EXCEPT !.scopes[Len(p.scopes)] = InsertVar(@, s.name, VarOf(s))], <<s.value>>)

LocalVarDecl(p, s) ==
  LET q == Resolve(p, <<s.value>>)
  IN  IF q.outcome = "going"
      THEN [q EXCEPT !.scopes[Len(q.scopes)] = InsertVar(@, s.name, VarOf(s))] ELSE q

\* The indices of the path that is assigned to, then the value.
Assigned(s) == s.to.index \o Indices(s.to.path) \o <<s.value>>

Assignment(p, s) ==
  LET q == Set(p, PathKey(s), VarId(Current(p), s.to.root))
  IN  IF q.outcome = "going" THEN Resolve(q, Assigned(s)) ELSE q

Stmt(p, s) ==
  CASE s.s = "Decl" -> LocalVarDecl(p, s)
    [] s.s = "Assign" -> Assignment(p, s)
    [] s.s = "Expr" -> Resolve(p, <<s.value>>)

EnterScope(p) == [p EXCEPT !.scopes = Append(@, Current(p))]

\* Mutant: a scope is left by clearing it, and stays.
ExitScopeClears(p) == [p EXCEPT !.scopes[Len(p.scopes)].vars = <<>>]

ExitScope(p) == IF p.scopes = <<>> THEN Panics(p) ELSE [p EXCEPT !.scopes = Front(@)]

\* The callbacks by name; those left out do nothing.
On(event, p, node) ==
  CASE event = "enter_scope" -> EnterScope(p)
    [] event = "exit_scope" -> ExitScope(p)
    [] event = "block" -> Each(p, node.stmts, Stmt)
    [] event = "ret" -> Resolve(p, node.stmt.value)
    [] event \in {"loop_head", "branch_split"} -> Resolve(p, <<node.cond>>)
    [] OTHER -> p

=============================================================================
