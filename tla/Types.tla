-------------------------------- MODULE Types --------------------------------
(***************************************************************************)
(* Types: the type constructors made of declarations (type_cons_gen.rs),   *)
(* annotations (type_from_ann), substitution and the fusing of width       *)
(* constraints (abstract_type.rs), equality (type_equality.rs) and         *)
(* subtyping (type_resolver.rs).  A program is some declarations and a     *)
(* function whose parameter is returned as another type, or bound to a     *)
(* variable of that type.                                                  *)
(* A HashMap is a function, iterated in an order of names that the program *)
(* comes with.  Left out are spans, float and string, which are like int,  *)
(* App2, whose constructor is spelled out where App has its id, and the    *)
(* unchecked functions of builtin modules, whose parameters are not looked *)
(* at.                                                                     *)
(***************************************************************************)
EXTENDS Integers, Sequences, FiniteSets, SequencesExt, FiniteSetsExt, TLC

CONSTANTS Programs, MaxDepth
ASSUME MaxDepthAssumption == MaxDepth \in Nat

\* The program, the declarations without a constructor yet, the constructors;
\* of the function its scope with its typing context, the type of its
\* parameter and the one it returns; how the analysis goes.
VARIABLES program, todo, universe, context, found, returned, outcome

vars == <<program, todo, universe, context, found, returned, outcome>>

-----------------------------------------------------------------------------
(* Results.                                                                *)

Ok(v) == [is |-> "ok", of |-> v]
Stop(how) == [is |-> how, of |-> <<>>]
Error == Stop("error")
Panic == Stop("panic")
Done == Ok(<<>>)

\* r?
Bind(r, F(_)) == IF r.is = "ok" THEN F(r.of) ELSE r
\* collect::<Result<_, _>>: up to the first that fails.
Each(xs, F(_)) ==
  FoldLeft(LAMBDA acc, x : Bind(acc, LAMBDA ys : Bind(F(x), LAMBDA y : Ok(Append(ys, y)))),
           Ok(<<>>), xs)
\* The folds over results: errors are kept until all have been looked at.
All(xs, F(_)) ==
  FoldLeft(LAMBDA acc, x : IF acc.is \notin {"ok", "error"} THEN acc
                           ELSE LET r == F(x) IN IF r.is # "ok" THEN r
                                                 ELSE Bind(acc, LAMBDA ys : Ok(Append(ys, r.of))),
           Ok(<<>>), xs)

\* Maps, in the order in which they are iterated.
Keys(env, map) == SelectSeq(env.order, LAMBDA n : n \in DOMAIN map)
MapOf(keys, values) == [k \in ToSet(keys) |-> values[CHOOSE i \in DOMAIN keys : keys[i] = k]]
EachOf(env, map, F(_)) ==
  LET keys == Keys(env, map) IN Bind(Each(keys, F), LAMBDA vs : Ok(MapOf(keys, vs)))
AllOf(env, map, F(_)) ==
  LET keys == Keys(env, map) IN Bind(All(keys, F), LAMBDA vs : Ok(MapOf(keys, vs)))

-----------------------------------------------------------------------------
(* AbstractType.  A width constraint is not evaluated, with the types for  *)
(* each field and the bases, or evaluated.                                 *)

Anything == <<"Any">>
Base(b) == <<"Base", b>>
Evaluated(fields) == <<"Evaluated", fields>>
IsWidth(t) == t[1] \in {"Width", "Evaluated"}
Is(kind, s, c) == s[1] = kind /\ c[1] = kind

TypeVar(ctx, v) == IF v \in DOMAIN ctx THEN Ok(ctx[v]) ELSE Panic

\* One question to the operators below, which ask each other; depth bounds
\* the type constructors applied within each other.
RECURSIVE Ask(_, _, _)

Substituted(env, t, map, depth) == Ask(env, [ask |-> "substitute", type |-> t, map |-> map], depth)
Evaluation(env, w, depth) == Ask(env, [ask |-> "evaluate", width |-> w], depth)
Related(env, rel, s, c, depth) == Ask(env, [ask |-> rel, found |-> s, expected |-> c], depth)

\* apply_internal.
Apply(env, cons, map, depth) ==
  LET Sub(t) == Substituted(env, t, map, depth)
  IN  CASE cons.kind = "Record" ->
             Bind(EachOf(env, cons.fields, LAMBDA n : Sub(cons.fields[n])),
                  LAMBDA fields : Ok(<<"Record", cons.id, fields>>))
        [] cons.kind = "Fn" ->
             Bind(Each(cons.parameters, Sub), LAMBDA ps :
               Bind(Sub(cons.result), LAMBDA r : Ok(<<"Fn", ps, r>>)))
        [] cons.kind = "Opaque" ->
             Ok(<<"Opaque", cons.id, [i \in DOMAIN cons.params |-> map[cons.params[i][1]]]>>)
        [] cons.kind = "Base" -> Ok(Base(cons.id))

\* A type constructor with its arguments: their number, then the constraints
\* with the arguments in them.
Applied(env, cons, typeArgs, map, depth) ==
  IF depth = 0 THEN Stop("overflow")
  ELSE Bind(All(typeArgs, LAMBDA a : Substituted(env, a, map, depth - 1)), LAMBDA args :
    IF Len(args) # Len(cons.params) THEN Error
    ELSE LET inner == [v \in {cons.params[i][1] : i \in DOMAIN args} |->
                         args[CHOOSE i \in DOMAIN args : cons.params[i][1] = v]]
             index == [i \in DOMAIN args |-> i]
         IN  Bind(All(cons.params, LAMBDA p : Substituted(env, p[2], inner, depth - 1)), LAMBDA cs :
             Bind(All(index, LAMBDA i : Related(env, "resolve", args[i], cs[i], depth - 1)), LAMBDA r :
               Apply(env, cons, inner, depth - 1))))

\* substitute_internal: the type with its variables replaced and all its
\* constructors applied.
Substitute(env, t, map, depth) ==
  LET Sub(x) == Substituted(env, x, map, depth)
      Fields(fs) == AllOf(env, fs, LAMBDA n : Sub(fs[n]))
  IN  CASE t[1] = "App" -> Applied(env, env.cons[t[2]], t[3], map, depth)
        [] t[1] = "Record" -> Bind(Fields(t[3]), LAMBDA fs : Ok(<<"Record", t[2], fs>>))
        [] t[1] = "Array" -> Bind(Sub(t[2]), LAMBDA e : Ok(<<"Array", e, t[3]>>))
        [] t[1] = "Fn" -> Bind(All(t[2], Sub), LAMBDA ps : Bind(Sub(t[3]), LAMBDA r : Ok(<<"Fn", ps, r>>)))
        [] IsWidth(t) -> Bind(Evaluation(env, t, depth), LAMBDA w :
                           Bind(Fields(w[2]), LAMBDA fs : Ok(Evaluated(fs))))
        [] t[1] = "TypeVar" -> Ok(IF t[2] \in DOMAIN map THEN map[t[2]] ELSE t)
        [] t[1] = "Opaque" -> Bind(All(t[3], Sub), LAMBDA args : Ok(<<"Opaque", t[2], args>>))
        [] OTHER -> Ok(t)

\* substitute: only an application is looked into.
SubstituteApp(env, t, depth) == IF t[1] = "App" THEN Substituted(env, t, <<>>, depth) ELSE Ok(t)

Pushed(lists, name, first, t) ==
  [n \in DOMAIN lists \cup {name} |->
     IF n # name THEN lists[n] ELSE Append(IF name \in DOMAIN lists THEN lists[name] ELSE first, t)]
PushedAll(env, lists, fields, First(_)) ==
  FoldLeft(LAMBDA l, n : Pushed(l, n, First(fields[n]), fields[n]), lists, Keys(env, fields))

\* The fields of a base are added to those written out: those of a width
\* constraint twice when they are the first.
WithBase(env, lists, base, depth) ==
  Bind(SubstituteApp(env, base, depth), LAMBDA t :
    CASE t[1] = "Record" -> Ok(PushedAll(env, lists, t[3], LAMBDA x : <<>>))
      [] IsWidth(t) -> Bind(Evaluation(env, t, depth), LAMBDA w :
                         Ok(PushedAll(env, lists, w[2], LAMBDA x : <<x>>)))
      [] OTHER -> Panic)

\* Mutant: only the types of one field in common have to agree.
FuseFirst(env, ts, depth) == Ok(Head(ts))

\* fuse_field_width_constraints: all the types of one field.  Those that are
\* no width constraints must fit the first; of width constraints the fields
\* are fused, those of the first one left out.
Fuse(env, ts, depth) ==
  LET first == Head(ts)
      Fitting(t) == IF IsWidth(t) THEN Bind(Evaluation(env, t, depth), LAMBDA w : Error)
                    ELSE Related(env, "resolve", t, first, depth)
      Widened(t) == IF IsWidth(t) THEN Evaluation(env, t, depth) ELSE Error
      Inner(ws) == FoldLeft(LAMBDA l, w : PushedAll(env, l, w[2], LAMBDA x : <<>>), <<>>, ws)
  IN  IF ~IsWidth(first) THEN Bind(Each(Tail(ts), Fitting), LAMBDA r : Ok(first))
      ELSE Bind(Each(Tail(ts), Widened), LAMBDA ws :
             LET inner == Inner(ws) IN
             Bind(EachOf(env, inner, LAMBDA n : Ask(env, [ask |-> "fuse", types |-> inner[n]], depth)),
                  LAMBDA fs : Ok(Evaluated(fs))))

\* evaluate.
Evaluate(env, w, depth) ==
  IF w[1] = "Evaluated" THEN Ok(w)
  ELSE LET Gather(acc, b) == Bind(acc, LAMBDA lists : WithBase(env, lists, b, depth))
       IN  Bind(FoldLeft(Gather, Ok(w[2]), w[3]), LAMBDA lists :
             Bind(EachOf(env, lists, LAMBDA n : Ask(env, [ask |-> "fuse", types |-> lists[n]], depth)),
                  LAMBDA fs : Ok(Evaluated(fs))))

-----------------------------------------------------------------------------
(* Equality and subtyping: a found type against an expected one.           *)

\* Mutant: the loop returns with the first field.
FieldFirst(env, rel, iterated, s, c, depth) ==
  Each(IF Keys(env, iterated) = <<>> THEN <<>> ELSE <<Head(Keys(env, iterated))>>, LAMBDA n :
    IF n \in DOMAIN s /\ n \in DOMAIN c THEN Related(env, rel, s[n], c[n], depth) ELSE Error)

\* Field by field, in the order of the fields of the one that is iterated.
Fieldwise(env, rel, iterated, s, c, depth) ==
  Each(Keys(env, iterated), LAMBDA n :
    IF n \in DOMAIN s /\ n \in DOMAIN c THEN Related(env, rel, s[n], c[n], depth) ELSE Error)

Pairwise(env, rel, ss, cs, depth) ==
  Each([i \in 1 .. Min({Len(ss), Len(cs)}) |-> i], LAMBDA i : Related(env, rel, ss[i], cs[i], depth))

\* The arms that both relations have.
Structural(env, rel, s, c, depth) ==
  CASE Is("Record", s, c) ->
         IF s[2] # c[2] THEN Error ELSE Fieldwise(env, rel, s[3], s[3], c[3], depth)
    [] Is("Fn", s, c) ->
         IF Len(s[2]) # Len(c[2]) THEN Error
         ELSE Bind(Pairwise(env, IF rel = "equal" THEN "equal" ELSE "param", s[2], c[2], depth),
                   LAMBDA r : Related(env, rel, s[3], c[3], depth))
    [] Is("Array", s, c) -> IF s[3] # c[3] THEN Error ELSE Related(env, rel, s[2], c[2], depth)
    [] Is("Opaque", s, c) -> IF s[2] # c[2] THEN Error ELSE Pairwise(env, "equal", s[3], c[3], depth)
    [] Is("Base", s, c) \/ Is("TypeVar", s, c) -> IF s = c THEN Done ELSE Error
    [] OTHER -> Error

\* substitute().unwrap(): an application that fails is a panic.
Unwrapped(env, rel, s, c, depth) ==
  LET Sub(t) == LET r == SubstituteApp(env, t, depth) IN IF r = Error THEN Panic ELSE r
  IN  IF s[1] = "App" THEN Bind(Sub(s), LAMBDA t : Related(env, rel, t, c, depth))
      ELSE Bind(Sub(c), LAMBDA t : Related(env, rel, s, t, depth))

\* A type variable against another kind of type stands for its constraint.
Constrained(env, rel, s, c, depth) ==
  IF s[1] = "TypeVar" THEN Bind(TypeVar(env.ctx, s[2]), LAMBDA t : Related(env, rel, t, c, depth))
  ELSE Bind(TypeVar(env.ctx, c[2]), LAMBDA t : Related(env, rel, s, t, depth))

\* Both constraints evaluated, the expected one first.
BothWidths(env, s, c, depth, F(_, _)) ==
  Bind(Evaluation(env, c, depth), LAMBDA cw :
    Bind(IF IsWidth(s) THEN Evaluation(env, s, depth) ELSE Ok(s), LAMBDA sw :
      F(IF IsWidth(s) THEN sw[2] ELSE s[3], cw[2])))

\* Mutant: the numbers of fields are not compared.
EqualUncounted(env, s, c, depth) ==
  CASE IsWidth(s) /\ IsWidth(c) ->
         BothWidths(env, s, c, depth, LAMBDA sf, cf : Fieldwise(env, "equal", cf, sf, cf, depth))
    [] "App" \in {s[1], c[1]} -> Unwrapped(env, "equal", s, c, depth)
    [] "TypeVar" \in {s[1], c[1]} /\ s[1] # c[1] -> Constrained(env, "equal", s, c, depth)
    [] OTHER -> Structural(env, "equal", s, c, depth)

\* equal_types_static.
Equal(env, s, c, depth) ==
  CASE IsWidth(s) /\ IsWidth(c) ->
         BothWidths(env, s, c, depth, LAMBDA sf, cf :
           IF Cardinality(DOMAIN sf) # Cardinality(DOMAIN cf) THEN Error
           ELSE Fieldwise(env, "equal", cf, sf, cf, depth))
    [] "App" \in {s[1], c[1]} -> Unwrapped(env, "equal", s, c, depth)
    [] "TypeVar" \in {s[1], c[1]} /\ s[1] # c[1] -> Constrained(env, "equal", s, c, depth)
    [] OTHER -> Structural(env, "equal", s, c, depth)

\* resolve_types_static: the found type may have more fields.
Resolve(env, s, c, depth) ==
  CASE c = Anything -> Done
    [] (s[1] = "Record" \/ IsWidth(s)) /\ IsWidth(c) ->
         BothWidths(env, s, c, depth, LAMBDA sf, cf : Fieldwise(env, "resolve", cf, sf, cf, depth))
    [] "App" \in {s[1], c[1]} -> Unwrapped(env, "resolve", s, c, depth)
    [] "TypeVar" \in {s[1], c[1]} /\ s[1] # c[1] -> Constrained(env, "resolve", s, c, depth)
    [] OTHER -> Structural(env, "resolve", s, c, depth)

\* resolve_param_static: of parameters, the found type may have fewer fields.
Param(env, s, c, depth) ==
  CASE s = Anything -> IF c = Anything THEN Done ELSE Error
    [] s[1] = "Record" /\ IsWidth(c) -> Error
    [] IsWidth(s) /\ IsWidth(c) ->
         BothWidths(env, s, c, depth, LAMBDA sf, cf : Fieldwise(env, "resolve", sf, sf, cf, depth))
    [] IsWidth(s) /\ c[1] = "Record" ->
         Bind(Evaluation(env, s, depth), LAMBDA sw : Fieldwise(env, "resolve", sw[2], sw[2], c[3], depth))
    [] Is("TypeVar", s, c) ->
         IF s = c THEN Done
         ELSE Bind(TypeVar(env.ctx, s[2]), LAMBDA st :
                Bind(TypeVar(env.ctx, c[2]), LAMBDA ct : Related(env, "param", st, ct, depth)))
    [] "TypeVar" \in {s[1], c[1]} -> Constrained(env, "param", s, c, depth)
    [] "App" \in {s[1], c[1]} -> Unwrapped(env, "param", s, c, depth)
    [] OTHER -> Related(env, "resolve", s, c, depth)

Ask(env, q, depth) ==
  CASE q.ask = "substitute" -> Substitute(env, q.type, q.map, depth)
    [] q.ask = "evaluate" -> Evaluate(env, q.width, depth)
    [] q.ask = "fuse" -> Fuse(env, q.types, depth)
    [] q.ask = "equal" -> Equal(env, q.found, q.expected, depth)
    [] q.ask = "resolve" -> Resolve(env, q.found, q.expected, depth)
    [] q.ask = "param" -> Param(env, q.found, q.expected, depth)

-----------------------------------------------------------------------------
(* Annotations and declarations.                                           *)

\* A scope has type constructors and type variables by name.
RECURSIVE TypeFromAnn(_, _)

\* fuse_width_constraints: the fields by name, the first type of each twice,
\* and the bases, none of them evaluated.
Width(scope, constraints) ==
  LET Field(acc, f) == Bind(acc, LAMBDA w : Bind(TypeFromAnn(scope, f[2]), LAMBDA t :
                         Ok(<<"Width", Pushed(w[2], f[1], <<t>>, t), w[3]>>)))
      Constraint(acc, k) ==
        IF k[1] = "Anonymous" THEN FoldLeft(Field, acc, k[2])
        ELSE Bind(acc, LAMBDA w : Bind(TypeFromAnn(scope, k[2]), LAMBDA t :
               Ok(<<"Width", w[2], Append(w[3], t)>>)))
  IN  FoldLeft(Constraint, Ok(<<"Width", <<>>, <<>>>>), constraints)

TypeFromAnn(scope, ann) ==
  LET From(a) == TypeFromAnn(scope, a)
  IN  CASE ann[1] = "Path" ->
             IF ann[2] \in DOMAIN scope.vars
             THEN IF ann[3] # <<>> THEN Error ELSE Ok(<<"TypeVar", scope.vars[ann[2]]>>)
             ELSE IF ann[2] \notin scope.types THEN Error
             ELSE Bind(Each(ann[3], From), LAMBDA args : Ok(<<"App", ann[2], args>>))
        [] ann[1] = "Array" -> Bind(From(ann[2]), LAMBDA e : Ok(<<"Array", e, ann[3]>>))
        [] ann[1] = "FnType" ->
             IF ann[2] # <<>> THEN Error
             ELSE Bind(Each(ann[3], From), LAMBDA ps :
                    Bind(IF ann[4] = <<>> THEN Ok(Base("unit")) ELSE From(ann[4][1]), LAMBDA r :
                      Ok(<<"Fn", ps, r>>)))
        [] ann[1] = "Width" -> Width(scope, ann[2])

\* Mutant: the parameter is in the scope of its own constraint.
WhereEarlier(decl, w, name) ==
  LET v == <<decl.name, name>> IN
  IF name \notin w.left THEN Error
  ELSE IF Len(decl.where[name]) > 1 THEN Panic
  ELSE LET scope == [w.scope EXCEPT !.vars = (name :> v) @@ @] IN
       Bind(TypeFromAnn(scope, decl.where[name][1]), LAMBDA t :
         IF ~IsWidth(t) THEN Panic
         ELSE Ok([left |-> w.left \ {name}, scope |-> scope, ctx |-> (v :> t) @@ w.ctx]))

\* One parameter of the where clause: it gets into the scope behind its own
\* constraint.
Where(decl, w, name) ==
  IF name \notin w.left THEN Error
  ELSE IF Len(decl.where[name]) > 1 THEN Panic
  ELSE Bind(TypeFromAnn(w.scope, decl.where[name][1]), LAMBDA t :
    IF ~IsWidth(t) THEN Panic
    ELSE LET v == <<decl.name, name>> IN
         Ok([left |-> w.left \ {name}, scope |-> [w.scope EXCEPT !.vars = (name :> v) @@ @],
             ctx |-> (v :> t) @@ w.ctx]))

\* type_param_map: the parameters with their constraints, and the scope and
\* the typing context they are in.
TypeParamMap(order, scope, decl) ==
  LET Names == ToSet(decl.params)
      Var(n) == <<decl.name, n>>
      start == Ok([left |-> Names, scope |-> scope, ctx |-> [v \in {Var(n) : n \in Names} |-> Anything]])
      keys == SelectSeq(order, LAMBDA n : n \in DOMAIN decl.where)
  IN  IF Cardinality(Names) # Len(decl.params) THEN Error
      ELSE Bind(FoldLeft(LAMBDA acc, n : Bind(acc, LAMBDA w : Where(decl, w, n)), start, keys), LAMBDA w :
             Ok([params |-> [i \in DOMAIN decl.params |-> <<Var(decl.params[i]), w.ctx[Var(decl.params[i])]>>],
                 scope |-> [w.scope EXCEPT !.vars = [n \in w.left |-> Var(n)] @@ @],
                 ctx |-> w.ctx]))

\* generate_struct_type_cons, generate_opaque_type_cons.
TypeCons(order, scope, decl) ==
  Bind(TypeParamMap(order, scope, decl), LAMBDA p :
    IF decl.kind = "opaque" THEN Ok([kind |-> "Opaque", id |-> decl.name, params |-> p.params])
    ELSE Bind(Each(decl.fields, LAMBDA f : TypeFromAnn(p.scope, f[2])), LAMBDA ts :
      LET names == [i \in DOMAIN ts |-> decl.fields[i][1]] IN
      IF Cardinality(ToSet(names)) # Len(names) THEN Error
      ELSE Ok([kind |-> "Record", id |-> decl.name, params |-> p.params, fields |-> MapOf(names, ts)])))

\* generate_fn_type_cons.
FnTypeCons(order, scope, fn) ==
  Bind(TypeParamMap(order, scope, fn), LAMBDA p :
    Bind(IF fn.body = "return" THEN TypeFromAnn(p.scope, fn.expected) ELSE Ok(Base("unit")), LAMBDA r :
      Bind(TypeFromAnn(p.scope, fn.found), LAMBDA t :
        Ok([kind |-> "Fn", id |-> fn.name, params |-> p.params, parameters |-> <<t>>, result |-> r]))))

-----------------------------------------------------------------------------
(* The analysis.                                                           *)

BaseTypes == {"int", "bool", "unit"}
ModuleScope == [types |-> BaseTypes \cup {program.decls[i].name : i \in DOMAIN program.decls},
                vars |-> <<>>]
Env(ctx) == [order |-> program.order, cons |-> universe, ctx |-> ctx]

Init ==
  /\ program \in Programs
  /\ todo = DOMAIN program.decls
  /\ universe = [b \in BaseTypes |-> [kind |-> "Base", id |-> b, params |-> <<>>]]
  /\ context = <<>> /\ found = <<>> /\ returned = <<>> /\ outcome = "running"

\* The analysis goes on with the result, or ends with its error.
Goes(r) == outcome' = IF r.is = "ok" THEN "running" ELSE r.is

\* map_types: here in any order, none looks at another.
MapType(i) ==
  /\ outcome = "running" /\ i \in todo
  /\ LET r == TypeCons(program.order, ModuleScope, program.decls[i]) IN
       /\ Goes(r)
       /\ universe' = IF r.is = "ok" THEN (program.decls[i].name :> r.of) @@ universe ELSE universe
  /\ todo' = todo \ {i}
  /\ UNCHANGED <<program, context, found, returned>>

\* generate_analyzable_fns.
MapFn ==
  /\ outcome = "running" /\ todo = {} /\ program.fn.name \notin DOMAIN universe
  /\ LET r == FnTypeCons(program.order, ModuleScope, program.fn) IN
       /\ Goes(r)
       /\ universe' = IF r.is = "ok" THEN (program.fn.name :> r.of) @@ universe ELSE universe
  /\ UNCHANGED <<program, todo, context, found, returned>>

FnCons == universe[program.fn.name]
Existential(n) == <<"existential", n>>

\* generate_fn_analysis_data: the function's own type variables, with the
\* constraints of the parameters they stand for, and the type of p, in which
\* they take the place of those.  The typing context for that is still that of
\* the module.
AnalyzeFn ==
  /\ outcome = "running" /\ program.fn.name \in DOMAIN universe /\ context = <<>>
  /\ LET names == program.fn.params
         ps == FnCons.params
         map == [v \in {ps[i][1] : i \in DOMAIN ps} |-> <<"TypeVar", Existential(v[2])>>]
         r == Substituted(Env(<<>>), FnCons.parameters[1], map, MaxDepth)
     IN  /\ Goes(r)
         /\ found' = r.of
         /\ context' = [scope |-> [ModuleScope EXCEPT !.vars = [n \in ToSet(names) |-> Existential(n)]],
                        types |-> [v \in {Existential(n) : n \in ToSet(names)} |->
                                     ps[CHOOSE i \in DOMAIN ps : ps[i][1][2] = v[2]][2]]]
  /\ UNCHANGED <<program, todo, universe, returned>>

\* Mutant: the typing context is the one of the module.
NewTypeCheckerOuter ==
  /\ outcome = "running" /\ context # <<>> /\ returned = <<>>
  /\ LET args == [i \in DOMAIN program.fn.params |-> <<"TypeVar", Existential(program.fn.params[i])>>]
         r == Substituted(Env(<<>>), <<"App", program.fn.name, args>>, <<>>, MaxDepth)
     IN  /\ Goes(r)
         /\ returned' = IF r.is = "ok" THEN r.of[3] ELSE returned
  /\ UNCHANGED <<program, todo, universe, context, found>>

\* TypeChecker::new: the type the function returns.
NewTypeChecker ==
  /\ outcome = "running" /\ context # <<>> /\ returned = <<>>
  /\ LET args == [i \in DOMAIN program.fn.params |-> <<"TypeVar", Existential(program.fn.params[i])>>]
         r == Substituted(Env(context.types), <<"App", program.fn.name, args>>, <<>>, MaxDepth)
     IN  /\ Goes(r)
         /\ returned' = IF r.is = "ok" THEN r.of[3] ELSE returned
  /\ UNCHANGED <<program, todo, universe, context, found>>

End(how) == outcome' = how /\ UNCHANGED <<program, todo, universe, context, found, returned>>

\* ret.
Return ==
  /\ outcome = "running" /\ returned # <<>> /\ program.fn.body = "return"
  /\ End(Related(Env(context.types), "resolve", found, returned, MaxDepth).is)

\* local_var_decl with an annotation, whose constructors are not applied yet.
LocalVarDecl ==
  /\ outcome = "running" /\ returned # <<>> /\ program.fn.body = "let"
  /\ LET env == Env(context.types)
         r == Bind(TypeFromAnn(context.scope, program.fn.expected), LAMBDA t :
                Bind(Related(env, "resolve", found, t, MaxDepth), LAMBDA d : SubstituteApp(env, t, MaxDepth)))
     IN  End(r.is)

Stopped == outcome # "running" /\ UNCHANGED vars

Next ==
  \/ \E i \in todo : MapType(i)
  \/ MapFn \/ AnalyzeFn \/ NewTypeChecker \/ Return \/ LocalVarDecl \/ Stopped

Spec == Init /\ [][Next]_vars
=============================================================================
