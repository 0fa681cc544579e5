------------------------------- MODULE MCTypes -------------------------------
(***************************************************************************)
(* Bounded instances of the types: functions whose parameter has one       *)
(* annotation and meets another one, over structs and opaque types with    *)
(* and without parameters, and every order of the hash maps of two names.  *)
(***************************************************************************)
EXTENDS Types

IntAnn == <<"Path", "int", <<>>>>
BoolAnn == <<"Path", "bool", <<>>>>
Named(n) == <<"Path", n, <<>>>>
Of(n, a) == <<"Path", n, <<a>>>>
Anon(fields) == <<"Anonymous", fields>>
WidthAnn(fields) == <<"Width", <<Anon(fields)>>>>
FnAnn(p, r) == <<"FnType", <<>>, <<p>>, <<r>>>>
OneX == WidthAnn(<<<<"x", IntAnn>>>>)
TwoXY == WidthAnn(<<<<"x", IntAnn>>, <<"y", IntAnn>>>>)
Held(a) == WidthAnn(<<<<"p", a>>>>)

-----------------------------------------------------------------------------
(* Declarations by name; those whose name begins with Rec contain          *)
(* themselves.                                                             *)

Struct(name, params, where, fields) ==
  [kind |-> "struct", name |-> name, params |-> params, where |-> where, fields |-> fields]
Declarations ==
  [Point |-> Struct("Point", <<>>, <<>>, <<<<"x", IntAnn>>, <<"y", IntAnn>>>>),
   Other |-> Struct("Other", <<>>, <<>>, <<<<"x", IntAnn>>, <<"y", IntAnn>>>>),
   Line |-> Struct("Line", <<>>, <<>>, <<<<"p", Named("Point")>>>>),
   Holder |-> Struct("Holder", <<>>, <<>>, <<<<"p", OneX>>>>),
   Box |-> Struct("Box", <<"T">>, <<>>, <<<<"p", Named("T")>>>>),
   BoxX |-> Struct("BoxX", <<"T">>, "T" :> <<OneX>>, <<<<"p", Named("T")>>>>),
   Opt |-> [kind |-> "opaque", name |-> "Opt", params |-> <<"T">>, where |-> <<>>, fields |-> <<>>],
   Rec |-> Struct("Rec", <<>>, <<>>, <<<<"x", IntAnn>>, <<"p", Of("Opt", Named("Rec"))>>>>),
   RecBox |-> Struct("RecBox", <<"T">>, <<>>, <<<<"p", Of("Box", Of("RecBox", Named("T")))>>>>),
   Twice |-> Struct("Twice", <<>>, <<>>, <<<<"x", IntAnn>>, <<"x", BoolAnn>>>>),
   Odd |-> Struct("Odd", <<"T">>, "T" :> <<IntAnn>>, <<>>)]

\* The declarations an annotation needs.
RECURSIVE NamesIn(_)
NamesIn(a) ==
  CASE a[1] = "Path" -> {a[2]} \cup UNION {NamesIn(a[3][i]) : i \in DOMAIN a[3]}
    [] a[1] = "Array" -> NamesIn(a[2])
    [] a[1] = "FnType" -> UNION {NamesIn(a[3][i]) : i \in DOMAIN a[3]} \cup UNION {NamesIn(a[4][i]) : i \in DOMAIN a[4]}
    [] a[1] = "Width" ->
         UNION {IF a[2][i][1] = "Anonymous" THEN UNION {NamesIn(a[2][i][2][j][2]) : j \in DOMAIN a[2][i][2]}
                ELSE NamesIn(a[2][i][2]) : i \in DOMAIN a[2]}
RECURSIVE Closure(_)
Closure(names) ==
  LET more == names \cup UNION {UNION {NamesIn(Declarations[n].fields[i][2]) : i \in DOMAIN Declarations[n].fields} :
                                  n \in names}
      next == more \cap DOMAIN Declarations
  IN  IF next = names THEN names ELSE Closure(next)

-----------------------------------------------------------------------------
(* Programs.                                                               *)

Orders == {<<"T", "U", "p", "x", "y">>, <<"U", "T", "y", "x", "p">>}
Fn(params, where, s, c, body) ==
  [name |-> "f", params |-> params, where |-> where, found |-> s, expected |-> c, body |-> body]
Program(f, order) ==
  [order |-> order, fn |-> f,
   decls |-> SetToSeq({Declarations[n] :
               n \in Closure((NamesIn(f.found) \cup NamesIn(f.expected)) \cap DOMAIN Declarations)})]

Plain ==
  {IntAnn, BoolAnn, OneX, TwoXY, WidthAnn(<<<<"x", BoolAnn>>>>)} \cup {Named(n) : n \in {"Point", "Other", "Line", "Holder"}}
    \cup {Held(a) : a \in {OneX, TwoXY, Named("Point"), WidthAnn(<<<<"x", BoolAnn>>>>)}}
    \cup {Of(n, a) : n \in {"Box", "Opt"}, a \in {OneX, TwoXY, Named("Point"), IntAnn}} \cup {Of("BoxX", Named("Point")), Of("BoxX", TwoXY)}
    \cup {<<"Array", a, k>> : a \in {OneX, Named("Point")}, k \in {2, 3}}
    \cup {<<"Width", <<<<"Base", Named("Point")>>>> \o r>> : r \in {<<>>, <<Anon(<<<<"x", IntAnn>>>>)>>, <<Anon(<<<<"x", BoolAnn>>>>)>>, <<Anon(<<<<"p", IntAnn>>>>)>>}}
    \cup {<<"Width", <<<<"Base", OneX>>, Anon(<<<<"y", IntAnn>>>>)>>>>,
          <<"Width", <<Anon(<<<<"p", OneX>>>>), Anon(<<<<"p", TwoXY>>>>)>>>>,
          <<"Width", <<Anon(<<<<"p", OneX>>>>), Anon(<<<<"p", IntAnn>>>>)>>>>}
\* What is refused, or worse.
Ill == {Of("BoxX", IntAnn), Named("Box"), Of("Point", IntAnn), Of("int", IntAnn), Named("Nowhere"), Named("Rec"),
        Of("RecBox", IntAnn), Named("Twice"), Of("Odd", OneX), <<"Width", <<<<"Base", IntAnn>>>>>>,
        <<"Array", Of("BoxX", IntAnn), 2>>, <<"FnType", <<"T">>, <<IntAnn>>, <<IntAnn>>>>}
Params == {IntAnn, OneX, TwoXY, Named("Point"), Held(OneX), Held(TwoXY), FnAnn(OneX, IntAnn)}
Fns == {FnAnn(p, r) : p \in Params, r \in {IntAnn, OneX, Named("Point")}}
Deep == {Held(Held(OneX)), Held(Held(TwoXY)), Held(Held(Named("Point"))), Held(Named("Holder")),
         <<"Width", <<<<"Base", Named("Holder")>>>>>>, Held(Held(IntAnn))}
Generic == {Named("T"), Held(Named("T")), Of("Box", Named("T")), Of("BoxX", Named("T")), FnAnn(Named("T"), Named("T")),
            OneX, IntAnn, Named("Point"), Of("T", IntAnn),
            FnAnn(IntAnn, IntAnn), FnAnn(IntAnn, Named("T")), FnAnn(OneX, OneX)}
\* A base that is a type parameter.
UOnT == ("T" :> <<OneX>>) @@ ("U" :> <<<<"Width", <<<<"Base", Named("T")>>>>>>>>)
Wheres ==
  {<<>>, "T" :> <<OneX>>, "T" :> <<OneX, TwoXY>>, "T" :> <<IntAnn>>, "x" :> <<OneX>>,
   ("T" :> <<OneX>>) @@ ("U" :> <<Held(Named("T"))>>), ("T" :> <<OneX>>) @@ ("U" :> <<OneX>>),
   "T" :> <<Held(Named("U"))>>, "T" :> <<Held(Named("T"))>>,
   ("T" :> <<Held(Named("U"))>>) @@ ("U" :> <<OneX>>), ("T" :> <<Held(Named("U"))>>) @@ ("U" :> <<Held(Named("T"))>>),
   UOnT}
\* A struct that is declared and not used, with each of the where clauses.
Unused(w) == Struct("Unused", <<"T", "U">>, w, <<<<"p", Named("U")>>>>)

MCPrograms ==
  LET Pairs(S) == {Fn(<<>>, <<>>, s, c, b) : s, c \in S, b \in {"return", "let"}}
      all == Pairs(Plain) \cup Pairs(Fns) \cup Pairs(Deep \cup {Named("Line"), Held(OneX)})
               \cup {Fn(<<>>, <<>>, IntAnn, c, b) : c \in Ill, b \in {"return", "let"}}
               \cup {Fn(<<>>, <<>>, s, IntAnn, "return") : s \in Ill}
               \cup {Fn(<<"T", "U">>, w, s, c, b) : w \in Wheres, s, c \in Generic, b \in {"return", "let"}}
               \cup {Fn(<<"T", "T">>, <<>>, IntAnn, IntAnn, "return")}
  IN  {Program(f, o) : f \in all, o \in Orders}
        \cup {[Program(Fn(<<>>, <<>>, IntAnn, c, "return"), o) EXCEPT !.decls = <<Unused(w)>>] :
                w \in Wheres, c \in {IntAnn, BoolAnn}, o \in Orders}

-----------------------------------------------------------------------------
(* What the annotations mean: subtyping by structure for the anonymous     *)
(* constraints, by name for structs, with invariant opaque types and       *)
(* contravariant function parameters.  A type variable accepts what its    *)
(* constraint accepts.                                                     *)

Ended == outcome # "running"
SelfContaining(n) ==
  n \in DOMAIN Declarations
    /\ n \in Closure(DOMAIN Declarations
                        \cap UNION {NamesIn(Declarations[n].fields[i][2]) : i \in DOMAIN Declarations[n].fields})
Bad == <<"Bad">>
Sound(shapes) == \A t \in shapes : t # Bad

\* A type variable without constraint: where a function on one is expected, the
\* analyser takes a function on whatever type (the last arm of
\* resolve_param_static, type_resolver.rs:658), and a function on one only there
\* (type_resolver.rs:438).
Open(constraint, t) == t[1] = "Var" /\ constraint[t[2]] = Anything

RECURSIVE Below(_, _, _)
Below(constraint, s, c) ==
  LET Sub(x, y) == Below(constraint, x, y)
  IN  CASE c = Anything \/ (s[1] = "Var" /\ s = c) -> TRUE
        [] "Var" \in {s[1], c[1]} ->
             s[1] # c[1] /\ IF s[1] = "Var" THEN Sub(constraint[s[2]], c) ELSE Sub(s, constraint[c[2]])
        [] c[1] = "Width" -> s[1] \in {"Record", "Width"}
             /\ \A n \in DOMAIN c[3] : n \in DOMAIN s[3] /\ Sub(s[3][n], c[3][n])
        [] s[1] # c[1] \/ s[2] # c[2] -> FALSE
        [] s[1] = "Record" -> \A n \in DOMAIN s[3] : Sub(s[3][n], c[3][n])
        [] s[1] = "Array" -> Sub(s[3], c[3])
        [] s[1] = "Opaque" -> Sub(s[3], c[3]) /\ Sub(c[3], s[3])
        [] s[1] = "Fn" -> Sub(s[4], c[4])
             /\ (Open(constraint, c[3]) \/ (~Open(constraint, s[3]) /\ Sub(c[3], s[3])))
        [] OTHER -> TRUE

\* All the types of one field: anonymous constraints add up, others agree.
RECURSIVE Merged(_, _)
Merged(constraint, ts) ==
  LET names == UNION {DOMAIN t[3] : t \in ts}
      fields == [n \in names |-> Merged(constraint, {t[3][n] : t \in {u \in ts : n \in DOMAIN u[3]}})]
  IN  IF ~Sound(ts) THEN Bad
      ELSE IF \A t \in ts : t[1] = "Width"
      THEN IF Sound({fields[n] : n \in names}) THEN <<"Width", "", fields>> ELSE Bad
      ELSE IF \A t, u \in ts : t[1] # "Width" /\ Below(constraint, t, u) THEN CHOOSE t \in ts : TRUE ELSE Bad

\* The constraints of a where clause, by type variable.
RECURSIVE Meaning(_, _, _)
Meaning(vars_, constraint, a) ==
  LET Of_(b) == Meaning(vars_, constraint, b)
      Struct_(d) ==
        LET args == [i \in DOMAIN a[3] |-> Of_(a[3][i])]
            inner == [n \in ToSet(d.params) |-> args[CHOOSE i \in DOMAIN args : d.params[i] = n]]
            Fits(n) == Below(constraint, inner[n], Meaning(<<>>, <<>>, d.where[n][1]))
            types == [i \in DOMAIN d.fields |-> Meaning(inner, constraint, d.fields[i][2])]
            names == [i \in DOMAIN d.fields |-> d.fields[i][1]]
        IN  IF SelfContaining(d.name) \/ Len(args) # Len(d.params) \/ ~Sound(ToSet(args))
                 \/ d.name \in {"Twice", "Odd"} \/ ~\A n \in DOMAIN d.where : Fits(n)
            THEN Bad
            ELSE IF d.kind = "opaque" THEN <<"Opaque", d.name, args[1]>>
            ELSE <<"Record", d.name, MapOf(names, types)>>
      Part(k) == IF k[1] = "Base" THEN Of_(k[2])
                 ELSE Merged(constraint, {LET t == Of_(k[2][i][2]) IN
                                          IF t = Bad THEN Bad ELSE <<"Width", "", k[2][i][1] :> t>> : i \in DOMAIN k[2]})
      Widened(t) == IF t[1] = "Record" THEN <<"Width", "", t[3]>> ELSE t
  IN  CASE a[1] = "Path" /\ a[2] \in DOMAIN vars_ -> IF a[3] = <<>> THEN vars_[a[2]] ELSE Bad
        [] a[1] = "Path" /\ a[2] \in BaseTypes -> IF a[3] = <<>> THEN <<"Base", a[2]>> ELSE Bad
        [] a[1] = "Path" -> IF a[2] \in DOMAIN Declarations THEN Struct_(Declarations[a[2]]) ELSE Bad
        [] a[1] = "Array" -> IF Sound({Of_(a[2])}) THEN <<"Array", a[3], Of_(a[2])>> ELSE Bad
        [] a[1] = "FnType" ->
             IF a[2] = <<>> /\ Sound({Of_(a[3][1]), Of_(a[4][1])})
             THEN <<"Fn", "", Of_(a[3][1]), Of_(a[4][1])>> ELSE Bad
        [] a[1] = "Width" ->
             LET parts == {Widened(Part(a[2][i])) : i \in DOMAIN a[2]} IN
             IF \A t \in parts : t[1] = "Width" THEN Merged(constraint, parts) ELSE Bad


\* The annotations the analyser looses something of: the fields of a
\* constraint within one within another, and those of one in a struct that is
\* the base of another.
RECURSIVE Levels(_)
Levels(a) ==
  IF a[1] # "Width" THEN 0
  ELSE 1 + Max({0} \cup UNION {IF a[2][i][1] = "Base" THEN {}
                               ELSE {Levels(a[2][i][2][j][2]) : j \in DOMAIN a[2][i][2]} : i \in DOMAIN a[2]})
Loses(a) ==
  Levels(a) > 2 \/ (a[1] = "Width" /\ \E i \in DOMAIN a[2] : a[2][i] = <<"Base", Named("Holder")>>)
\* Function types whose parameters are themselves functions, or have fields
\* that are constraints.
Covariant(a) == a[1] = "FnType" /\ (a[3][1][1] = "FnType" \/ Levels(a[3][1]) > 1)
\* A parameter of a function whose type passes a type variable to a struct
\* that constrains it.
Passes(a) == a = Of("BoxX", Named("T"))

Variables(f) == [n \in ToSet(f.params) |-> <<"Var", n>>]
Constraints(f) ==
  [n \in ToSet(f.params) |->
     IF n \in DOMAIN f.where THEN Meaning(<<>>, <<>>, f.where[n][1]) ELSE Anything]
\* A where clause is understood if it constrains parameters, each once and by
\* fields, and a constraint mentions only parameters whose own constraint comes
\* before it in the order of the hash map.  It is clear if none mentions any.
Mentions(decl, n) == NamesIn(decl.where[n][1]) \cap ToSet(decl.params)
Understood(decl, order) ==
  LET Place(n) == CHOOSE i \in DOMAIN order : order[i] = n
  IN  /\ Cardinality(ToSet(decl.params)) = Len(decl.params) /\ DOMAIN decl.where \subseteq ToSet(decl.params)
      /\ \A n \in DOMAIN decl.where :
           /\ Len(decl.where[n]) = 1 /\ IsWidth(decl.where[n][1])
           /\ \A m \in Mentions(decl, n) : m \in DOMAIN decl.where /\ Place(m) < Place(n)
Clear(f) == Understood(f, program.order) /\ \A n \in DOMAIN f.where : Mentions(f, n) = {}
Declared == {program.fn} \cup ToSet(program.decls)
FoundMeaning == Meaning(Variables(program.fn), Constraints(program.fn), program.fn.found)
ExpectedMeaning == Meaning(Variables(program.fn), Constraints(program.fn), program.fn.expected)

\* A program is accepted exactly when the where clause of its function is
\* clear, those of its structs are understood, its types are sound and the one
\* that is found is below the one that is expected (type_resolver.rs:33), as
\* far as the analyser keeps what they say.  Of a constraint that mentions a
\* type parameter that is: a function with one is refused in every order of the
\* hash map, a struct with one, as long as it is not used, in some orders only.
SubtypesExact ==
  (Ended /\ ~Passes(program.fn.found)
     /\ ~\E a \in {program.fn.found, program.fn.expected} : Loses(a) \/ Covariant(a))
    => (outcome = "ok" <=> /\ Clear(program.fn) /\ \A i \in DOMAIN program.decls : Understood(program.decls[i], program.order)
                           /\ Sound({FoundMeaning, ExpectedMeaning})
                           /\ Below(Constraints(program.fn), FoundMeaning, ExpectedMeaning))

\* Equality is subtyping both ways (type_equality.rs:11).
EqualIsMutual ==
  (Ended /\ returned # <<>>)
    => LET Holds(rel, s, c) == Related(Env(context.types), rel, s, c, MaxDepth).is = "ok" IN
       Holds("equal", found, returned)
         <=> Holds("resolve", found, returned) /\ Holds("resolve", returned, found)

\* What is accepted hangs on the order of the hash maps through the mentions
\* in a where clause alone: the type parameters are mapped in exactly the orders
\* in which the clause is understood (type_cons_gen.rs:345), and in no order of the
\* fields is one type found below another and in another order not
\* (type_resolver.rs:107).
OrderIrrelevant ==
  Ended =>
    \A order \in Orders :
      /\ \A decl \in Declared : TypeParamMap(order, ModuleScope, decl).is = "ok" <=> Understood(decl, order)
      /\ returned # <<>> =>
           (Related([Env(context.types) EXCEPT !.order = order], "resolve", found, returned, MaxDepth).is = "ok"
              <=> Related(Env(context.types), "resolve", found, returned, MaxDepth).is = "ok")

\* The analyser runs out of stack on any struct that contains itself, also
\* within an opaque type (abstract_type.rs:449), and on nothing else.  It
\* panics only on a where clause with two constraints, or another type than
\* fields, for one parameter; on a base without fields; on a type variable
\* passed to a constructor that constrains it; and on the annotation of a local
\* variable whose arguments do not fit its constructor.
CrashesKnown ==
  LET f == program.fn
      Mentioned == NamesIn(f.found) \cup NamesIn(f.expected)
  IN  /\ Ended => (outcome = "overflow" <=> \E n \in Mentioned : SelfContaining(n))
      /\ outcome = "panic" =>
           \/ \E d \in Declared : \E n \in DOMAIN d.where : Len(d.where[n]) > 1 \/ ~IsWidth(d.where[n][1])
           \/ f.where = UOnT /\ Understood(f, program.order)
           \/ \E a \in {f.found, f.expected} : a = <<"Width", <<<<"Base", IntAnn>>>>>>
           \/ Passes(f.found)
           \/ f.body = "let" /\ ExpectedMeaning = Bad
=============================================================================
