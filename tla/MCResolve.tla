------------------------------ MODULE MCResolve ------------------------------
(***************************************************************************)
(* Bounded instances of scope resolution: two statements that declare, use *)
(* or assign variables in a block of every kind, with one before and one   *)
(* after it, blocks in blocks and blocks with a jump; functions of a       *)
(* module and anonymous functions in the scope of a variable.              *)
(***************************************************************************)
EXTENDS Resolving, Layouts

Builder == INSTANCE Cfg
P == INSTANCE Programs

MCCfgOf(f) == LET graph == Builder!Generate(f) IN graph
MCLayout(f) == LayoutOf(Builder!Generate(f))

-----------------------------------------------------------------------------
(* Functions with a parameter x.  k numbers the temporaries of a           *)
(* statement, which are those of no other.                                 *)

Tmp(k, v) == <<[id |-> k, value |-> v]>>
Anon(k) == Tmp(k, [v |-> "AnonymousFn", fn |-> k])

Declares(k) == {P!Let("x", P!Var(k, "x")), P!Let("y", P!Lit(k, P!I(1))),
                P!Let("y", P!Var(k, "y")), P!Let("f", P!Lit(k, P!I(1)))}
Uses(k) ==
  {P!Do(P!Var(k, "y")), P!Do(P!Op(k + 2, "AddI", <<P!Var(k, "x"), P!Var(k + 1, "f")>>)),
   P!Do(Anon(k)), P!Do(Tmp(k, [v |-> "ModAccess", path |-> "m::g"])),
   P!Do(P!Access(k, P!Path("y", <<P!Lit(k + 1, P!I(0))>>, <<P!Seg("n", <<P!Var(k + 2, "x")>>)>>))),
   P!SetTo(P!Path("x", <<P!Var(k + 1, "y")>>, <<P!Seg("n", <<P!Var(k + 2, "f")>>)>>), P!Lit(k, P!I(1)))}
Some(k) == Declares(k) \cup Uses(k)
Few(k) == {P!Let("y", P!Lit(k, P!I(1))), P!Let("x", P!Var(k, "x")), P!Do(P!Var(k, "y")), P!Do(Anon(k))}

Cond(k, name) == P!Var(k, name)
While(k, body) == [s |-> "While", id |-> k, cond |-> Cond(k, "x"), body |-> body]
Br(k, body) == [id |-> k, cond |-> Cond(k, "x"), body |-> body]
If(branches, default) == [s |-> "If", branches |-> branches, default |-> default]

Enclosing(b) ==
  {While(10, b), If(<<Br(10, b)>>, <<>>), If(<<Br(10, <<P!Ret(P!Var(11, "x"))>>)>>, <<b>>),
   If(<<Br(10, <<P!Let("y", P!Lit(11, P!I(1)))>>), Br(12, b)>>, <<<<P!Do(P!Var(13, "x"))>>>>)}
Inner(b) == {While(20, b), If(<<Br(20, <<>>)>>, <<b>>)}

\* Blocks that are left by a jump, at their end or before it.
C == [s |-> "Continue"]
B == [s |-> "Break"]
Jumping(j) ==
  {<<While(10, b), P!Do(P!Var(31, "y"))>> :
     b \in {<<x, j, y>> : x \in Few(1), y \in Few(4)}
       \cup {<<If(<<Br(11, <<x, j>>)>>, <<>>), y>> : x \in Few(1), y \in Few(4)}}

Bodies ==
  {<<a, b>> : a \in Some(1), b \in Some(4)}
  \cup Jumping(C) \cup Jumping(B)
  \cup UNION {{<<a, c, d>> : c \in Enclosing(b), d \in {P!Do(P!Var(31, "y")), P!Do(Anon(31))}} :
                a \in Declares(1), b \in {<<x, y>> : x \in Some(4), y \in Some(7)}}
  \cup UNION {{<<c, P!Ret(P!Var(31, "y"))>> : c \in Enclosing(b)} :
                b \in UNION {{<<x, i, z>> : i \in Inner(<<y>>)} :
                               x \in Few(1), y \in Few(4), z \in Few(7)}}

\* The scope of the module, and the one around an anonymous function.
ModuleScope == Scoped(<<>>, [n \in {"f", "m::g"} |-> FnId(n)])
AnonScope == InsertVar(ModuleScope, "y", Variable(99))

Function(body, outer) == [body |-> body, unit |-> TRUE, params |-> <<"x">>, outer |-> outer]
MCSources ==
  LET anonymous == {Function(<<a, b>>, AnonScope) : a \in Some(1), b \in Some(4)}
  IN  anonymous \cup {Function(b, ModuleScope) : b \in Bodies}

\* An element that is read at a variable index, and a field of it.
Indexed == P!Access(1, P!Path("x", <<P!Var(2, "x")>>, <<P!Seg("n", <<>>)>>))
MCIndexed == LET f == Function(<<P!Do(Indexed)>>, ModuleScope) IN {f}

-----------------------------------------------------------------------------
(* The places of the statements, read off the text.                        *)

BlocksOf(s) ==
  CASE s.s = "If" -> [i \in DOMAIN s.branches |-> s.branches[i].body] \o s.default
    [] s.s = "While" -> <<s.body>>
    [] OTHER -> <<>>

RECURSIVE TextOf(_, _, _)

\* The statements in block b at place u.
TextOf(stmts, u, b) ==
  UNION {LET v == Append(u, <<b, i>>)
             inner == BlocksOf(stmts[i])
         IN  {<<v, stmts[i]>>} \cup UNION {TextOf(inner[c], v, c) : c \in DOMAIN inner} :
           i \in DOMAIN stmts}

Text(f) == TextOf(f.body, <<>>, 1)

ExprsOf(s) ==
  CASE s.s \in {"Decl", "Expr"} -> {s.value}
    [] s.s = "Assign" -> {s.value} \cup ToSet(s.to.index) \cup ToSet(Indices(s.to.path))
    [] s.s = "Return" -> ToSet(s.value)
    [] s.s = "If" -> {s.branches[i].cond : i \in DOMAIN s.branches}
    [] s.s = "While" -> {s.cond}
    [] OTHER -> {}

\* The indices in an access path, with that of its root or without it.
IndicesIn(t, root) ==
  IF t.value.v = "Access"
  THEN ToSet(Indices(t.value.path)) \cup IF root THEN ToSet(t.value.index) ELSE {}
  ELSE {}

RECURSIVE TmpsOf(_, _)
TmpsOf(expr, root) ==
  ToSet(expr) \cup UNION {UNION {TmpsOf(e, root) : e \in IndicesIn(t, root)} : t \in ToSet(expr)}

\* The names in a statement at a place.
NamesOf(s, u, root) ==
  LET tmps == UNION {TmpsOf(e, root) : e \in ExprsOf(s)}
      Of(v) == {t \in tmps : t.value.v = v}
      Name(key, name, kinds) == [key |-> key, name |-> name, kinds |-> kinds, place |-> u]
  IN  {Name(TmpKey(t), t.value.name, {"var", "fn"}) : t \in Of("Binding")}
      \cup {Name(TmpKey(t), t.value.root, {"var"}) : t \in Of("Access")}
      \cup {Name(TmpKey(t), t.value.path, {"fn"}) : t \in Of("ModAccess")}
      \cup IF s.s = "Assign" THEN {Name(PathKey(s), s.to.root, {"var"})} ELSE {}

MCDecls(f) ==
  {[name |-> s[2].name, var |-> VarOf(s[2]), place |-> s[1]] :
     s \in {x \in Text(f) : x[2].s = "Decl"}}
MCNames(f) == UNION {NamesOf(s[2], s[1], FALSE) : s \in Text(f)}
MCAnons(f) ==
  UNION {{[fn |-> t.value.fn, place |-> s[1]] :
            t \in {x \in UNION {TmpsOf(e, FALSE) : e \in ExprsOf(s[2])} : x.value.v = "AnonymousFn"}} :
           s \in Text(f)}

\* With the expressions in the indices of roots.
MCExprs ==
  LET exprs == UNION {UNION {ExprsOf(s[2]) : s \in Text(f)} : f \in MCSources \cup MCIndexed}
  IN  exprs \cup UNION {UNION {IndicesIn(t, TRUE) : t \in TmpsOf(e, TRUE)} : e \in exprs}

-----------------------------------------------------------------------------
(* The place before each node, along the edges of the graph.               *)

RECURSIVE Located(_, _, _, _)

\* The nodes from n on, which comes at place u; b is the number of the next
\* block that is entered there.
Located(g, n, u, b) ==
  LET Side(side, c) == Located(g, After(g, n, side), u, c)
      Rest(next, v) == Located(g, next, v, 1)
  IN  n :> u @@
      CASE Kind(g, n) \in {"End", "BranchMerge", "LoopFoot"} -> <<>>
        [] Kind(g, n) = "EnterScope" -> Rest(Next(g, n), Append(u, <<b, 1>>))
        [] Kind(g, n) = "ExitScope" -> Rest(Next(g, n), Front(u))
        [] Kind(g, n) = "Block" -> Rest(Next(g, n), Later(u, Len(g.nodes[n].stmts)))
        [] Kind(g, n) \in {"Return", "Continue", "Break"} -> Rest(Only(Out(g, n))[3], Later(u, 1))
        [] Kind(g, n) = "BranchSplit" ->
             LET merge == CHOOSE m \in DOMAIN g.nodes :
                            Kind(g, m) = "BranchMerge" /\ g.nodes[m].id = g.nodes[n].id
                 next == Next(g, merge)
             IN  Side("True", b) @@ Side("False", b + 1)
                 @@ IF Kind(g, next) = "BranchMerge" THEN <<>> ELSE Rest(next, Later(u, 1))
        [] Kind(g, n) = "LoopHead" ->
             Side("True", b) @@ Rest(AfterLoopFoot(g, After(g, n, "False")), Later(u, 1))
        [] OTHER -> Rest(Next(g, n), u)

MCWhere(f) == LET places == Located(Builder!Generate(f), StartNode, <<>>, 1) IN places

-----------------------------------------------------------------------------

\* byte_expr.rs: "If the program passed semantic analysis, all IDs should be
\* filled in."
IdsFilledIn ==
  status = "done" =>
    \A s \in Text(fn) : \A x \in NamesOf(s[2], s[1], TRUE) : x.key \in DOMAIN passenger.bound

=============================================================================
