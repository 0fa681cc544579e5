------------------------------ MODULE Resolving ------------------------------
(***************************************************************************)
(* The traversal with ScopeResolver on board, the way the analysis of a    *)
(* function resolves its names (resolve_scope.rs, traverse), and what the  *)
(* text of the function says its names denote.                             *)
(***************************************************************************)
EXTENDS ScopeResolver, Walks

\* A place of the text is a sequence of pairs, the number of a block in what
\* holds it and the index of a statement in the block, from the body inwards;
\* <<>> is outside the body.
CONSTANTS
  Decls(_),  \* the declarations of a function, each [name, var, place]
  Names(_),  \* the names it uses, each [key, name, kinds, place]
  Anons(_),  \* its anonymous functions, each [fn, place]
  Where(_)   \* the place before each node of its graph

VARIABLES passenger, status

NewPassenger(f) == New(FnScope(f.outer, f.params))

INSTANCE Traverse WITH Callback <- On

-----------------------------------------------------------------------------
(* What a name denotes.                                                    *)

\* A declaration at place d reaches place u: u comes later in the same block or
\* in a block inside it.
Reaches(d, u) ==
  LET k == Len(d) IN
  /\ k \in 1 .. Len(u)
  /\ \A i \in 1 .. k - 1 : d[i] = u[i]
  /\ d[k][1] = u[k][1] /\ d[k][2] < u[k][2]

\* Of two declarations that reach a place the first is as near as the second.
AsNear(d, e) == Len(d) > Len(e) \/ (Len(d) = Len(e) /\ Last(d)[2] >= Last(e)[2])

Reaching(f, name, u) == {d \in Decls(f) : d.name = name /\ Reaches(d.place, u)}
Nearest(decls) == CHOOSE d \in decls : \A e \in decls : AsNear(d.place, e.place)

\* What name, of a variable or a function, denotes at place u of f.
Denoted(f, name, kinds, u) ==
  IF "var" \in kinds /\ Reaching(f, name, u) # {} THEN Nearest(Reaching(f, name, u)).var
  ELSE IF "var" \in kinds /\ name \in ToSet(f.params) THEN Parameter(f.params, name)
  ELSE IF "fn" \in kinds /\ name \in DOMAIN f.outer.fns THEN f.outer.fns[name]
  ELSE Unknown

\* Every name of a function by its key, and what it denotes.
Lexical(f) == {<<x.key, Denoted(f, x.name, x.kinds, x.place)>> : x \in Names(f)}

-----------------------------------------------------------------------------
(* Graphs of a text.                                                       *)

\* The place k statements later in its block.
Later(u, k) == [u EXCEPT ![Len(u)] = <<@[1], @[2] + k>>]

\* Place v is before the first statement of a block at place u.
Inside(u, v) == v # <<>> /\ Front(v) = u /\ Last(v)[2] = 1

\* What is resolved at place u: the names and anonymous functions in
\* temporaries, in statements.
TmpNames(t, u) ==
  LET Name(name, kinds) == {[key |-> TmpKey(t), name |-> name, kinds |-> kinds, place |-> u]}
  IN  CASE t.value.v = "Binding" -> Name(t.value.name, {"var", "fn"})
        [] t.value.v = "Access" -> Name(t.value.root, {"var"})
        [] t.value.v \in {"ModAccess", "TypeInst"} -> Name(t.value.path, {"fn"})
        [] OTHER -> {}
TmpAnons(t, u) == IF t.value.v = "AnonymousFn" THEN {[fn |-> t.value.fn, place |-> u]} ELSE {}

NamesIn(tmps, u) == UNION {TmpNames(t, u) : t \in ToSet(tmps)}
AnonsIn(tmps, u) == UNION {TmpAnons(t, u) : t \in ToSet(tmps)}

StmtTmps(s) == Tmps(IF s.s = "Assign" THEN Assigned(s) ELSE <<s.value>>)
StmtNames(s, u) ==
  NamesIn(StmtTmps(s), u) \cup
    IF s.s = "Assign"
    THEN {[key |-> PathKey(s), name |-> s.to.root, kinds |-> {"var"}, place |-> u]} ELSE {}
StmtDecls(s, u) ==
  IF s.s = "Decl" THEN {[name |-> s.name, var |-> VarOf(s), place |-> u]} ELSE {}

\* The temporaries of a node that is not a block.
NodeTmps(node) ==
  CASE node.n = "Return" -> Tmps(node.stmt.value)
    [] node.n \in {"BranchSplit", "LoopHead"} -> Tmps(<<node.cond>>)
    [] OTHER -> <<>>

NodeNames(node, u) ==
  IF node.n = "Block"
  THEN UNION {StmtNames(node.stmts[i], Later(u, i - 1)) : i \in DOMAIN node.stmts}
  ELSE NamesIn(NodeTmps(node), u)
NodeAnons(node, u) ==
  IF node.n = "Block"
  THEN UNION {AnonsIn(StmtTmps(node.stmts[i]), Later(u, i - 1)) : i \in DOMAIN node.stmts}
  ELSE AnonsIn(NodeTmps(node), u)

Listed(s) == s \in Seq(ToSet(s))

\* Control gets to the places of the text one after the other.
PlacesFollow(g, lay, w) ==
  \A n \in DOMAIN g.nodes :
    LET u == w[n]
        Before(m, v) == m = Nowhere \/ w[m] = v
    IN
    /\ u \in Seq(Nat \X Nat)
    /\ Kind(g, n) \in {"Start", "End"} => u = <<>>
    /\ Kind(g, n) \notin {"Start", "End", "EnterScope"} => u # <<>>
    /\ Kind(g, n) = "Start" => Before(Next(g, n), u)
    /\ Kind(g, n) = "EnterScope" => Inside(u, w[Next(g, n)])
    /\ Kind(g, n) = "ExitScope" => Before(Next(g, n), Front(u))
    /\ Kind(g, n) = "Block" => Before(Next(g, n), Later(u, Len(g.nodes[n].stmts)))
    /\ Kind(g, n) \in {"Return", "Continue"} => Before(Behind(g, n), Later(u, 1))
    /\ Kind(g, n) = "Break" => Before(AfterBreak(g, n), Later(u, 1))
    /\ Kind(g, n) = "BranchSplit" => \A side \in {"True", "False"} : Before(After(g, n, side), u)
    /\ Kind(g, n) = "BranchMerge" => Before(Next(g, n), u) \/ Before(Next(g, n), Later(u, 1))
    /\ Kind(g, n) = "LoopHead" =>
         /\ Before(After(g, n, "True"), u)
         /\ Before(AfterLoopFoot(g, After(g, n, "False")), Later(u, 1))
    /\ Kind(g, n) \in {"BranchMerge", "LoopFoot"} => u = w[lay[n].of]

\* The nodes say at their places what the text says there.
SaidBy(f, g, w) ==
  /\ \A n \in DOMAIN g.nodes :
       LET node == g.nodes[n]
           u == w[n]
           Said(v) == {d \in Decls(f) : d.place = v}
       IN  IF node.n = "Block"
           THEN /\ Listed(node.stmts)
                /\ \A i \in DOMAIN node.stmts :
                     /\ node.stmts[i].s \in {"Decl", "Assign", "Expr"}
                     /\ Listed(StmtTmps(node.stmts[i]))
                     /\ Said(Later(u, i - 1)) = StmtDecls(node.stmts[i], Later(u, i - 1))
           ELSE Listed(NodeTmps(node)) /\ (u # <<>> => Said(u) = {})
  /\ Names(f) = UNION {NodeNames(g.nodes[n], w[n]) : n \in DOMAIN g.nodes}
  /\ Anons(f) = UNION {NodeAnons(g.nodes[n], w[n]) : n \in DOMAIN g.nodes}

\* A place has one declaration at most, and the first index is 1.
PlacedOnce(f) ==
  \A d \in Decls(f) :
    /\ d.place \in Seq(Nat \X (Nat \ {0})) /\ d.place # <<>>
    /\ \A e \in Decls(f) : e.place = d.place => e = d

ASSUME TextFollowed ==
  \A f \in Sources :
    PlacedOnce(f) /\ (CfgOf(f).err = "none" =>
                        PlacesFollow(CfgOf(f), Layout(f), Where(f)) /\ SaidBy(f, CfgOf(f), Where(f)))

\* The variables of a function, and the functions it sees, are not variables of
\* the function around it.
Own(f) ==
  {d.var : d \in Decls(f)} \cup {Parameter(f.params, name) : name \in ToSet(f.params)}
  \cup {f.outer.fns[name] : name \in DOMAIN f.outer.fns} \cup {Unknown}

ASSUME OwnOnly ==
  \A f \in Sources :
    /\ f.outer = Scoped(f.outer.vars, f.outer.fns)
    /\ \A name \in DOMAIN f.outer.vars : f.outer.vars[name] \notin Own(f)

-----------------------------------------------------------------------------

\* Every name denotes the nearest declaration before it in its block or one
\* around it, then the parameter, then the function; only a function with a
\* name that denotes nothing is refused.
ResolvesLexically ==
  /\ status = "done" => {<<k, passenger.bound[k]>> : k \in DOMAIN passenger.bound} = Lexical(fn)
  /\ status = "failed" => \E x \in Lexical(fn) : x[2] = Unknown

\* The scope kept for an anonymous function is that of its place.
AnonymousScoped ==
  status = "done" =>
    \A a \in Anons(fn) :
      /\ a.fn \in DOMAIN passenger.anon
      /\ \A name \in {d.name : d \in Decls(fn)} \cup ToSet(fn.params) \cup DOMAIN fn.outer.fns :
           BindingInfo(passenger.anon[a.fn], name) = Denoted(fn, name, {"var", "fn"}, a.place)

\* A name never denotes a variable of another function, whose activation has
\* an environment of its own.
OwnVariables ==
  \A k \in DOMAIN passenger.bound :
    passenger.bound[k] \notin {fn.outer.vars[name] : name \in DOMAIN fn.outer.vars}

\* The scopes open after the first n nodes that were visited.
Open(n) ==
  LET Met(kind) == {i \in 1 .. n : cfg.nodes[visited[i]].n = kind}
  IN  1 + Cardinality(Met("EnterScope")) - Cardinality(Met("ExitScope"))

\* Scopes are left on every path as they were entered: at a merge or a foot
\* there are as many as at its split or head, and in the end the function's.
BalancedScopes ==
  /\ At({"BranchMerge", "LoopFoot"}) =>
       \E n \in DOMAIN visited : visited[n] = Here.at /\ Len(passenger.scopes) = Open(n)
  /\ status = "done" => passenger.scopes = <<FnScope(fn.outer, fn.params)>>

=============================================================================
