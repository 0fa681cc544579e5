------------------------------- MODULE ByteGen -------------------------------
(***************************************************************************)
(* The byte code generator (smpl/src/code_gen/byte_gen): expressions whose *)
(* temporaries are already in execution order are translated one temporary *)
(* at a time (byte_expr.rs), statements are gathered into a body with a    *)
(* frame per loop and per branch (first_pass.rs), and the later passes,    *)
(* those of Inlining, make one sequence of instructions of them.  There is *)
(* no break: the traversals of the CFG panic on one (after_break) before   *)
(* any byte code is generated.                                             *)
(*                                                                         *)
(* An expression is a sequence of temporaries [id, value]; a statement is  *)
(* a record tagged by its field s, nested statements inside it.            *)
(***************************************************************************)
EXTENDS Inlining

V == INSTANCE Values WITH IntMin <- 0, IntMax <- 0

TmpName(id) == "_tmp" \o ToString(id)
FnNameOf(id) == "_fn" \o ToString(id)

Tmp(id) == [kind |-> "Tmp", name |-> TmpName(id)]
Var(name) == [kind |-> "Namespace", name |-> name]
Lit(v) == [kind |-> "Lit", val |-> v]
TmpOf(expr) == Tmp(expr[Len(expr)].id)

Compute(to, fn, args) == [op |-> "Compute", to |-> to, fn |-> fn, args |-> args]
Store(to, arg) == Compute(to, <<"Store">>, <<arg>>)

-----------------------------------------------------------------------------
(* Expressions. *)

Field(f) == [kind |-> "Field", key |-> V!FieldKey(f)]
IndexBy(expr) == [kind |-> "Index", name |-> TmpOf(expr).name]

\* An access path: the root's index, then every field with its own index.
\* `index` is a sequence of at most one expression.
PathOf(acc) ==
  [i \in DOMAIN acc.index |-> IndexBy(acc.index[i])] \o
  FlattenSeq([i \in DOMAIN acc.path |->
    <<Field(acc.path[i].field)>> \o
    [j \in DOMAIN acc.path[i].index |-> IndexBy(acc.path[i].index[j])]])

LocationOf(acc) ==
  IF PathOf(acc) = <<>> THEN Var(acc.root)
  ELSE [kind |-> "Compound", name |-> acc.root, path |-> PathOf(acc)]

RECURSIVE ExprCode(_)

\* The code of the index expressions of a path, in the order of the path.
AccessCode(acc) ==
  LET indices == acc.index \o FlattenSeq([i \in DOMAIN acc.path |-> acc.path[i].index])
  IN  FlattenSeq([i \in DOMAIN indices |-> ExprCode(indices[i])])

TmpArgs(ids) == [i \in DOMAIN ids |-> Tmp(ids[i])]

\* translate_tmp.
TmpCode(t) ==
  LET v  == t.value
      to == Tmp(t.id)
  IN  CASE v.v = "Literal" -> <<Store(to, Lit(v.lit))>>
        [] v.v = "Binding" -> <<Store(to, Var(v.name))>>
        [] v.v = "Access" -> AccessCode(v) \o <<Store(to, LocationOf(v))>>
        [] v.v = "Op" -> <<Compute(to, v.op, TmpArgs(v.args))>>
        [] v.v = "Indexing" ->
             <<Store(to, [kind |-> "Compound", name |-> TmpName(v.array),
                          path |-> <<[kind |-> "Index", name |-> TmpName(v.indexer)]>>])>>
        [] v.v = "Call" -> <<[op |-> "FnCall", fn |-> Tmp(v.fn), args |-> TmpArgs(v.args)],
                             [op |-> "TakeReturn", to |-> to]>>

\* translate_expr.
ExprCode(expr) == FlattenSeq([i \in DOMAIN expr |-> TmpCode(expr[i])])

-----------------------------------------------------------------------------
(* First pass: the statements of one frame. *)

\* The callbacks of FirstPass for one statement: a loop or a branch leaves a
\* mark in the frame, its own frames are gathered aside.
StmtParts(s) ==
  CASE s.s = "Decl" -> Whole(ExprCode(s.value) \o <<Store(Var(s.name), TmpOf(s.value))>>)
    [] s.s = "Assign" -> Whole(ExprCode(s.value) \o AccessCode(s.to)
                                 \o <<Store(LocationOf(s.to), TmpOf(s.value))>>)
    [] s.s = "Expr" -> Whole(ExprCode(s.value))
    [] s.s = "Return" ->
         Whole(IF s.value = <<>> THEN <<[op |-> "Return", value |-> <<>>]>>
               ELSE ExprCode(s.value[1]) \o
                    <<[op |-> "Return", value |-> <<TmpOf(s.value[1])>>]>>)
    [] s.s = "While" -> <<[p |-> "Loop", id |-> s.id]>>
    [] s.s = "If" -> <<[p |-> "Branch", id |-> s.id]>>
    [] s.s = "Continue" -> <<[p |-> "Continue", id |-> s.id]>>

Frame(stmts) == FlattenSeq([i \in DOMAIN stmts |-> StmtParts(stmts[i])])

RECURSIVE Nested(_)

\* Every loop and every branch of the function.
Nested(stmts) ==
  UNION {CASE stmts[i].s = "While" -> {stmts[i]} \cup Nested(stmts[i].body)
           [] stmts[i].s = "If" -> {stmts[i]} \cup Nested(stmts[i].then)
                                             \cup Nested(stmts[i].else)
           [] OTHER -> {} : i \in DOMAIN stmts}

TheStmt(stmts, tag, id) == CHOOSE s \in Nested(stmts) : s.s = tag /\ s.id = id
IdsOf(stmts, tag) == {s.id : s \in {n \in Nested(stmts) : n.s = tag}}

LoopFrames(stmts) ==
  [id \in IdsOf(stmts, "While") |->
     LET s == TheStmt(stmts, "While", id)
     IN  [condition |-> Whole(ExprCode(s.cond)), result |-> TmpOf(s.cond),
          body |-> Frame(s.body)]]

BranchFrames(stmts) ==
  [id \in IdsOf(stmts, "If") |->
     LET s == TheStmt(stmts, "If", id)
     IN  [condition |-> Whole(ExprCode(s.cond)), result |-> TmpOf(s.cond),
          true |-> Frame(s.then), false |-> Frame(s.else)]]

FirstPass(stmts) ==
  [main |-> Frame(stmts), loops |-> LoopFrames(stmts), branches |-> BranchFrames(stmts)]

-----------------------------------------------------------------------------

\* Mutant: nothing returns at the end of a function of type Unit.
BodyOpenEnded(fn) == fn.body

\* The statements of the CFG: a function of type Unit returns at its end.
Body(fn) == IF fn.unit THEN Append(fn.body, [s |-> "Return", value |-> <<>>])
                       ELSE fn.body

\* compile_to_byte_code.
CompileToByteCode(fn) == Compiled(FirstPass(Body(fn)))

=============================================================================
