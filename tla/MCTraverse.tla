----------------------------- MODULE MCTraverse -----------------------------
(***************************************************************************)
(* Bounded instances of the graph builder, the return check and the linear *)
(* traversal with FirstPass on board: functions of one or two compound     *)
(* statements, and every compound statement in every place of another one, *)
(* with empty blocks, else-if chains and dead code after a jump.           *)
(***************************************************************************)
EXTENDS Compiling, Cfg, Layouts

P == INSTANCE Programs

MCCfgOf(f) == LET graph == Generate(f) IN graph
MCLayout(f) == LayoutOf(Generate(f))

\* The code of statements is that of ByteGen.
MCBlockCode(stmts) == P!G!Frame(stmts)
MCReturnCode(stmt) == P!G!StmtParts(stmt)
MCCondCode(cond) == P!G!Whole(P!G!ExprCode(cond))
MCCondResult(cond) == P!G!TmpOf(cond)

-----------------------------------------------------------------------------
(* Functions.  k numbers a statement: its id and its first temporary.      *)

E(k) == P!Do(P!Call(50 + k, P!FnRef(k, 1), <<>>))
R(k) == P!Ret(P!Lit(k, P!I(2)))
C == [s |-> "Continue"]
B == [s |-> "Break"]
Cond(k) == P!Lit(k, P!B(TRUE))
While(k, body) == [s |-> "While", id |-> k, cond |-> Cond(k), body |-> body]
Br(k, body) == [id |-> k, cond |-> Cond(k), body |-> body]
If(branches, default) == [s |-> "If", branches |-> branches, default |-> default]

Plain(k) == {<<>>, <<E(k)>>, <<R(k)>>, <<E(k), R(k)>>, <<R(k), E(k)>>}
Short(k) == {<<>>, <<E(k)>>, <<R(k)>>}
Jumps == {<<C>>, <<C, E(9)>>}
Optional(S) == {<<>>} \cup {<<x>> : x \in S}

\* Compound statements numbered from k to k + 2.
Compound(k, bodies) ==
  {If(<<Br(k, a)>>, d) : a \in bodies, d \in Optional(Plain(k + 1))}
  \cup {If(<<Br(k, a), Br(k + 1, b)>>, d) :
          a \in Short(k), b \in bodies, d \in Optional({<<>>, <<R(k + 2)>>})}
  \cup {While(k, a) : a \in bodies}

Chain(k, s) == If(<<Br(k, <<E(k)>>), Br(k + 1, <<s>>), Br(k + 2, <<>>)>>, <<<<R(k)>>>>)
Nest(s) ==
  {<<While(11, b)>> : b \in {<<s>>, <<E(11), s>>, <<s, E(11)>>, <<s, C>>}}
  \cup {<<If(<<Br(11, b)>>, d)>> : b \in {<<s>>, <<s, R(11)>>}, d \in Optional({<<>>, <<R(12)>>})}
  \cup {<<If(<<Br(11, <<R(11)>>)>>, <<<<s>>>>)>>, <<Chain(11, s)>>, <<Chain(11, While(14, <<s>>))>>}

Bodies ==
  Plain(1)
  \cup {<<s, t>> : s \in Compound(1, Short(1)), t \in Compound(4, Short(4))}
  \cup {<<s>> : s \in Compound(1, Plain(1))}
  \cup UNION {Nest(s) : s \in Compound(1, Plain(1))}
  \cup {<<While(11, <<s>>)>> : s \in Compound(1, Jumps)}

\* Jumps that are in no loop, or were.
Stray == {<<C>>, <<B>>, <<While(1, <<>>), C>>, <<If(<<Br(1, <<B>>)>>, <<>>)>>,
          <<If(<<Br(1, <<>>), Br(2, <<C>>)>>, <<>>)>>,
          <<If(<<Br(1, <<>>)>>, <<<<While(2, <<E(3)>>), B>>>>)>>}

\* smpl-tests/while_tests.smpl has the first one.
Breaking == {<<While(1, <<B>>)>>, <<While(1, <<B, E(2)>>), E(3)>>,
             <<While(1, <<If(<<Br(2, <<B>>)>>, <<>>)>>)>>}

Function(body, unit) == [body |-> body, unit |-> unit]
MCBreaking == {Function(b, TRUE) : b \in Breaking}
MCSources ==
  LET units == Plain(1) \cup {<<s>> : s \in Compound(1, Plain(1))}
  IN  {Function(b, FALSE) : b \in Bodies \cup Stray} \cup MCBreaking
        \cup {Function(b, TRUE) : b \in units}

-----------------------------------------------------------------------------
(* The statements read without a graph.                                    *)

RECURSIVE Lower(_, _), LowerIf(_, _, _)

\* As ByteGen has them: else-if chains nested, a continue with its loop.
LowerIf(branches, default, loop) ==
  IF branches = <<>> THEN default
  ELSE <<P!If(Head(branches).id, Head(branches).cond, Lower(Head(branches).body, loop),
              LowerIf(Tail(branches), default, loop))>>

Lower(stmts, loop) ==
  FlattenSeq([i \in DOMAIN stmts |->
    LET s == stmts[i]
    IN  CASE s.s = "While" -> <<[s EXCEPT !.body = Lower(@, s.id)]>>
          [] s.s = "If" -> LowerIf(s.branches, IF s.default = <<>> THEN <<>>
                                               ELSE Lower(s.default[1], loop), loop)
          [] s.s = "Continue" -> <<P!Continue(loop)>>
          [] OTHER -> <<s>>])

Blocks(s) ==
  CASE s.s = "If" -> {s.branches[i].body : i \in DOMAIN s.branches} \cup ToSet(s.default)
    [] s.s = "While" -> {s.body}
    [] OTHER -> {}

RECURSIVE Falls(_), NoDeadCode(_), Strays(_)

\* Control can get past a statement, past all of a block.
FallsPast(s) ==
  CASE s.s \in {"Return", "Continue", "Break"} -> FALSE
    [] s.s = "If" -> s.default = <<>> \/ \E b \in Blocks(s) : Falls(b)
    [] OTHER -> TRUE
Falls(stmts) == \A i \in DOMAIN stmts : FallsPast(stmts[i])

NoDeadCode(stmts) ==
  /\ \A i \in 1 .. Len(stmts) - 1 : FallsPast(stmts[i])
  /\ \A i \in DOMAIN stmts : \A b \in Blocks(stmts[i]) : NoDeadCode(b)

\* A break or continue that is in no loop.
Strays(stmts) ==
  \E i \in DOMAIN stmts :
    \/ stmts[i].s \in {"Continue", "Break"}
    \/ stmts[i].s = "If" /\ \E b \in Blocks(stmts[i]) : Strays(b)

LoweredBody == P!G!Body([body |-> Lower(fn.body, 0), unit |-> fn.unit])

-----------------------------------------------------------------------------

\* What the traversal has gathered in the end is the code of the statements,
\* frame by frame: none is lost, doubled or in another loop's or path's frame.
GathersStatements ==
  status = "done" => Gathered(passenger) = P!G!FirstPass(LoweredBody)

\* The return check lets no function pass that can fall off its end, and only
\* code after a jump makes it refuse one that cannot.
ReturnsChecked ==
  visited = <<>> /\ status # "rejected" =>
    LET verdict == ReturnTrace(cfg)
        falls == Falls(fn.body) /\ ~fn.unit
    IN  /\ verdict \in {"ok", "MissingReturn"}
        /\ verdict = "ok" => ~falls
        /\ ~falls /\ NoDeadCode(fn.body) => verdict = "ok"

\* CFG::generate refuses a function exactly when a break or continue is in no
\* loop of it.
RefusesStrays == status = "rejected" <=> Strays(fn.body)

\* A function with a break is traversed like any other: first_pass.rs has a
\* callback br for it, and "resolves break/continue statements" follows.
BreakTraversed == status # "panicked"

=============================================================================
