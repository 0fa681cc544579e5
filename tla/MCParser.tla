------------------------------- MODULE MCParser -------------------------------
(***************************************************************************)
(* Bounded instances of the parser: every sequence of a few tokens as an   *)
(* expression, expressions of many operators, and statements and modules   *)
(* printed from their trees and cut off at every token.                    *)
(***************************************************************************)
EXTENDS Parser, SequencesExt

-----------------------------------------------------------------------------
(* Printing: the text of a tree, in parentheses where grammar.bnf asks for *)
(* them.  A chain, which it does not have, is in parentheses as an operand. *)

\* truth-expr to factor (grammar.bnf:32-39), and those of them whose left operand
\* is an expression of the same level; that of relative-cmp-expr is not.
Level(op) ==
  CASE op \in {"&&", "||"} -> 1 [] op = "==" -> 2 [] op = "<" -> 3
    [] op \in {"+", "-"} -> 4 [] OTHER -> 5
LeftRecursive == {1, 2, 4, 5}
LeftLevel(level, recursive) == IF level \in recursive THEN level ELSE level + 1

Sep(texts) ==
  IF texts = <<>> THEN <<>>
  ELSE FoldLeft(LAMBDA all, t : all \o <<",">> \o t, Head(texts), Tail(texts))
Map(list, F(_)) == [i \in DOMAIN list |-> F(list[i])]
PathText(path) == FoldLeft(LAMBDA all, n : all \o <<"::", n>>, <<Head(path)>>, Tail(path))
Parens(text) == <<"(">> \o text \o <<")">>

RECURSIVE TypeText(_)
FieldsText(fs) == Sep(Map(fs, LAMBDA f : <<f[2], ":">> \o TypeText(f[3])))
TypesText(ts) == IF ts = <<>> THEN <<>> ELSE Parens(<<"type">> \o Sep(Map(ts, TypeText)))
ReturnText(ret) == IF ret = <<>> THEN <<>> ELSE <<"->">> \o TypeText(ret[1])
NamesText(ns) == IF ns = <<>> THEN <<>> ELSE Parens(<<"type">> \o Sep(Map(ns, LAMBDA n : <<n>>)))
TypeText(t) ==
  CASE t[1] = "Path" -> PathText(t[2]) \o TypesText(t[3])
    [] t[1] = "Array" -> <<"[">> \o TypeText(t[2]) \o <<";", t[3], "]">>
    [] t[1] = "FnType" -> <<"fn">> \o NamesText(t[2]) \o Parens(Sep(Map(t[3], TypeText))) \o ReturnText(t[4])
    [] t[1] = "Base" -> <<"base">> \o TypeText(t[2])
    [] t[1] = "Anonymous" -> <<"{">> \o FieldsText(t[2]) \o <<"}">>
    [] OTHER -> FoldLeft(LAMBDA all, c : all \o <<"+">> \o TypeText(c), TypeText(Head(t[2])), Tail(t[2]))

RECURSIVE ExprText(_, _), StmtText(_)
BlockText(body) == <<"{">> \o FlattenSeq(Map(body, StmtText)) \o <<"}">>
SegText(seg) == <<seg[2]>> \o (IF seg[3] = <<>> THEN <<>> ELSE <<"[">> \o ExprText(seg[3][1], 0) \o <<"]">>)
AccessText(path) == FoldLeft(LAMBDA all, seg : all \o <<".">> \o SegText(seg), SegText(Head(path)), Tail(path))
ExprsText(es) == Sep(Map(es, LAMBDA e : ExprText(e, 0)))
\* The text of e where an operator of a level below min needs parentheses.
ExprText(e, min) ==
  CASE e[1] = "Bin" -> LET l == Level(e[2])
                           text == ExprText(e[3], LeftLevel(l, LeftRecursive)) \o <<e[2]>> \o ExprText(e[4], l + 1)
                       IN  IF l < min THEN Parens(text) ELSE text
    [] e[1] = "Uni" -> <<e[2]>> \o ExprText(e[3], 6)
    [] e[1] \in {"Literal", "Binding"} -> <<e[2]>>
    [] e[1] = "Chain" -> LET text == FoldLeft(LAMBDA all, c : all \o <<"|>">> \o ExprText(c, 0), ExprText(e[2], 0), e[3])
                         IN  IF min > 0 THEN Parens(text) ELSE text
    [] e[1] = "Call" -> PathText(e[2]) \o TypesText(e[3]) \o Parens(ExprsText(e[4]))
    [] e[1] = "Path" -> PathText(e[2]) \o TypesText(e[3])
    [] e[1] = "Access" -> AccessText(e[2])
    [] e[1] = "Indexing" -> <<e[2], "[">> \o ExprText(e[3], 0) \o <<"]">>
    [] e[1] = "List" -> <<"[">> \o ExprsText(e[2]) \o <<"]">>
    [] e[1] = "Value" -> <<"[">> \o ExprText(e[2], 0) \o <<";", e[3], "]">>
    [] e[1] = "Struct" -> <<"init">> \o (IF e[2][1] = "Named" THEN PathText(e[2][2]) ELSE <<>>)
         \o TypesText(e[2][3]) \o <<"{">> \o Sep(Map(e[3], LAMBDA f : <<f[2], ":">> \o ExprText(f[3], 0))) \o <<"}">>
    [] OTHER -> <<"fn">> \o Parens(FieldsText(e[2])) \o ReturnText(e[3]) \o BlockText(e[4])

BranchText(b) == ExprText(b[2], 0) \o BlockText(b[3])
StmtText(s) ==
  CASE s[1] \in {"Continue", "Break"} -> <<IF s[1] = "Break" THEN "break" ELSE "continue", ";">>
    [] s[1] = "Return" -> <<"return">> \o (IF s[2] = <<>> THEN <<>> ELSE ExprText(s[2][1], 0)) \o <<";">>
    [] s[1] = "While" -> <<"while">> \o ExprText(s[2], 0) \o BlockText(s[3])
    [] s[1] = "If" -> <<"if">> \o FoldLeft(LAMBDA all, b : all \o <<"elif">> \o BranchText(b), BranchText(Head(s[2])), Tail(s[2]))
                       \o (IF s[3] = <<>> THEN <<>> ELSE <<"else">> \o BlockText(s[3][1]))
    [] s[1] = "Let" -> <<"let", s[2]>> \o (IF s[3] = <<>> THEN <<>> ELSE <<":">> \o TypeText(s[3][1]))
                       \o <<"=">> \o ExprText(s[4], 0) \o <<";">>
    [] s[1] = "Assign" -> AccessText(s[2]) \o <<"=">> \o ExprText(s[3], 0) \o <<";">>
    [] OTHER -> ExprText(s[2], 0) \o <<";">>

WhereText(w) == IF w = <<>> THEN <<>> ELSE <<"where">> \o FieldsText(w)
SignatureText(sig) ==
  <<"fn", sig[1]>> \o NamesText(sig[2])
    \o Parens(IF sig[3][1] = "Unchecked" THEN <<"UNCHECKED">> ELSE FieldsText(sig[3][2]))
    \o ReturnText(sig[4]) \o WhereText(sig[5])
KeysText(ks) == <<"#", "[">> \o Sep(Map(ks, LAMBDA k : <<k[2]>> \o (IF k[3] = <<>> THEN <<>> ELSE <<"=">> \o k[3]))) \o <<"]">>
HeadText(head) == <<head[1]>> \o NamesText(head[2]) \o WhereText(head[3])
DeclText(d) ==
  IF d[1] = "Use" THEN <<"use", d[2], ";">>
  ELSE FlattenSeq(Map(d[2], KeysText)) \o
    CASE d[1] = "Fn" -> SignatureText(d[3]) \o BlockText(d[4])
      [] d[1] = "Builtin" -> <<"builtin">> \o SignatureText(d[3]) \o <<";">>
      [] d[1] = "Opaque" -> <<"opaque">> \o HeadText(d[3]) \o <<";">>
      [] OTHER -> <<"struct">> \o HeadText(d[3]) \o <<"{">> \o FieldsText(d[4]) \o <<"}">>
ModuleText(m) ==
  (IF m[2] = <<>> THEN <<>> ELSE <<"mod", m[2][1], ";">>) \o FlattenSeq(Map(m[3], DeclText))

TextOf(kind, tree) ==
  CASE kind = "expr" -> ExprText(tree, 0) [] kind = "stmt" -> StmtText(tree) [] OTHER -> ModuleText(tree)

-----------------------------------------------------------------------------
(* Trees. *)

A == <<"Binding", "a">>
One == <<"Literal", "1">>
Call(args) == <<"Call", <<"f">>, <<>>, args>>
IntPath == <<"Path", <<"f">>, <<>>>>
Add(l, r) == <<"Bin", "+", l, r>>
Seg(n, idx) == <<"Seg", n, idx>>

Types1 == {IntPath, <<"Path", <<"a", "f">>, <<>>>>}
Types ==
  Types1 \cup {<<"Path", <<"f">>, <<IntPath, t>>>> : t \in Types1}
    \cup {<<"Array", IntPath, "2">>, <<"Width", <<<<"Base", IntPath>>, <<"Anonymous", <<<<"Field", "a", IntPath>>>>>>>>>>}
    \cup {<<"FnType", ts, ps, ret>> : ts \in {<<>>, <<"a", "f">>}, ps \in {<<>>, <<IntPath, IntPath>>}, ret \in {<<>>, <<IntPath>>}}

Atoms ==
  {A, One, Call(<<>>), Call(<<A, One>>), <<"Call", <<"a", "f">>, <<IntPath>>, <<A>>>>,
   <<"Access", <<Seg("a", <<>>), Seg("f", <<One>>)>>>>, <<"Access", <<Seg("a", <<A>>), Seg("f", <<>>)>>>>,
   <<"Indexing", "a", Add(A, One)>>, <<"List", <<A, One>>>>, <<"Value", A, "2">>,
   <<"Path", <<"f">>, <<IntPath>>>>, <<"Path", <<"a", "f">>, <<>>>>,
   <<"Struct", <<"Anonymous", <<>>, <<>>>>, <<<<"Init", "a", Add(A, A)>>, <<"Init", "f", One>>>>>>,
   <<"Struct", <<"Named", <<"a", "f">>, <<IntPath>>>>, <<>>>>,
   <<"Chain", Call(<<>>), <<Call(<<A>>), Call(<<>>)>>>>,
   <<"AnonymousFn", <<<<"Field", "a", IntPath>>>>, <<IntPath>>, <<<<"Return", <<A>>>>>>>>}
Binary == {<<"Bin", op, l, r>> : op \in DOMAIN Prec, l, r \in {A, Call(<<A>>), Add(A, One)}}
Exprs == Atoms \cup Binary \cup {<<"Uni", op, e>> : op \in {"-", "!"}, e \in Atoms}
           \cup {<<"Bin", op, l, A>> : op \in {"*", "<"}, l \in Binary}

\* Statements that do not begin with an identifier, or are assignments, calls or
\* paths.
Plain(e) == ExprText(e, 0)[1] \notin Names \/ e[1] \in {"Call", "Chain", "Path"}
Simple ==
  {<<"Expr", e>> : e \in {x \in Atoms : Plain(x)}} \cup {<<"Return", <<>>>>, <<"Continue">>, <<"Break">>}
    \cup {<<"Return", <<e>>>> : e \in Atoms} \cup {<<"Let", "a", t, Add(A, One)>> : t \in {<<>>} \cup {<<t>> : t \in Types}}
    \cup {<<"Assign", p, A>> : p \in {<<Seg("a", <<>>)>>, <<Seg("a", <<One>>)>>, <<Seg("a", <<A>>), Seg("f", <<>>)>>,
                                      <<Seg("a", <<>>), Seg("f", <<Add(A, One)>>)>>}}
Few == {<<"Break">>, <<"Expr", Call(<<>>)>>, <<"Assign", <<Seg("a", <<>>)>>, A>>}
Bodies == {<<>>} \cup {<<s, t>> : s, t \in Few}
Branched(c) == {<<"Branch", c, body>> : body \in Bodies}
Stmts ==
  Simple \cup {<<"While", c, body>> : c \in {A, Add(A, One)}, body \in Bodies}
    \cup {<<"If", bs, else>> : bs \in {<<b>> : b \in Branched(A)} \cup {<<b, b>> : b \in Branched(One)},
                               else \in {<<>>, <<<<>>>>, <<<<<<"Break">>>>>>}}
    \cup {<<"While", A, <<<<"If", <<<<"Branch", A, <<s>>>>>>, <<>>>>>>>> : s \in Few}

Fields == <<<<"Field", "a", IntPath>>, <<"Field", "f", IntPath>>>>
Wheres == {<<>>, <<<<"Field", "a", <<"Width", <<<<"Base", IntPath>>>>>>>>>>}
Sigs == {<<"f", ts, ps, ret, w>> : ts \in {<<>>, <<"a", "f">>}, ps \in {<<"Checked", <<>>>>, <<"Checked", Fields>>},
                                   ret \in {<<>>, <<IntPath>>}, w \in Wheres}
Anns == {<<>>, <<<<<<"Key", "a", <<"str">>>>, <<"Key", "f", <<>>>>>>, <<<<"Key", "f", <<>>>>>>>>}
Declared ==
  {<<"Fn", as, sig, <<<<"Return", <<>>>>>>>> : as \in Anns, sig \in Sigs}
    \cup {<<"Builtin", as, sig, <<>>>> : as \in Anns, sig \in {<<"f", <<>>, <<"Unchecked", <<>>>>, <<IntPath>>, <<>>>>}}
    \cup {<<k, as, <<"f", ts, w>>, <<>>>> : k \in {"Opaque", "StructDecl"}, as \in Anns, ts \in {<<>>, <<"a">>}, w \in Wheres}
    \cup {<<"StructDecl", as, <<"f", <<>>, <<>>>>, Fields>> : as \in Anns} \cup {<<"Use", "a">>}
Last2 == {<<"Use", "f">>, <<"Fn", <<>>, <<"f", <<>>, <<"Checked", <<>>>>, <<>>, <<>>>>, <<>>>>}
Modules == {<<"Module", name, <<d, e>>>> : name \in {<<>>, <<"a">>}, d \in Declared, e \in Last2}

\* In a program some token follows an expression or a statement.
After(kind) == CASE kind = "expr" -> <<";">> [] kind = "stmt" -> <<"}">> [] OTHER -> <<>>
Printed(kind, trees) == {[kind |-> kind, tokens |-> TextOf(kind, t) \o After(kind), tree |-> <<t>>] : t \in trees}
Text(tokens) == [kind |-> "expr", tokens |-> tokens \o After("expr"), tree |-> <<>>]

\* Sequences of tokens, most of them no expressions.
Tokens == {"a", "1", "+", "*", "-", "(", ")", "[", "]", ".", ",", "|>", "::"}
\* Operators between operands, some of them negated or in parentheses.
Ops == {"+", "-", "*", "<", "==", "&&"}
Chains == {<<"a", o, "a", p, "a", q, "a", r, "a">> : o, p, q, r \in Ops}
            \cup {<<"a", o, "(", "a", p, "a", q, "a", ")", r, "a">> : o, p, q, r \in Ops}
            \cup {<<"-", "a", o, "!", "(", "a", p, "a", ")", q, "-", "a">> : o, p, q \in Ops}

\* Statements that begin with an identifier and are expressions.
Named == {<<"Expr", e>> : e \in {x \in Exprs : ~Plain(x)}}

MCChains == {Text(s) : s \in Chains}
MCInputs ==
  LET all == Printed("stmt", Named) \cup Printed("expr", Exprs) \cup Printed("stmt", Stmts) \cup Printed("module", Modules)
               \cup {Text(s) : s \in [1 .. 4 -> Tokens]} \cup MCChains
  IN  all

-----------------------------------------------------------------------------
(* Properties. *)

\* A statement that drops its first identifier.
Drops(i) == i.kind = "stmt" /\ i.tree # <<>> /\ i.tree[1][1] = "Expr" /\ ~Plain(i.tree[1][2])

\* The text of a tree, with the parentheses that grammar.bnf asks for (a
\* comparison in a comparison has them on either side) and no others, is parsed
\* to the same tree: every production reads what it should and nothing it leaves
\* for the next one (annotations, type arguments, the expression before a block)
\* ends up elsewhere.  The statements that fail to
\* are those that begin with an identifier and are no assignment, call or path: the
\* identifier is gone when the rest is parsed as an expression
\* (parser.rs:1643), and there is no such tree or none at all.
PrintsBack ==
  result # <<>> /\ input.tree # <<>> /\ cut = Len(input.tokens) =>
    (result[1].tag = "ok" /\ result[1].tree = input.tree[1] <=> ~Drops(input))

\* All trees that the levels of grammar.bnf derive of a text of names, operators
\* and parentheses, if those of some levels are left recursive: of two operands, of
\* an operator before an operand, of parentheses, of a name.
RECURSIVE Derived(_, _, _)
Derived(text, level, recursive) ==
  IF level <= 5
  THEN Derived(text, level + 1, recursive) \cup
       UNION {{<<"Bin", text[i], l, r>> :
                 l \in Derived(SubSeq(text, 1, i - 1), LeftLevel(level, recursive), recursive),
                 r \in Derived(SubSeq(text, i + 1, Len(text)), level + 1, recursive)} :
              i \in {k \in DOMAIN text : text[k] \in DOMAIN Prec /\ Level(text[k]) = level}}
  ELSE CASE text = <<>> -> {}
         [] text[1] \in {"-", "!"} -> {<<"Uni", text[1], e>> : e \in Derived(Tail(text), 6, recursive)}
         [] text[1] = "(" /\ Last(text) = ")" -> Derived(SubSeq(text, 2, Len(text) - 1), 1, recursive)
         [] text[1] \in Names /\ Len(text) = 1 -> {<<"Binding", text[1]>>}
         [] OTHER -> {}
ByGrammar(text) == Derived(text, 1, LeftRecursive)

\* The loops of the precedence climbing (expr, parse_primary), for every order of
\* operators of every level, negated operands and parentheses: what grammar.bnf
\* derives is accepted, with the one tree there is.  The parser departs from the
\* grammar in one way: grammar.bnf:36, "relative-cmp-expr: math-expr [LT | LTE |
\* GT | GTE] math-expr | math-expr", has no tree for a comparison of a comparison
\* (a < a < a), and the loop takes one (expr_parser.rs:142), with the tree it had
\* if line 36 were as left recursive as the lines around it.
MatchesGrammar ==
  result # <<>> /\ cut = Len(input.tokens) /\ Front(input.tokens) \in Chains =>
    LET text == Front(input.tokens)
        trees == ByGrammar(text)
    IN  /\ result[1].tag = "ok"
        /\ {result[1].tree} = IF trees # {} THEN trees ELSE Derived(text, 1, LeftRecursive \cup {3})

\* What of a text has a meaning, in its order.
Content(text) == SelectSeq(text, LAMBDA t : t \notin {"(", ")", ",", "+"})
\* What is accepted is all in the tree: no token in front of the place where
\* the parser stops is read and forgotten.
NothingLost ==
  result # <<>> /\ ~Drops(input) => (result[1].tag = "ok" =>
    Content(TextOf(input.kind, result[1].tree)) = Content(SubSeq(input.tokens, 1, result[1].at - 1)))

\* A text that is cut off is reported: a statement is never accepted without its
\* end, a module only if it ends behind a declaration, and none of the
\* unimplemented arms is reached by the end of the input.
PrefixesRefused ==
  result # <<>> /\ input.tree # <<>> /\ ~Drops(input) /\ cut < Len(input.tokens) =>
    /\ result[1].tag # "panic"
    /\ input.kind = "stmt" /\ result[1].tag = "ok" => result[1].tree = input.tree[1]
    /\ input.kind = "module" /\ result[1].tag = "ok" =>
         IsPrefix(result[1].tree[3], input.tree[1][3])

=============================================================================
