-------------------------------- MODULE Parser --------------------------------
(***************************************************************************)
(* The parser (parser/parser.rs, parser/expr_parser.rs): one operator per  *)
(* production, from the place of a token to a syntax tree and the place    *)
(* behind it, to an error or to a panic.                                   *)
(*                                                                         *)
(* A token is its text.  Spans are left out, and so are the delimiters     *)
(* that productions hand down: every token is_delim knows is a token that  *)
(* get_op does not, and expr stops at both.  A tree is a tuple that begins *)
(* with its kind; what is optional is a sequence of none or one.           *)
(***************************************************************************)
EXTENDS Integers, Sequences, FiniteSets

CONSTANTS
  Names,     \* the texts that are identifiers
  Inputs     \* what is parsed: [kind, tokens, tree], tree <<>> if it is not known

VARIABLES
  input,     \* one of them
  cut,       \* how many of its tokens are there; behind them the text ends
  result     \* <<>>, and in the end what the parser returns

vars == <<input, cut, result>>

-----------------------------------------------------------------------------
(* BufferedTokenizer, and the results of productions. *)

EOI == "end of input"
Tok(at) == IF at <= cut THEN input.tokens[at] ELSE EOI

Ok(tree, at) == [tag |-> "ok", tree |-> tree, at |-> at]
Error(at) == [tag |-> "error", tree |-> <<>>, at |-> at]
Panic(at) == [tag |-> "panic", tree |-> <<>>, at |-> at]

\* production!: go on behind what was parsed, or hand on the failure.
Bind(r, Then(_, _)) == IF r.tag = "ok" THEN Then(r.tree, r.at) ELSE r
\* consume_token!: the token t is taken; the tree so far is kept.
Expect(t, tree, at) == IF Tok(at) = t THEN Ok(tree, at + 1) ELSE Error(at)
\* peek_token!: looking at the end of the input is an error.
Peek(at, r) == IF Tok(at) = EOI THEN Error(at) ELSE r
Optional(t, at, Part(_)) == Peek(at, IF Tok(at) = t THEN Part(at) ELSE Ok(<<>>, at))
Name(at) == IF Tok(at) \in Names THEN Ok(Tok(at), at + 1) ELSE Error(at)

\* bin_op_precedence
Prec == [op \in {"+", "-", "*", "<", "==", "&&", "||"} |->
  CASE op = "*" -> 14 [] op \in {"+", "-"} -> 13 [] op = "<" -> 10
    [] op = "==" -> 9 [] OTHER -> 4]
Size == [n \in {"0", "1", "2"} |-> CASE n = "0" -> 0 [] n = "1" -> 1 [] OTHER -> 2]
IsLiteral(t) == t \in DOMAIN Size \cup {"true", "str"}

\* The productions that others come back to, by name.
RECURSIVE Parsed(_, _)
TypeAt(at) == Parsed("type", at)
ExprAt(at) == Parsed("expr", at)          \* with pipes
UnpipedAt(at) == Parsed("unpiped", at)
PrimaryAt(at) == Parsed("primary", at)
BlockAt(at) == Parsed("block", at)

RECURSIVE Pipes(_, _), Expr(_, _, _), Rhs(_, _, _), AccessPath(_, _), Args(_, _), ModPath(_, _),
          CommaList(_, _, _, _), WidthConstraints(_, _), Statements(_, _), IfBranches(_, _),
          WhereClause(_, _), Annotations(_, _), Decls(_, _, _)

-----------------------------------------------------------------------------
(* Lists: items between commas, with or without one before the closing token. *)

Field(at) ==
  Bind(Name(at), LAMBDA n, i : Bind(Expect(":", n, i), LAMBDA m, j :
    Bind(TypeAt(j), LAMBDA t, k : Ok(<<"Field", n, t>>, k))))
FieldInit(at) ==
  Bind(Name(at), LAMBDA n, i : Bind(Expect(":", n, i), LAMBDA m, j :
    Bind(UnpipedAt(j), LAMBDA e, k : Ok(<<"Init", n, e>>, k))))
KvPair(at) ==
  Bind(Name(at), LAMBDA n, i : Peek(i,
    IF Tok(i) # "=" THEN Ok(<<"Key", n, <<>>>>, i)
    ELSE IF Tok(i + 1) = "str" THEN Ok(<<"Key", n, <<"str">>>>, i + 2) ELSE Error(i + 1)))
Item(kind, at) ==
  CASE kind = "field" -> Field(at)
    [] kind = "init" -> FieldInit(at)
    [] kind = "key" -> KvPair(at)
    [] kind = "name" -> Name(at)
    [] kind = "type" -> TypeAt(at)
    [] OTHER -> UnpipedAt(at)

CommaList(kind, close, list, at) ==
  Bind(Item(kind, at), LAMBDA x, i : Peek(i,
    IF Tok(i) # "," THEN Ok(Append(list, x), i)
    ELSE Peek(i + 1, IF Tok(i + 1) = close THEN Ok(Append(list, x), i + 1)
                     ELSE CommaList(kind, close, Append(list, x), i + 1))))
\* The list and its closing token, or the closing token only.
Closed(kind, close, at) ==
  Peek(at, Bind(IF Tok(at) = close THEN Ok(<<>>, at) ELSE CommaList(kind, close, <<>>, at),
                LAMBDA list, i : Expect(close, list, i)))
\* type_arg_list_post_lparen and type_param_list_post_lparen
TypeList(kind, at) ==
  Bind(Expect("type", <<>>, at), LAMBDA n, i :
    Bind(CommaList(kind, ")", <<>>, i), LAMBDA list, j : Expect(")", list, j)))

-----------------------------------------------------------------------------
(* Types. *)

ModuleBinding(at) ==
  Bind(Name(at), LAMBDA n, i : Peek(i,
    IF Tok(i) = "::" THEN Bind(Name(i + 1), LAMBDA m, j : Ok(<<n, m>>, j)) ELSE Ok(<<n>>, i)))
TypeArgs(at) == Optional("(", at, LAMBDA i : TypeList("type", i + 1))

ArrayType(at) ==
  Bind(TypeAt(at + 1), LAMBDA t, i : Bind(Expect(";", t, i), LAMBDA u, j :
    IF Tok(j) \notin DOMAIN Size THEN Error(j)
    ELSE Bind(Expect("]", t, j + 1), LAMBDA v, k :
      IF Size[Tok(j)] <= 0 THEN Panic(k) ELSE Ok(<<"Array", t, Tok(j)>>, k))))

ReturnType(at) ==
  Optional("->", at, LAMBDA i : Bind(TypeAt(i + 1), LAMBDA t, j : Ok(<<t>>, j)))
\* "(" [type-params ")" "("]? as far as the parameters
TypeParams(at) ==
  Bind(Expect("(", <<>>, at), LAMBDA n, i : Peek(i,
    IF Tok(i) # "type" THEN Ok(<<>>, i)
    ELSE Bind(TypeList("name", i), LAMBDA list, j : Expect("(", list, j))))
FnType(at) ==
  Bind(TypeParams(at + 1), LAMBDA ts, i : Bind(Closed("type", ")", i), LAMBDA ps, j :
    Bind(ReturnType(j), LAMBDA ret, k : Ok(<<"FnType", ts, ps, ret>>, k))))

WidthConstraint(at) ==
  CASE Tok(at) = "base" -> Bind(TypeAt(at + 1), LAMBDA t, i : Ok(<<"Base", t>>, i))
    [] Tok(at) = "{" -> Bind(CommaList("field", "}", <<>>, at + 1), LAMBDA fs, i :
                          Expect("}", <<"Anonymous", fs>>, i))
    [] Tok(at) = EOI -> Error(at)
    [] OTHER -> Panic(at)
WidthConstraints(list, at) ==
  Bind(WidthConstraint(at), LAMBDA c, i : Peek(i,
    IF Tok(i) = "+" THEN WidthConstraints(Append(list, c), i + 1)
    ELSE Ok(<<"Width", Append(list, c)>>, i)))

TypeAnnotation(at) ==
  CASE Tok(at) \in Names -> Bind(ModuleBinding(at), LAMBDA path, i :
                              Bind(TypeArgs(i), LAMBDA ts, j : Ok(<<"Path", path, ts>>, j)))
    [] Tok(at) = "fn" -> FnType(at)
    [] Tok(at) = "[" -> ArrayType(at)
    [] Tok(at) \in {"base", "{"} -> WidthConstraints(<<>>, at)
    [] Tok(at) = EOI -> Error(at)
    [] OTHER -> Panic(at)

-----------------------------------------------------------------------------
(* Expressions. *)

\* prebase_piped_expr
Pipes(list, at) ==
  IF Tok(at) # "|>" THEN Ok(list, at)
  ELSE Bind(UnpipedAt(at + 1), LAMBDA e, i : Pipes(Append(list, e), i))
Piped(base, at) ==
  Bind(Pipes(<<>>, at), LAMBDA list, i :
    IF list = <<>> THEN Ok(base, i)
    ELSE IF base[1] = "Call" /\ \A k \in DOMAIN list : list[k][1] = "Call"
         THEN Ok(<<"Chain", base, list>>, i) ELSE Error(i))
PipedExpr(at) == Bind(UnpipedAt(at), LAMBDA e, i : Piped(e, i))

\* Mutant: an operator of the same precedence is taken into the right side.
RhsEqual(rhs, at, prec) ==
  IF Tok(at) \in DOMAIN Prec /\ Prec[Tok(at)] >= prec
  THEN Bind(Expr(rhs, at, Prec[Tok(at)]), LAMBDA e, i : Rhs(e, i, prec))
  ELSE Ok(rhs, at)

\* The operators that bind the right side of another more tightly.
Rhs(rhs, at, prec) ==
  IF Tok(at) \in DOMAIN Prec /\ Prec[Tok(at)] > prec
  THEN Bind(Expr(rhs, at, Prec[Tok(at)]), LAMBDA e, i : Rhs(e, i, prec))
  ELSE Ok(rhs, at)
Expr(lhs, at, min) ==
  IF Tok(at) \in DOMAIN Prec /\ Prec[Tok(at)] >= min
  THEN Bind(PrimaryAt(at + 1), LAMBDA p, i : Bind(Rhs(p, i, Prec[Tok(at)]), LAMBDA rhs, j :
         Expr(<<"Bin", Tok(at), lhs, rhs>>, j, min)))
  ELSE Ok(lhs, at)

\* "[" expr "]"
Index(at) == Bind(ExprAt(at + 1), LAMBDA e, i : Expect("]", e, i))
Segment(at) ==
  Bind(Name(at), LAMBDA n, i : Peek(i,
    IF Tok(i) = "[" THEN Bind(Index(i), LAMBDA e, j : Ok(<<"Seg", n, <<e>>>>, j))
    ELSE Ok(<<"Seg", n, <<>>>>, i)))
AccessPath(path, at) ==
  IF Tok(at) # "." THEN Ok(<<"Access", path>>, at)
  ELSE Bind(Segment(at + 1), LAMBDA s, i : AccessPath(Append(path, s), i))

\* fn_args_post_lparen: a comma is taken where there is one.
Args(list, at) ==
  Peek(at, IF Tok(at) = ")" THEN Ok(list, at + 1)
    ELSE Bind(ExprAt(at), LAMBDA e, i :
           Peek(i, Args(Append(list, e), IF Tok(i) = "," THEN i + 1 ELSE i))))
\* Behind the "(" of a call: type arguments, arguments or both.
CallOrApp(path, at) ==
  Peek(at, IF Tok(at) # "type"
    THEN Bind(Args(<<>>, at), LAMBDA as, i : Ok(<<"Call", path, <<>>, as>>, i))
    ELSE Bind(TypeList("type", at), LAMBDA ts, i : Peek(i,
           IF Tok(i) = "(" THEN Bind(Args(<<>>, i + 1), LAMBDA as, j : Ok(<<"Call", path, ts, as>>, j))
           ELSE Ok(<<"Path", path, ts>>, i))))
ModPath(path, at) ==
  CASE Tok(at) = "::" -> Bind(Name(at + 1), LAMBDA n, i : ModPath(Append(path, n), i))
    [] Tok(at) = "(" -> CallOrApp(path, at + 1)
    [] OTHER -> Ok(<<"Path", path, <<>>>>, at)


IdentLeaf(at) ==
  LET name == Tok(at) IN
  CASE Tok(at + 1) = EOI -> Error(at + 1)
    [] Tok(at + 1) = "." -> AccessPath(<<<<"Seg", name, <<>>>>>>, at + 1)
    [] Tok(at + 1) = "::" -> ModPath(<<name>>, at + 1)
    [] Tok(at + 1) = "(" -> CallOrApp(<<name>>, at + 2)
    [] Tok(at + 1) = "[" -> Bind(Index(at + 1), LAMBDA e, i : Peek(i,
         IF Tok(i) = "." THEN AccessPath(<<<<"Seg", name, <<e>>>>>>, i)
         ELSE Ok(<<"Indexing", name, e>>, i)))
    [] OTHER -> Ok(<<"Binding", name>>, at + 1)

StructInit(at) ==
  Bind(Peek(at, IF Tok(at) = "{" THEN Ok(<<"Anonymous", <<>>, <<>>>>, at)
                ELSE Bind(ModuleBinding(at), LAMBDA path, i : Bind(TypeArgs(i), LAMBDA ts, j :
                       Ok(<<"Named", path, ts>>, j)))),
       LAMBDA type, i : Bind(Expect("{", type, i), LAMBDA n, j :
         Bind(Closed("init", "}", j), LAMBDA fs, k : Ok(<<"Struct", type, fs>>, k))))

ArrayInit(at) ==
  Bind(Item("element", at), LAMBDA e, i :
    CASE Tok(i) = "]" -> Ok(<<"List", <<e>>>>, i + 1)
      [] Tok(i) = "," -> Peek(i + 1, Bind(Closed("element", "]", i + 1), LAMBDA es, j :
                           Ok(<<"List", <<e>> \o es>>, j)))
      [] Tok(i) = ";" -> IF Tok(i + 1) \notin DOMAIN Size THEN Error(i + 1)
                         ELSE IF Size[Tok(i + 1)] <= 0 THEN Panic(i + 1)
                         ELSE Expect("]", <<"Value", e, Tok(i + 1)>>, i + 2)
      [] Tok(i) = EOI -> Error(i)
      [] OTHER -> Panic(i))

AnonymousFn(at) ==
  Bind(Expect("(", <<>>, at), LAMBDA n, i : Bind(Closed("field", ")", i), LAMBDA ps, j :
    Bind(ReturnType(j), LAMBDA ret, k : Bind(BlockAt(k), LAMBDA body, l :
      Ok(<<"AnonymousFn", ps, ret, body>>, l)))))

Primary(at) ==
  LET t == Tok(at) IN
  CASE t = "+" -> PrimaryAt(at + 1)
    [] t \in {"-", "!"} -> Bind(PrimaryAt(at + 1), LAMBDA e, i : Ok(<<"Uni", t, e>>, i))
    [] IsLiteral(t) -> Ok(<<"Literal", t>>, at + 1)
    [] t = "(" -> Bind(ExprAt(at + 1), LAMBDA e, i : Expect(")", e, i))
    [] t \in Names -> IdentLeaf(at)
    [] t = "init" -> StructInit(at + 1)
    [] t = "[" -> ArrayInit(at + 1)
    [] t = "fn" -> AnonymousFn(at + 1)
    [] t = EOI -> Error(at)
    [] OTHER -> Panic(at)

-----------------------------------------------------------------------------
(* Statements. *)

\* expr ";" behind some tokens of a statement
Ended(r, Tree(_)) == Bind(r, LAMBDA e, i : Expect(";", Tree(e), i))
ExprStmt(e) == <<"Expr", e>>

AssignOrExpr(path, at) ==
  Peek(at, IF Tok(at) = "=" THEN Ended(ExprAt(at + 1), LAMBDA e : <<"Assign", path, e>>)
           ELSE Ended(ExprAt(at), ExprStmt))

\* A call, perhaps piped, or a function with type arguments only.
CallStmt(name, at) ==
  Bind(CallOrApp(<<name>>, at), LAMBDA e, i :
    IF e[1] = "Call" THEN Ended(Piped(e, i), ExprStmt)
    ELSE IF Tok(i) = ";" THEN Ok(ExprStmt(e), i + 1) ELSE Panic(i))
\* A place with an index, and perhaps a path behind it.
IndexStmt(name, at) ==
  Bind(Index(at), LAMBDA e, i : Peek(i,
    IF Tok(i) = "." THEN Bind(AccessPath(<<<<"Seg", name, <<e>>>>>>, i), LAMBDA a, j : AssignOrExpr(a[2], j))
    ELSE AssignOrExpr(<<<<"Seg", name, <<e>>>>>>, i)))

\* A statement that begins with an identifier.  An access path that no "="
\* follows, and an identifier alone, are left behind.
PotentialAssign(at) ==
  LET name == Tok(at)
      path == <<<<"Seg", name, <<>>>>>>
  IN
  CASE Tok(at + 1) = EOI -> Error(at + 1)
    [] Tok(at + 1) = "." -> Bind(AccessPath(path, at + 1), LAMBDA a, i : AssignOrExpr(a[2], i))
    [] Tok(at + 1) = "::" -> Bind(ModPath(<<name>>, at + 1), LAMBDA e, i : Ended(Piped(e, i), ExprStmt))
    [] Tok(at + 1) = "(" -> CallStmt(name, at + 2)
    [] Tok(at + 1) = "[" -> IndexStmt(name, at + 1)
    [] Tok(at + 1) = "=" -> Ended(ExprAt(at + 2), LAMBDA e : <<"Assign", path, e>>)
    [] OTHER -> Ended(ExprAt(at + 1), ExprStmt)

LocalVarDecl(at) ==
  Bind(Name(at), LAMBDA n, i :
    Bind(Optional(":", i, LAMBDA j : Bind(TypeAt(j + 1), LAMBDA t, k : Ok(<<t>>, k))),
         LAMBDA type, j : Bind(Expect("=", type, j), LAMBDA m, k :
           Ended(ExprAt(k), LAMBDA e : <<"Let", n, type, e>>))))

Branch(at) ==
  Bind(ExprAt(at), LAMBDA c, i : Bind(BlockAt(i), LAMBDA body, j : Ok(<<"Branch", c, body>>, j)))
IfBranches(list, at) ==
  Peek(at,
    CASE Tok(at) = "elif" -> Bind(Branch(at + 1), LAMBDA b, i : IfBranches(Append(list, b), i))
      [] Tok(at) = "else" -> Bind(BlockAt(at + 1), LAMBDA body, i : Ok(<<"If", list, <<body>>>>, i))
      [] OTHER -> Ok(<<"If", list, <<>>>>, at))

ReturnStmt(at) ==
  Peek(at, IF Tok(at) = ";" THEN Ok(<<"Return", <<>>>>, at + 1)
           ELSE Ended(ExprAt(at), LAMBDA e : <<"Return", <<e>>>>))

Stmt(at) ==
  CASE Tok(at) = "continue" -> Expect(";", <<"Continue">>, at + 1)
    [] Tok(at) = "break" -> Expect(";", <<"Break">>, at + 1)
    [] Tok(at) = "return" -> ReturnStmt(at + 1)
    [] Tok(at) = "while" -> Bind(Branch(at + 1), LAMBDA b, i : Ok(<<"While", b[2], b[3]>>, i))
    [] Tok(at) = "if" -> Bind(Branch(at + 1), LAMBDA b, i : IfBranches(<<b>>, i))
    [] Tok(at) = "let" -> LocalVarDecl(at + 1)
    [] Tok(at) \in Names -> PotentialAssign(at)
    [] Tok(at) = EOI -> Error(at)
    [] OTHER -> Ended(ExprAt(at), ExprStmt)

\* Mutant: a text that ends in a block ends the block.
StatementsAtEnd(list, at) ==
  IF Tok(at) \in {"}", EOI} THEN Ok(list, IF Tok(at) = EOI THEN at ELSE at + 1)
  ELSE Bind(Stmt(at), LAMBDA s, i : Statements(Append(list, s), i))

Statements(list, at) ==
  Peek(at, IF Tok(at) = "}" THEN Ok(list, at + 1)
           ELSE Bind(Stmt(at), LAMBDA s, i : Statements(Append(list, s), i)))
Block(at) == Bind(Expect("{", <<>>, at), LAMBDA n, i : Statements(<<>>, i))

-----------------------------------------------------------------------------
(* Declarations and modules. *)

WhereClause(list, at) ==
  Bind(Field(at), LAMBDA f, i : Peek(i,
    IF Tok(i) = "," THEN WhereClause(Append(list, f), i + 1) ELSE Ok(Append(list, f), i)))
Where(at) == Optional("where", at, LAMBDA i : WhereClause(<<>>, i + 1))

FnParams(at) ==
  Peek(at, IF Tok(at) = "UNCHECKED" THEN Expect(")", <<"Unchecked", <<>>>>, at + 1)
           ELSE Bind(Closed("field", ")", at), LAMBDA ps, i : Ok(<<"Checked", ps>>, i)))

\* What fn_decl reads of both kinds of functions, behind "fn".
Signature(at) ==
  Bind(Name(at), LAMBDA n, i : Bind(TypeParams(i), LAMBDA ts, j : Bind(FnParams(j), LAMBDA ps, k :
    Bind(ReturnType(k), LAMBDA ret, l : Bind(Where(l), LAMBDA w, m : Ok(<<n, ts, ps, ret, w>>, m))))))
FnDecl(anns, at) ==
  Bind(Signature(at + 1), LAMBDA sig, i : Bind(BlockAt(i), LAMBDA body, j :
    IF sig[3][1] = "Unchecked" THEN Error(j) ELSE Ok(<<"Fn", anns, sig, body>>, j)))
BuiltinDecl(anns, at) ==
  Bind(Expect("fn", <<>>, at + 1), LAMBDA n, i : Bind(Signature(i), LAMBDA sig, j :
    Expect(";", <<"Builtin", anns, sig, <<>>>>, j)))

TypeHead(at) ==
  Bind(Name(at), LAMBDA n, i : Bind(Optional("(", i, LAMBDA j : TypeList("name", j + 1)), LAMBDA ts, j :
    Bind(Where(j), LAMBDA w, k : Ok(<<n, ts, w>>, k))))
OpaqueDecl(anns, at) ==
  Bind(TypeHead(at + 1), LAMBDA head, i : Expect(";", <<"Opaque", anns, head, <<>>>>, i))
StructDecl(anns, at) ==
  Bind(TypeHead(at + 1), LAMBDA head, i : Bind(Expect("{", head, i), LAMBDA n, j :
    Bind(Closed("field", "}", j), LAMBDA fs, k : Ok(<<"StructDecl", anns, head, fs>>, k))))
UseDecl(at) == Bind(Name(at + 1), LAMBDA n, i : Expect(";", <<"Use", n>>, i))

\* Annotations in a row; what follows them is looked at.
Annotations(list, at) ==
  Peek(at, IF Tok(at) # "#" THEN Ok(list, at)
    ELSE Bind(Expect("[", <<>>, at + 1), LAMBDA n, i : Bind(CommaList("key", "]", <<>>, i), LAMBDA ks, j :
           Bind(Expect("]", ks, j), LAMBDA m, k : Annotations(Append(list, ks), k)))))

\* Mutant: the annotations of a declaration stay for the next one.
DeclsKept(list, anns, at) ==
  IF Tok(at) = "fn" THEN Bind(FnDecl(anns, at), LAMBDA d, i : Decls(Append(list, d), anns, i))
  ELSE IF Tok(at) = EOI THEN Ok(list, at) ELSE Error(at)

Decls(list, anns, at) ==
  LET Go(r) == Bind(r, LAMBDA d, i : Decls(Append(list, d), <<>>, i)) IN
  CASE Tok(at) = EOI -> Ok(list, at)
    [] Tok(at) = "opaque" -> Go(OpaqueDecl(anns, at))
    [] Tok(at) = "struct" -> Go(StructDecl(anns, at))
    [] Tok(at) = "#" -> Bind(Annotations(<<>>, at), LAMBDA as, i : Decls(list, as, i))
    [] Tok(at) = "fn" -> Go(FnDecl(anns, at))
    [] Tok(at) = "builtin" -> Go(BuiltinDecl(anns, at))
    [] Tok(at) = "use" -> Go(UseDecl(at))
    [] OTHER -> Panic(at)
Module(at) ==
  Bind(Optional("mod", at, LAMBDA i : Bind(Name(i + 1), LAMBDA n, j : Expect(";", <<n>>, j))),
       LAMBDA name, i : Bind(Decls(<<>>, <<>>, i), LAMBDA ds, j : Ok(<<"Module", name, ds>>, j)))

Parsed(kind, at) ==
  CASE kind = "type" -> TypeAnnotation(at)
    [] kind = "expr" -> PipedExpr(at)
    [] kind = "unpiped" -> Bind(Primary(at), LAMBDA p, i : Expr(p, i, 0))
    [] kind = "primary" -> Primary(at)
    [] kind = "block" -> Block(at)
    [] kind = "stmt" -> Stmt(at)
    [] OTHER -> Module(at)

-----------------------------------------------------------------------------
(* One parse of one input. *)

Init == input \in Inputs /\ cut \in 0 .. Len(input.tokens) /\ result = <<>>

Parse(kind) ==
  /\ result = <<>> /\ input.kind = kind
  /\ result' = <<Parsed(kind, 1)>>
  /\ UNCHANGED <<input, cut>>

ParseExpr == Parse("expr")
ParseStmt == Parse("stmt")
ParseModule == Parse("module")
Returned == result # <<>> /\ UNCHANGED vars

Next == ParseExpr \/ ParseStmt \/ ParseModule \/ Returned
Spec == Init /\ [][Next]_vars
=============================================================================
