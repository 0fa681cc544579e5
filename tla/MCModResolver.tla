---------------------------- MODULE MCModResolver ----------------------------
(***************************************************************************)
(* Bounded instances of module resolution: up to three modules that use    *)
(* each other in every way, declarations that clash, and functions whose   *)
(* bodies hold anonymous functions, one in the other, and are refused or   *)
(* panic in each of the passes that read them.                             *)
(***************************************************************************)
EXTENDS Acceptance

Text(types, refs, anons) ==
  [types |-> types, refs |-> refs, form |-> "ok", graph |-> TRUE, body |-> "ok", anons |-> anons]
Leaf == Text({}, {}, <<>>)
Stray == [Leaf EXCEPT !.graph = FALSE]
Unsound == [Leaf EXCEPT !.body = "error"]
Breaking == [Leaf EXCEPT !.body = "panic"]
Odd == [Leaf EXCEPT !.form = "error"]
Clauses == [Leaf EXCEPT !.form = "panic"]
CallsF == Text({}, {<<"f">>}, <<>>)
Pair == Text({}, {}, <<Leaf, CallsF>>)
Deep == Text({}, {<<"f">>}, <<Pair, Leaf>>)
OfS == Text({<<"S">>}, {}, <<>>)
Asks(p, q) == Text({p}, {q}, <<OfS>>)
Faulty == {Text({}, {}, <<Stray>>), Text({}, {}, <<Leaf, Unsound>>),
           Text({}, {<<"g">>}, <<>>), Text({}, {}, <<Text({<<"f">>}, {}, <<>>)>>),
           Text({}, {}, <<Leaf, Breaking>>), Text({}, {}, <<Text({}, {}, <<Clauses>>)>>),
           Text({}, {}, <<Odd>>), [Text({<<"f">>}, {<<"g">>}, <<Stray>>) EXCEPT !.body = "panic"]}

Poor == {Stray, Unsound, Breaking, Odd, Clauses}

MCNames == {"a", "b", "c", "f", "g", "S"} \cup {StdTypes[i] : i \in DOMAIN StdTypes}
MCTexts ==
  LET asked == {Asks(p, q) : p \in {<<"S">>, <<"b", "S">>, <<"b", "int">>},
                             q \in {<<"f">>, <<"b", "f">>, <<"c", "f">>, <<"b", "g">>}}
      parts == UNION {{t.anons[i] : i \in DOMAIN t.anons} : t \in Faulty}
  IN  {Leaf, CallsF, Pair, Deep, OfS} \cup Poor \cup asked \cup Faulty \cup parts

\* The places in a text: its own, and those in its anonymous functions.
RECURSIVE PlacesIn(_)
PlacesIn(t) ==
  {<<>>} \cup UNION {{<<i>> \o p : p \in PlacesIn(t.anons[i])} : i \in DOMAIN t.anons}
RECURSIVE AtPlace(_, _)
AtPlace(t, p) == IF p = <<>> THEN t ELSE AtPlace(t.anons[Head(p)], Tail(p))
MCNested == [t \in MCTexts |-> [p \in PlacesIn(t) |-> AtPlace(t, p)]]

Of(kind, name, text) == [kind |-> kind, name |-> name, text |-> text]
Use(name) == Of("use", name, Leaf)
Struct(text) == Of("struct", "S", text)
Fn(name, text) == Of("fn", name, text)
Module(name, decls) == [name |-> name, decls |-> decls]

\* Two declarations of one name, of every two kinds, in a module with or
\* without a name.
Clashing ==
  LET kinds == Kinds \ {"use"} IN
  {<<Module(name, <<Of(k, "S", Leaf), Of(j, "S", Leaf)>>)>> : name \in {"a", NoName}, k, j \in kinds}

\* What a sees of b and c, which use each other or nothing.
Using ==
  LET uses == {<<>>, <<Use("b")>>, <<Use("c")>>, <<Use("b"), Use("c")>>, <<Use("a"), Use("b")>>, <<Use("b"), Use("b")>>}
      fns == {Asks(p, q) : p \in {<<"S">>, <<"b", "S">>, <<"b", "int">>},
                           q \in {<<"f">>, <<"b", "f">>, <<"c", "f">>}}
  IN  {<<Module("a", u \o <<Struct(Leaf), Fn("f", t)>>),
         Module("b", v \o <<Struct(Leaf), Of("builtin", "f", Leaf)>>),
         Module(n, <<Fn("f", Leaf)>>)>> :
         u \in uses, v \in {<<>>, <<Use("c")>>}, t \in fns, n \in {"b", "c"}}

\* Two functions with anonymous functions in them.
Bodies ==
  LET bodies == {Leaf, Pair, Deep} \cup Faulty \cup Poor IN
  {<<Module("a", <<Fn("f", s), Of(k, "S", u), Fn("b", t)>>)>> :
     s \in bodies, t \in {Leaf, Pair, Deep}, k \in {"struct", "opaque", "builtin"}, u \in {Leaf, Odd, Clauses, Text({<<"f">>}, {}, <<>>)}}

Two == {<<Module("a", <<Use("b"), Fn("f", Deep)>>), Module("b", <<Fn("f", Deep), Struct(Leaf)>>)>>}

MCPrograms == LET all == Clashing \cup Using \cup Bodies \cup Two IN all

\* check_modules ends: anonymous functions are not nested for ever.
Settles == <>(outcome # "running")

=============================================================================
