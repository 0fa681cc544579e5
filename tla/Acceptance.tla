------------------------------ MODULE Acceptance ------------------------------
(***************************************************************************)
(* What check_modules should accept and what it should leave behind, read  *)
(* off the text of the program as a whole: no pass, order or id comes in.  *)
(***************************************************************************)
EXTENDS ModResolver

CONSTANT Nested   \* of each text, what is in it at any depth, by its place

\* A place is the way into a text: which anonymous function of it, which one of
\* that, and so on.  The syntax tree is finite and has one text at each place.
IsNesting(t, tree) ==
  /\ DOMAIN tree =
       {<<>>} \cup UNION {{Append(p, i) : i \in DOMAIN tree[p].anons} : p \in DOMAIN tree}
  /\ DOMAIN tree \subseteq Seq(Nat)
  /\ tree[<<>>] = t
  /\ \A p \in DOMAIN tree : \A i \in DOMAIN tree[p].anons :
       tree[Append(p, i)] = tree[p].anons[i]
ASSUME NestedAssumption == \A t \in Texts : IsNesting(t, Nested[t])

-----------------------------------------------------------------------------
DeclsOf(m) == program[m].decls
Chosen(m, kinds) == {i \in DOMAIN DeclsOf(m) : DeclsOf(m)[i].kind \in kinds}
NamesOf(m, kinds) == {DeclsOf(m)[i].name : i \in Chosen(m, kinds)}
TypeKinds == {"struct", "opaque"}
FnKinds == {"fn", "builtin"}

\* A path is visible if it names a declaration of the module, or one of a
\* module it uses itself.
Here(m, kinds, given) == {<<n>> : n \in NamesOf(m, kinds)} \cup given
UsedBy(m) == {e \in Mods : program[e].name \in NamesOf(m, {"use"})}
Visible(m, kinds, given) ==
  Here(m, kinds, given) \cup
  UNION {{<<program[d].name>> \o q : q \in Here(d, kinds, given)} : d \in UsedBy(m)}
VisibleTypes(m) == Visible(m, TypeKinds, DOMAIN StdScope.types)
VisibleFns(m) == Visible(m, FnKinds, {})

NoDuplicates(m, kinds) ==
  \A i, j \in Chosen(m, kinds) : DeclsOf(m)[i].name = DeclsOf(m)[j].name => i = j
Flawless(t, m) ==
  /\ t.types \subseteq VisibleTypes(m) /\ t.refs \subseteq VisibleFns(m)
  /\ t.form = "ok" /\ t.graph /\ t.body = "ok"
Sound(m, d) ==
  /\ d.kind \in TypeKinds \cup FnKinds =>
       d.text.types \subseteq VisibleTypes(m) /\ d.text.form = "ok"
  /\ d.kind = "fn" => \A p \in DOMAIN Nested[d.text] : Flawless(Nested[d.text][p], m)
Acceptable ==
  /\ \A m \in Mods :
       /\ program[m].name # NoName
       /\ NoDuplicates(m, TypeKinds) /\ NoDuplicates(m, FnKinds)
       /\ NamesOf(m, {"use"}) \subseteq {program[d].name : d \in Mods}
       /\ \A i \in DOMAIN DeclsOf(m) : Sound(m, DeclsOf(m)[i])
  /\ ~Clashes(program)

\* check_modules accepts the programs it should and no other, in whatever
\* order its hash maps are iterated over.
AcceptsExactly == outcome # "running" => (outcome = "ok" <=> Acceptable)

\* Every panic is accounted for.  The tables, the storages and the expect()s of
\* the passes panic only in a program with two modules of one name or a module
\* that uses another twice: the storages of anonymous functions are never
\* overwritten nor asked for what is missing.  Any other panic is that of a
\* text of the program at which its own reading or its own checks panic: a
\* signature, or the body of a function, anonymous ones at any depth included.
Crashing ==
  \E m \in Mods : \E i \in DOMAIN DeclsOf(m) :
    LET d == DeclsOf(m)[i] IN
    \/ d.kind \in TypeKinds \cup FnKinds /\ d.text.form = "panic"
    \/ /\ d.kind = "fn"
       /\ \E p \in DOMAIN Nested[d.text] :
            Nested[d.text][p].form = "panic" \/ Nested[d.text][p].body = "panic"
PanicsExplained ==
  /\ outcome = "panic" => Clashes(program)
  /\ outcome = "crash" => Crashing

\* When the use declarations have been followed, the scope of a module holds
\* what the text makes visible there, and each name the right declaration:
\* what a used module uses itself is not passed on.
IdOf(p, m, part) ==
  IF Len(p) = 1 THEN Internal(m)[part][p]
  ELSE LET d == CHOOSE e \in Mods : program[e].name = p[1] IN Internal(d)[part][Tail(p)]
ScopesVisible ==
  pass \notin {"raw", "usings"} /\ ~Clashes(program) =>
    \A m \in Mods :
      /\ DOMAIN scopes[m].types = VisibleTypes(m) /\ DOMAIN scopes[m].fns = VisibleFns(m)
      /\ \A part \in {"types", "fns"} :
           \A p \in DOMAIN scopes[m][part] : scopes[m][part][p] = IdOf(p, m, part)

\* An accepted program has all its functions analysed: the declared ones, and
\* of the text of each, every anonymous function at any depth, once for each
\* place it has there; these are owned by the module of that text.
EveryFunctionOnce ==
  outcome = "ok" =>
    \A m \in Mods : \A n \in DOMAIN raw[m].fns :
      LET d == raw[m].fns[n]
          tree == Nested[d.text]
          places == IF d.builtin THEN {<<>>} ELSE DOMAIN tree
          mine == {f \in DOMAIN parents : parents[f] = d.id}
      IN  /\ {d.id} \cup mine \subseteq DOMAIN finished
          /\ finished[d.id] = d.text
          /\ \A f \in mine : {k \in Mods : <<f, k>> \in owners} = {m}
          /\ \A t \in Texts : Cardinality({f \in {d.id} \cup mine : finished[f] = t})
                                = Cardinality({p \in places : tree[p] = t})

=============================================================================
