--------------------------- MODULE ModResolverProofs ---------------------------
(***************************************************************************)
(* Proofs about module resolution, for any program.  The passes and the    *)
(* rounds over anonymous functions analyse every function once.  They      *)
(* panic only on modules that share a name and on use declarations that    *)
(* are repeated: what the passes expect of the tables of the universe and  *)
(* of the storages of anonymous functions, earlier passes have left there. *)
(* They accept the programs they should and no other, to any depth of the  *)
(* text, and make the scopes the text has.                                 *)
(***************************************************************************)
EXTENDS ModResolver, Acceptance, SequenceTheorems, FiniteSetTheorems, WellFoundedInduction, TLAPS

Fn(x) == raw[x[1]].fns[x[2]]
Anons(x) == fnMap[Fn(x).id].anons
None(f) == DOMAIN f = {}

\* The functions that are declared have an id each, handed out already.
RawOK ==
  /\ program \in Programs /\ nextId \in Nat
  /\ raw = [m \in Mods |-> raw[m]]
  /\ \A m \in Mods :
       raw[m] = [types |-> raw[m].types, fns |-> raw[m].fns, uses |-> raw[m].uses]
  /\ \A x \in Items("fns") :
       /\ Fn(x).id \in Nat /\ Fn(x).id < nextId
       /\ Fn(x).text \in Texts
  /\ \A x, y \in Items("fns") : Fn(x).id = Fn(y).id => x = y

\* So have the anonymous functions, and none that a declared function has.
AnonsOK ==
  /\ \A a \in DOMAIN parents : a \in Nat /\ a < nextId /\ a \notin Declared
  /\ \A a \in DOMAIN buffer : buffer[a] \in Texts
  /\ \A a \in DOMAIN anonFns : anonFns[a] \in Texts

\* Nothing is known of anonymous functions before the functions are generated.
Reserving ==
  pass \in {"raw", "usings", "types"} =>
    None(fnMap) /\ None(parents) /\ None(finished) /\ None(unresolved) /\ None(resolving)

\* Each anonymous function belongs to a function that has been generated.
Generating ==
  pass = "fns" =>
    /\ todo \subseteq Items("fns")
    /\ None(finished) /\ None(unresolved) /\ None(resolving)
    /\ \A x \in Items("fns") \ todo : Fn(x).id \in DOMAIN fnMap /\ Anons(x) \subseteq DOMAIN parents
    /\ \A a \in DOMAIN parents : \E x \in Items("fns") \ todo : ~Fn(x).builtin /\ a \in Anons(x)

\* Each is waiting for its round, or belongs to a function still to be analysed.
Analyzing ==
  pass = "analyze" =>
    /\ todo \subseteq Items("fns")
    /\ None(resolving)
    /\ DOMAIN finished = {Fn(x).id : x \in Items("fns") \ todo}
    /\ DOMAIN unresolved \subseteq DOMAIN parents
    /\ \A x \in todo : Fn(x).id \in DOMAIN fnMap /\ Anons(x) \subseteq DOMAIN parents
    /\ \A a \in DOMAIN parents :
         a \in DOMAIN unresolved \/ \E x \in todo : ~Fn(x).builtin /\ a \in Anons(x)

\* Each is analysed, in the round, or waiting for the next.
Resolving ==
  pass = "anonymous" =>
    /\ DOMAIN unresolved \subseteq DOMAIN parents /\ DOMAIN resolving \subseteq DOMAIN parents
    /\ DOMAIN unresolved \cap DOMAIN resolving = {}
    /\ DOMAIN finished \cup DOMAIN unresolved \cup DOMAIN resolving = Declared \cup DOMAIN parents
    /\ DOMAIN finished \cap (DOMAIN unresolved \cup DOMAIN resolving) = {}

IInv ==
  /\ pass \in {"raw", "usings", "types", "fns", "analyze", "anonymous"}
  /\ RawOK /\ AnonsOK
  /\ Reserving /\ Generating /\ Analyzing /\ Resolving

-----------------------------------------------------------------------------
(* The maps.                                                               *)

\* What the operations on maps leave in them.
LEMMA Maps ==
  ASSUME NEW f, NEW g, NEW k, NEW v, NEW S
  PROVE  /\ DOMAIN Put(f, k, v) = DOMAIN f \cup {k}
         /\ Put(f, k, v)[k] = v
         /\ \A x \in DOMAIN f : x # k => Put(f, k, v)[x] = f[x]
         /\ DOMAIN Append2(f, g) = DOMAIN f \cup DOMAIN g
         /\ \A x \in DOMAIN g : Append2(f, g)[x] = g[x]
         /\ \A x \in DOMAIN f \ DOMAIN g : Append2(f, g)[x] = f[x]
         /\ DOMAIN Without(f, k) = DOMAIN f \ {k}
         /\ \A x \in DOMAIN f \ {k} : Without(f, k)[x] = f[x]
         /\ DOMAIN ToAll(S, v) = S
         /\ DOMAIN Empty = {}
  BY DEF Put, Append2, Without, ToAll, Empty

LEMMA ElementOf ==
  ASSUME NEW S, NEW s \in Seq(S), NEW i \in DOMAIN s
  PROVE  s[i] \in S
  OBVIOUS

\* The anonymous functions of a text get the ids from the first on.
LEMMA GeneratedIds ==
  ASSUME NEW t \in Texts, NEW first \in Nat
  PROVE  /\ Len(t.anons) \in Nat
         /\ DOMAIN Generated(t, first) = first .. first + Len(t.anons) - 1
         /\ \A a \in DOMAIN Generated(t, first) :
              a \in Nat /\ first <= a /\ a < first + Len(t.anons) /\ Generated(t, first)[a] \in Texts
<1>1. t.anons \in Seq(Texts)
  BY TextsAssumption DEF IsText
<1>2. \A a \in first .. first + Len(t.anons) - 1 : a - first + 1 \in DOMAIN t.anons
  BY <1>1
<1> QED BY <1>1, <1>2 DEF Generated

\* The declared functions, by their place in the program.
LEMMA Placed ==
  /\ \A x : x \in Items("fns") <=> \E m \in Mods : \E n \in DOMAIN raw[m].fns : x = <<m, n>>
  /\ \A i : i \in Declared <=> \E x \in Items("fns") : i = Fn(x).id
<1>1. \A x : x \in Items("fns") <=> \E m \in Mods : \E n \in DOMAIN raw[m].fns : x = <<m, n>>
  BY DEF Items
<1>2. \A i : i \in Declared <=> \E m \in Mods : \E n \in DOMAIN raw[m].fns : i = raw[m].fns[n].id
  BY DEF Declared
<1>3. \A m, n : Fn(<<m, n>>) = raw[m].fns[n]
  BY DEF Fn
<1>4. ASSUME NEW i \in Declared PROVE \E x \in Items("fns") : i = Fn(x).id
  <2>1. PICK m \in Mods : \E n \in DOMAIN raw[m].fns : i = raw[m].fns[n].id
    BY <1>2
  <2>2. PICK n \in DOMAIN raw[m].fns : i = raw[m].fns[n].id
    BY <2>1
  <2>3. <<m, n>> \in Items("fns") /\ i = Fn(<<m, n>>).id
    BY <1>1, <1>3, <2>2
  <2> QED BY <2>3
<1>5. ASSUME NEW x \in Items("fns") PROVE Fn(x).id \in Declared
  <2>1. PICK m \in Mods : \E n \in DOMAIN raw[m].fns : x = <<m, n>>
    BY <1>1
  <2>2. PICK n \in DOMAIN raw[m].fns : x = <<m, n>>
    BY <2>1
  <2> QED BY <1>2, <1>3, <2>2
<1> QED BY <1>1, <1>4, <1>5

\* Past the first pass the declared functions stay as they are.
LEMMA Unmoved ==
  ASSUME raw' = raw, program' = program
  PROVE  /\ Items("fns")' = Items("fns") /\ Declared' = Declared
         /\ \A x : Fn(x)' = Fn(x)
  BY DEF Items, Declared, Fn, Mods

-----------------------------------------------------------------------------
(* The invariant, pass by pass.                                            *)

\* An error or a panic leaves everything but the outcome.
LEMMA EndWorks ==
  ASSUME IInv, NEW how, End(how)
  PROVE  IInv' /\ outcome' = how
<1>1. /\ UNCHANGED <<program, at, raw, pass, nextId, todo, fnMap, buffer, anonFns>>
      /\ UNCHANGED <<parents, unresolved, resolving, finished>>
  BY DEF End, declared, ready, universe, worklist
<1>2. RawOK' /\ AnonsOK' /\ Reserving'
  BY <1>1, Unmoved DEF IInv, RawOK, AnonsOK, Reserving, None, Mods
<1>3. Generating'
  BY <1>1, Unmoved DEF IInv, Generating, Anons, None
<1>4. Analyzing'
  BY <1>1, Unmoved DEF IInv, Analyzing, Anons, None
<1>5. Resolving'
  BY <1>1, Unmoved DEF IInv, Resolving
<1> QED BY <1>1, <1>2, <1>3, <1>4, <1>5 DEF IInv, End

\* The declarations of a module are a sequence.
LEMMA DeclsAre ==
  ASSUME RawOK, NEW m \in Mods
  PROVE  program[m].decls \in Seq([kind : Kinds, name : Names, text : Texts])
<1>1. program \in Seq([name : Names \cup {NoName},
                       decls : Seq([kind : Kinds, name : Names, text : Texts])])
  BY ProgramsAssumption DEF RawOK, IsProgram
<1>2. program[m] \in [name : Names \cup {NoName},
                      decls : Seq([kind : Kinds, name : Names, text : Texts])]
  BY <1>1, ElementOf DEF Mods
<1> QED BY <1>2

\* Each declaration that is read is a text of the program's.
LEMMA DeclRead ==
  ASSUME RawOK, NEW kinds, Reads(kinds)
  PROVE  /\ at[1] \in Mods /\ pass = "raw" /\ outcome = "running"
         /\ Decl.text \in Texts /\ Decl.name \in Names /\ Decl.kind \in kinds
         /\ at[2] \in DOMAIN program[at[1]].decls /\ Decl = program[at[1]].decls[at[2]]
<1>1. at[1] \in Mods /\ at[2] \in DOMAIN program[at[1]].decls /\ Decl = program[at[1]].decls[at[2]]
  BY DEF Reads, Reading, Source, Decl
<1>2. Decl \in [kind : Kinds, name : Names, text : Texts]
  BY <1>1, DeclsAre, ElementOf
<1> QED BY <1>1, <1>2 DEF Reads, Reading

\* A function that is read is placed beside those read before.
LEMMA FnPlaced ==
  ASSUME RawOK, NEW m \in Mods, Mods' = Mods, NEW n, n \notin DOMAIN raw[m].fns, NEW d,
         \A k \in Mods : k # m => raw'[k] = raw[k],
         raw'[m] = [types |-> raw[m].types, fns |-> Put(raw[m].fns, n, d), uses |-> raw[m].uses]
  PROVE  /\ \A x : x \in Items("fns")' <=> x \in Items("fns") \/ x = <<m, n>>
         /\ <<m, n>> \notin Items("fns")
         /\ Fn(<<m, n>>)' = d
         /\ \A x \in Items("fns") : Fn(x)' = Fn(x)
<1> DEFINE y == <<m, n>>
<1>1. /\ raw'[m].fns = Put(raw[m].fns, n, d)
      /\ \A k \in Mods : k # m => raw'[k].fns = raw[k].fns
  OBVIOUS
<1>2. /\ DOMAIN raw'[m].fns = DOMAIN raw[m].fns \cup {n}
      /\ raw'[m].fns[n] = d
      /\ \A k \in DOMAIN raw[m].fns : raw'[m].fns[k] = raw[m].fns[k]
  BY <1>1, Maps DEF Put
<1>3. /\ \A x : x \in Items("fns") <=> \E k \in Mods : \E j \in DOMAIN raw[k].fns : x = <<k, j>>
      /\ \A x : x \in Items("fns")' <=> \E k \in Mods : \E j \in DOMAIN raw'[k].fns : x = <<k, j>>
  BY Placed DEF Items
<1>4. y \notin Items("fns")
  BY <1>3
<1>5. ASSUME NEW x \in Items("fns") PROVE x \in Items("fns")' /\ Fn(x)' = Fn(x)
  <2>1. PICK k \in Mods : \E j \in DOMAIN raw[k].fns : x = <<k, j>>
    BY <1>3
  <2>2. PICK j \in DOMAIN raw[k].fns : x = <<k, j>>
    BY <2>1
  <2>3. j \in DOMAIN raw'[k].fns /\ raw'[k].fns[j] = raw[k].fns[j]
    BY <1>1, <1>2, <2>2
  <2> QED BY <1>3, <2>2, <2>3 DEF Fn
<1>6. ASSUME NEW x \in Items("fns")' PROVE x \in Items("fns") \/ x = y
  <2>1. PICK k \in Mods : \E j \in DOMAIN raw'[k].fns : x = <<k, j>>
    BY <1>3
  <2>2. PICK j \in DOMAIN raw'[k].fns : x = <<k, j>>
    BY <2>1
  <2> QED BY <1>1, <1>2, <1>3, <2>2
<1>7. y \in Items("fns")' /\ Fn(y)' = d
  BY <1>2, <1>3 DEF Fn
<1> QED BY <1>4, <1>5, <1>6, <1>7

\* A function that is read takes the next id; those read before keep theirs.
LEMMA FnRead ==
  ASSUME IInv, Reads({"fn", "builtin"}),
         NEW m, m = at[1], NEW n, n \notin DOMAIN raw[m].fns,
         NEW d, d.id = nextId, d.text \in Texts,
         Reserve([raw[m] EXCEPT !.fns = Put(@, n, d)], 2)
  PROVE  IInv' /\ Declared \subseteq Declared' /\ Mods' = Mods
<1> DEFINE y == <<m, n>>
<1>1. /\ m \in Mods /\ pass = "raw" /\ nextId' = nextId + 2
      /\ UNCHANGED <<program, pass, outcome, fnMap, buffer, anonFns>>
      /\ UNCHANGED <<parents, unresolved, resolving, finished>>
  BY DeclRead DEF IInv, Reserve, ready, universe, worklist
<1>2. /\ DOMAIN raw' = Mods /\ Mods' = Mods
      /\ \A k \in Mods : k # m => raw'[k] = raw[k]
      /\ raw' = [k \in Mods |-> raw'[k]]
      /\ raw'[m] = [types |-> raw[m].types, fns |-> Put(raw[m].fns, n, d), uses |-> raw[m].uses]
  BY <1>1 DEF Reserve, IInv, RawOK, Mods
<1>3. /\ \A x : x \in Items("fns")' <=> x \in Items("fns") \/ x = y
      /\ y \notin Items("fns")
      /\ Fn(y)' = d
      /\ \A x \in Items("fns") : Fn(x)' = Fn(x)
  <2>1. RawOK
    BY DEF IInv
  <2>2. m \in Mods /\ Mods' = Mods
    BY <1>1, <1>2
  <2>3. /\ \A k \in Mods : k # m => raw'[k] = raw[k]
        /\ raw'[m] = [types |-> raw[m].types, fns |-> Put(raw[m].fns, n, d), uses |-> raw[m].uses]
    BY <1>2
  <2> QED BY <2>1, <2>2, <2>3, FnPlaced, Zenon
<1>4. RawOK'
  <2>1. nextId \in Nat /\ nextId' = nextId + 2
    BY <1>1 DEF IInv, RawOK
  <2>2. ASSUME NEW x \in Items("fns")'
        PROVE  Fn(x)'.id \in Nat /\ Fn(x)'.id < nextId' /\ Fn(x)'.text \in Texts
    BY <1>3, <2>1, <2>2 DEF IInv, RawOK
  <2>3. ASSUME NEW x \in Items("fns")', NEW z \in Items("fns")', Fn(x)'.id = Fn(z)'.id PROVE x = z
    <3>1. \A k \in Items("fns") : Fn(k).id \in Nat /\ Fn(k).id < nextId
      BY DEF IInv, RawOK
    <3>2. \A k \in Items("fns") : Fn(k)'.id # Fn(y)'.id
      BY <1>3, <2>1, <3>1
    <3> QED BY <1>3, <2>3, <3>2 DEF IInv, RawOK
  <2>4. \A k \in Mods : raw'[k] = [types |-> raw'[k].types, fns |-> raw'[k].fns, uses |-> raw'[k].uses]
    BY <1>2 DEF IInv, RawOK
  <2> QED BY <1>1, <1>2, <2>1, <2>2, <2>3, <2>4 DEF IInv, RawOK
<1>5. AnonsOK' /\ Reserving'
  BY <1>1 DEF IInv, AnonsOK, Reserving, None
<1>6. Declared \subseteq Declared'
  <2>1. ASSUME NEW i \in Declared PROVE i \in Declared'
    <3>1. PICK x \in Items("fns") : i = Fn(x).id
      BY Placed
    <3>2. x \in Items("fns")' /\ i = Fn(x)'.id
      BY <1>3, <3>1
    <3>3. PICK k \in Mods' : \E j \in DOMAIN raw'[k].fns : x = <<k, j>>
      BY <3>2 DEF Items
    <3>4. PICK j \in DOMAIN raw'[k].fns : x = <<k, j>>
      BY <3>3
    <3>5. i = raw'[k].fns[j].id
      BY <3>2, <3>4 DEF Fn
    <3>6. i \in {raw'[k].fns[z].id : z \in DOMAIN raw'[k].fns}
      BY <3>4, <3>5
    <3> QED BY <3>3, <3>6, SMTT(60) DEF Declared
  <2> QED BY <2>1
<1>7. Generating' /\ Analyzing' /\ Resolving'
  BY <1>1 DEF Generating, Analyzing, Resolving
<1> QED BY <1>1, <1>2, <1>4, <1>5, <1>6, <1>7 DEF IInv

\* Reading a type or a use declaration leaves the functions as they are.
LEMMA OtherRead ==
  ASSUME IInv, NEW kinds, Reads(kinds), NEW m, m = at[1], NEW ids \in Nat,
         NEW r, r = [types |-> r.types, fns |-> raw[m].fns, uses |-> r.uses],
         Reserve(r, ids)
  PROVE  IInv' /\ Declared' = Declared
<1>1. /\ m \in Mods /\ pass = "raw" /\ nextId' = nextId + ids
      /\ UNCHANGED <<program, pass, outcome, fnMap, buffer, anonFns>>
      /\ UNCHANGED <<parents, unresolved, resolving, finished>>
  BY DeclRead DEF IInv, Reserve, ready, universe, worklist
<1>2. /\ Mods' = Mods /\ raw' = [k \in Mods |-> raw'[k]]
      /\ \A k \in Mods : k # m => raw'[k] = raw[k]
      /\ raw'[m] = r
  BY <1>1 DEF Reserve, IInv, RawOK, Mods
<1>3. \A k \in Mods : raw'[k].fns = raw[k].fns
  BY <1>2
<1>4. Items("fns")' = Items("fns") /\ Declared' = Declared
  BY <1>2, <1>3 DEF Items, Declared
<1>5. ASSUME NEW x \in Items("fns") PROVE Fn(x)' = Fn(x)
  <2>1. PICK k \in Mods : \E j \in DOMAIN raw[k].fns : x = <<k, j>>
    BY Placed
  <2> QED BY <1>3, <2>1 DEF Fn
<1>6. RawOK'
  <2>1. \A k \in Mods : raw'[k] = [types |-> raw'[k].types, fns |-> raw'[k].fns, uses |-> raw'[k].uses]
    BY <1>2 DEF IInv, RawOK
  <2>2. \A x \in Items("fns") : Fn(x)'.id \in Nat /\ Fn(x)'.id < nextId' /\ Fn(x)'.text \in Texts
    BY <1>1, <1>5 DEF IInv, RawOK
  <2>3. \A x, z \in Items("fns") : Fn(x)'.id = Fn(z)'.id => x = z
    BY <1>5 DEF IInv, RawOK
  <2> QED BY <1>1, <1>2, <1>4, <2>1, <2>2, <2>3 DEF IInv, RawOK
<1>7. AnonsOK' /\ Reserving'
  BY <1>1, <1>4 DEF IInv, AnonsOK, Reserving, None
<1>8. Generating' /\ Analyzing' /\ Resolving'
  BY <1>1 DEF Generating, Analyzing, Resolving
<1> QED BY <1>1, <1>4, <1>6, <1>7, <1>8 DEF IInv

\* Nor is any function generated by the passes over names and types.
LEMMA EarlyPasses ==
  ASSUME IInv, pass \in {"raw", "usings", "types"},
         pass' \in {"raw", "usings", "types"} \/ (pass' = "fns" /\ todo' = Items("fns")),
         UNCHANGED <<program, raw, nextId, fnMap, buffer, anonFns>>,
         UNCHANGED <<parents, unresolved, resolving, finished>>
  PROVE  IInv' /\ Declared' = Declared
<1>1. RawOK' /\ AnonsOK' /\ Reserving' /\ Declared' = Declared
  BY Unmoved DEF IInv, RawOK, AnonsOK, Reserving, None, Mods
<1>2. Generating'
  BY Unmoved DEF IInv, Generating, Reserving, None
<1>3. Analyzing' /\ Resolving'
  BY DEF Analyzing, Resolving
<1> QED BY <1>1, <1>2, <1>3 DEF IInv

\* A function that is generated brings its anonymous functions, with new ids.
LEMMA GenerateFnWorks ==
  ASSUME IInv, NEW x \in todo, pass = "fns", pass' = "fns", todo' = todo \ {x},
         NEW anons, \A a \in anons : a \in Nat /\ nextId <= a /\ a < nextId',
         NEW fn, fn.anons = anons, Fn(x).builtin => anons = {},
         nextId' \in Nat, nextId <= nextId',
         UNCHANGED <<program, raw, anonFns, unresolved, resolving, finished>>,
         DOMAIN parents' = DOMAIN parents \cup anons,
         \A a \in DOMAIN buffer' : buffer'[a] \in Texts,
         fnMap' = Put(fnMap, Fn(x).id, fn)
  PROVE  IInv' /\ Declared' = Declared
<1>1. x \in Items("fns") /\ todo \subseteq Items("fns")
  BY DEF IInv, Generating
<1>2. /\ Items("fns")' = Items("fns") /\ Declared' = Declared
      /\ \A y : Fn(y)' = Fn(y)
  BY Unmoved
<1>3. RawOK'
  BY <1>2 DEF IInv, RawOK, Mods
<1>4. AnonsOK'
  <2>1. \A a \in Declared : a \in Nat /\ a < nextId
    BY Placed DEF IInv, RawOK
  <2>2. \A a \in DOMAIN parents' : a \in Nat /\ a < nextId' /\ a \notin Declared'
    BY <1>2, <2>1 DEF IInv, AnonsOK, RawOK
  <2> QED BY <2>2 DEF IInv, AnonsOK
<1>5. Generating'
  <2>1. DOMAIN fnMap' = DOMAIN fnMap \cup {Fn(x).id} /\ fnMap'[Fn(x).id] = fn
    BY DEF Put
  <2>2. \A y \in Items("fns") : y # x => Fn(y).id # Fn(x).id
    BY <1>1 DEF IInv, RawOK
  <2>3. \A y \in Items("fns") \ todo : Fn(y).id \in DOMAIN fnMap /\ fnMap'[Fn(y).id] = fnMap[Fn(y).id]
    BY <2>2 DEF IInv, Generating, Put
  <2>4. Anons(x)' = anons /\ \A y \in Items("fns") \ todo : Anons(y)' = Anons(y)
    BY <1>2, <2>1, <2>3 DEF Anons
  <2>5. \A y \in Items("fns") \ todo' : y = x \/ y \in Items("fns") \ todo
    OBVIOUS
  <2>6. \A y \in Items("fns") \ todo' : Fn(y)'.id \in DOMAIN fnMap' /\ Anons(y)' \subseteq DOMAIN parents'
    BY <1>2, <2>1, <2>3, <2>4, <2>5 DEF IInv, Generating
  <2>7. \A a \in DOMAIN parents' : \E y \in Items("fns") \ todo' : ~Fn(y)'.builtin /\ a \in Anons(y)'
    <3>1. ASSUME NEW a \in anons PROVE x \in Items("fns") \ todo' /\ ~Fn(x)'.builtin /\ a \in Anons(x)'
      BY <1>1, <1>2, <2>4
    <3>2. ASSUME NEW a \in DOMAIN parents
          PROVE  \E y \in Items("fns") \ todo' : ~Fn(y)'.builtin /\ a \in Anons(y)'
      <4>1. PICK y \in Items("fns") \ todo : ~Fn(y).builtin /\ a \in Anons(y)
        BY DEF IInv, Generating
      <4> QED BY <1>2, <2>4, <4>1
    <3> QED BY <3>1, <3>2
  <2> QED BY <1>1, <1>2, <2>6, <2>7 DEF IInv, Generating, None
<1>6. Reserving' /\ Analyzing' /\ Resolving'
  BY DEF Reserving, Analyzing, Resolving
<1> QED BY <1>2, <1>3, <1>4, <1>5, <1>6 DEF IInv


\* The analysis starts when every function has been generated.
LEMMA EnterAnalysisWorks ==
  ASSUME IInv, pass = "fns", todo = {}, pass' = "analyze", todo' = Items("fns"),
         UNCHANGED <<program, raw, nextId, fnMap>>,
         anonFns' = buffer, buffer' = Empty,
         UNCHANGED <<parents, unresolved, resolving, finished>>
  PROVE  IInv' /\ Declared' = Declared
<1>1. RawOK' /\ AnonsOK' /\ Reserving' /\ Declared' = Declared
  BY Unmoved DEF IInv, RawOK, AnonsOK, Reserving, Mods, Empty
<1>2. Generating' /\ Resolving'
  BY DEF Generating, Resolving
<1>3. Analyzing'
  <2>1. \A y \in Items("fns") : Anons(y)' = Anons(y)
    BY Unmoved DEF Anons
  <2>2. \A i : i \notin DOMAIN finished'
    BY DEF IInv, Generating, None
  <2>3. DOMAIN finished' = {Fn(y).id : y \in Items("fns") \ todo}'
    BY <2>2, Unmoved
  <2> QED BY <2>1, <2>3, Unmoved DEF IInv, Generating, Analyzing, None
<1> QED BY <1>1, <1>2, <1>3 DEF IInv

\* A function that is analysed leaves its anonymous functions for the rounds.
LEMMA AnalyzeWorks ==
  ASSUME IInv, pass = "analyze", pass' = "analyze", NEW x \in todo, todo' = todo \ {x},
         UNCHANGED <<program, raw, nextId, buffer, anonFns, parents, resolving>>,
         DOMAIN finished' = DOMAIN finished \cup {Fn(x).id},
         NEW new, new \subseteq DOMAIN parents, ~Fn(x).builtin => new = Anons(x),
         DOMAIN unresolved' = DOMAIN unresolved \cup new,
         \A y \in todo : y # x => /\ Fn(y).id \in DOMAIN fnMap'
                                  /\ fnMap'[Fn(y).id] = fnMap[Fn(y).id]
  PROVE  /\ IInv' /\ Declared' = Declared
         /\ Fn(x).id \in Declared \ DOMAIN finished
<1>1. x \in Items("fns") /\ todo \subseteq Items("fns")
  BY DEF IInv, Analyzing
<1>2. Fn(x).id \in Declared \ DOMAIN finished
  BY <1>1, Placed DEF IInv, Analyzing, RawOK
<1>3. RawOK' /\ AnonsOK' /\ Reserving' /\ Declared' = Declared
  BY Unmoved DEF IInv, RawOK, AnonsOK, Reserving, Mods
<1>4. Generating' /\ Resolving'
  BY DEF Generating, Resolving
<1>5. Analyzing'
  <2>1. \A y \in todo' : y \in todo /\ y # x /\ Anons(y)' = Anons(y)
    BY Unmoved DEF Anons
  <2>2. DOMAIN finished' = {Fn(y).id : y \in Items("fns") \ todo}'
    <3>1. \A y : y \in Items("fns") \ todo' <=> y \in Items("fns") \ todo \/ y = x
      BY <1>1
    <3>2. DOMAIN finished' = {Fn(y).id : y \in Items("fns") \ todo'}
      BY <3>1 DEF IInv, Analyzing
    <3> QED BY <3>2, Unmoved
  <2>3. \A y \in todo' : Fn(y)'.id \in DOMAIN fnMap' /\ Anons(y)' \subseteq DOMAIN parents'
    BY <2>1, Unmoved DEF IInv, Analyzing
  <2>4. ASSUME NEW a \in DOMAIN parents, a \notin DOMAIN unresolved'
        PROVE  \E y \in todo' : ~Fn(y)'.builtin /\ a \in Anons(y)'
    <3>1. PICK y \in todo : ~Fn(y).builtin /\ a \in Anons(y)
      BY <2>4 DEF IInv, Analyzing
    <3>2. y # x
      BY <2>4, <3>1
    <3> QED BY <2>1, <3>1, <3>2, Unmoved
  <2> QED BY <1>1, <2>2, <2>3, <2>4, Unmoved DEF IInv, Analyzing, None
<1> QED BY <1>2, <1>3, <1>4, <1>5 DEF IInv

\* When the declared functions are analysed, the others wait for a round.
LEMMA EnterAnonymousWorks ==
  ASSUME IInv, pass = "analyze", todo = {}, pass' = "anonymous", todo' = {},
         UNCHANGED <<program, raw, nextId, fnMap, buffer, anonFns>>,
         UNCHANGED <<parents, unresolved, resolving, finished>>
  PROVE  IInv' /\ Declared' = Declared
<1>1. RawOK' /\ AnonsOK' /\ Reserving' /\ Declared' = Declared
  BY Unmoved DEF IInv, RawOK, AnonsOK, Reserving, Mods
<1>2. Generating' /\ Analyzing'
  BY DEF Generating, Analyzing
<1>3. \A i : i \in DOMAIN finished <=> i \in Declared
  BY Placed DEF IInv, Analyzing
<1>4. Resolving'
  BY <1>1, <1>3 DEF IInv, AnonsOK, Analyzing, Resolving, None
<1> QED BY <1>1, <1>2, <1>4 DEF IInv

\* A round takes those that wait.
LEMMA StartRoundWorks ==
  ASSUME IInv, StartRound
  PROVE  IInv' /\ Declared' = Declared /\ UNCHANGED <<outcome, finished, parents>>
<1>1. /\ resolving' = unresolved /\ unresolved' = Empty
      /\ pass = "anonymous" /\ DOMAIN resolving = {}
      /\ UNCHANGED <<program, raw, nextId, pass, outcome, fnMap, buffer, anonFns, parents, finished>>
  BY DEF StartRound, RoundOver, declared, universe, ready
<1>2. RawOK' /\ AnonsOK' /\ Reserving' /\ Declared' = Declared
  BY <1>1, Unmoved DEF IInv, RawOK, AnonsOK, Reserving, Mods
<1>3. Generating' /\ Analyzing'
  BY <1>1 DEF Generating, Analyzing
<1>4. Resolving'
  BY <1>1, <1>2, Maps DEF IInv, Resolving
<1> QED BY <1>1, <1>2, <1>3, <1>4 DEF IInv

\* An anonymous function that is analysed leaves those in its own body.
LEMMA ResolveWorks ==
  ASSUME IInv, pass = "anonymous", pass' = "anonymous", NEW f \in DOMAIN resolving,
         NEW nested, \A a \in nested : a \in Nat /\ nextId <= a /\ a < nextId',
         NEW texts, DOMAIN texts = nested, \A a \in nested : texts[a] \in Texts,
         nextId' \in Nat, nextId <= nextId',
         UNCHANGED <<program, raw, fnMap, buffer>>,
         DOMAIN parents' = DOMAIN parents \cup nested,
         anonFns' = Append2(anonFns, texts),
         DOMAIN unresolved' = DOMAIN unresolved \cup nested,
         DOMAIN resolving' = DOMAIN resolving \ {f},
         DOMAIN finished' = DOMAIN finished \cup {f}
  PROVE  /\ IInv' /\ Declared' = Declared
         /\ f \in DOMAIN parents \ DOMAIN finished
<1>1. f \in DOMAIN parents \ DOMAIN finished
  BY DEF IInv, Resolving
<1>2. \A a \in Declared : a \in Nat /\ a < nextId
  BY Placed DEF IInv, RawOK
<1>3. RawOK' /\ Declared' = Declared
  BY Unmoved DEF IInv, RawOK, Mods
<1>4. AnonsOK'
  <2>1. \A a \in DOMAIN parents' : a \in Nat /\ a < nextId' /\ a \notin Declared'
    BY <1>2, <1>3 DEF IInv, AnonsOK, RawOK
  <2>2. \A a \in DOMAIN anonFns' : anonFns'[a] \in Texts
    BY DEF IInv, AnonsOK, Append2
  <2> QED BY <2>1, <2>2 DEF IInv, AnonsOK
<1>5. Reserving' /\ Generating' /\ Analyzing'
  BY DEF Reserving, Generating, Analyzing
<1>6. Resolving'
  <2>1. \A a \in Declared \cup DOMAIN parents : a \in Nat /\ a < nextId
    BY <1>2 DEF IInv, AnonsOK
  <2>2. nextId \in Nat
    BY DEF IInv, RawOK
  <2>3. \A a \in nested : a \notin Declared \cup DOMAIN parents
    BY <2>1, <2>2
  <2> QED BY <1>3, <2>3 DEF IInv, Resolving
<1> QED BY <1>1, <1>3, <1>4, <1>5, <1>6 DEF IInv


-----------------------------------------------------------------------------
(* The steps of the worklist.                                              *)

\* The functions known, and those analysed: what a step of the resolver that
\* analyses none is to the worklist, and what one that analyses f is.
Known == Declared \cup DOMAIN parents

LEMMA Discovers ==
  ASSUME outcome # "ok", outcome' # "ok", Known \subseteq Known', DOMAIN finished' = DOMAIN finished
  PROVE  W!Next
<1>1. (outcome = "ok") = FALSE /\ (outcome = "ok")' = FALSE
  OBVIOUS
<1> QED BY <1>1 DEF W!Next, W!Discover, Known

LEMMA Analyses ==
  ASSUME outcome # "ok", outcome' # "ok", Known \subseteq Known',
         NEW f \in Known \ DOMAIN finished, DOMAIN finished' = DOMAIN finished \cup {f}
  PROVE  W!Next
<1>1. (outcome = "ok") = FALSE /\ (outcome = "ok")' = FALSE
  OBVIOUS
<1> QED BY <1>1 DEF W!Next, W!Analyse, Known

LEMMA Accepts ==
  ASSUME outcome # "ok", outcome' = "ok", Known' = Known, DOMAIN finished = Known,
         DOMAIN finished' = DOMAIN finished
  PROVE  W!Next
<1>1. (outcome = "ok") = FALSE /\ (outcome = "ok")' = TRUE
  OBVIOUS
<1> QED BY <1>1 DEF W!Next, W!Accept, Known

\* An error or a panic is no step of the worklist.
LEMMA EndStep ==
  ASSUME IInv, outcome = "running", NEW how, how # "ok", End(how)
  PROVE  IInv' /\ W!Next
<1>1. IInv' /\ outcome' = how
  BY EndWorks
<1>2. UNCHANGED <<program, raw, parents, finished>>
  BY DEF End, declared, worklist
<1>3. Known' = Known
  BY <1>2, Unmoved DEF Known
<1> QED BY <1>1, <1>2, <1>3, Discovers


-----------------------------------------------------------------------------
(* Each action.                                                            *)

LEMMA ReadStep ==
  ASSUME IInv, ReadType \/ ReadFn \/ ReadUse \/ ReadEnd
  PROVE  IInv' /\ W!Next
<1>1. CASE ReadFn
  <2>1. Reads({"fn", "builtin"}) /\ outcome = "running"
    BY <1>1 DEF ReadFn, Reads, Reading
  <2>2. CASE End("DuplicateFns")
    BY <2>1, <2>2, EndStep
  <2>3. CASE ~End("DuplicateFns")
    <3> DEFINE d == [id |-> nextId, type |-> nextId + 1, text |-> Decl.text,
                     builtin |-> Decl.kind = "builtin"]
    <3>1. /\ Decl.name \notin DOMAIN raw[at[1]].fns
          /\ Reserve([raw[at[1]] EXCEPT !.fns = Put(@, Decl.name, d)], 2)
      BY <1>1, <2>3 DEF ReadFn
    <3>2. d.id = nextId /\ d.text = Decl.text /\ Decl.text \in Texts
      BY <2>1, DeclRead DEF IInv
    <3>3. IInv' /\ Declared \subseteq Declared'
      <4> HIDE DEF d
      <4> QED BY <2>1, <3>1, <3>2, FnRead
    <3>4. UNCHANGED <<outcome, parents, finished>>
      BY <3>1 DEF Reserve, worklist
    <3> QED BY <2>1, <3>3, <3>4, Discovers DEF Known
  <2> QED BY <2>2, <2>3
<1>2. CASE ReadType
  <2>1. Reads({"struct", "opaque"}) /\ outcome = "running" /\ at[1] \in Mods
    BY <1>2 DEF ReadType, Reads, Reading
  <2>2. CASE End("DuplicateTypes")
    BY <2>1, <2>2, EndStep
  <2>3. CASE ~End("DuplicateTypes")
    <3> DEFINE r == [raw[at[1]] EXCEPT !.types = Put(@, Decl.name, [id |-> nextId, text |-> Decl.text])]
    <3>1. Reserve(r, 1)
      BY <1>2, <2>3 DEF ReadType
    <3>2. r = [types |-> r.types, fns |-> raw[at[1]].fns, uses |-> r.uses]
      BY <2>1 DEF IInv, RawOK
    <3>3. IInv' /\ Declared' = Declared
      <4> HIDE DEF r
      <4> QED BY <2>1, <3>1, <3>2, OtherRead
    <3>4. UNCHANGED <<outcome, parents, finished>>
      BY <3>1 DEF Reserve, worklist
    <3> QED BY <2>1, <3>3, <3>4, Discovers DEF Known
  <2> QED BY <2>2, <2>3
<1>3. CASE ReadUse
  <2> DEFINE r == [raw[at[1]] EXCEPT !.uses = Append(@, Decl.name)]
  <2>1. Reads({"use"}) /\ outcome = "running" /\ at[1] \in Mods /\ Reserve(r, 0)
    BY <1>3 DEF ReadUse, Reads, Reading
  <2>2. r = [types |-> r.types, fns |-> raw[at[1]].fns, uses |-> r.uses]
    <3>1. \A u : LET s == [raw[at[1]] EXCEPT !.uses = u]
                 IN  s = [types |-> s.types, fns |-> raw[at[1]].fns, uses |-> s.uses]
      BY <2>1 DEF IInv, RawOK
    <3> QED BY <3>1
  <2>3. IInv' /\ Declared' = Declared
    <3> HIDE DEF r
    <3> QED BY <2>1, <2>2, OtherRead
  <2>4. UNCHANGED <<outcome, parents, finished>>
    BY <2>1 DEF Reserve, worklist
  <2> QED BY <2>1, <2>3, <2>4, Discovers DEF Known
<1>4. CASE ReadEnd
  <2>1. outcome = "running" /\ pass = "raw"
    BY <1>4 DEF ReadEnd, Reading
  <2>2. CASE End("MissingModName")
    BY <2>1, <2>2, EndStep
  <2>3. CASE ~End("MissingModName")
    <3>1. /\ UNCHANGED <<program, raw, pass, outcome, nextId, fnMap, buffer, anonFns>>
          /\ UNCHANGED <<parents, unresolved, resolving, finished>>
      BY <1>4, <2>3 DEF ReadEnd, universe, ready, worklist
    <3>2. IInv' /\ Declared' = Declared
      BY <2>1, <3>1, EarlyPasses
    <3> QED BY <2>1, <3>1, <3>2, Discovers DEF Known
  <2> QED BY <1>4, <2>2, <2>3 DEF ReadEnd
<1> QED BY <1>1, <1>2, <1>3, <1>4

LEMMA EarlyStep ==
  ASSUME IInv,
         \/ ScopeInternal \/ EnterTypes \/ EnterFns
         \/ (\E m \in Mods : MapUsings(m)) \/ (\E x \in todo : MapType(x))
  PROVE  IInv' /\ W!Next
<1> DEFINE Early ==
             /\ outcome = "running" /\ pass \in {"raw", "usings", "types"}
             /\ \/ \E how : how # "ok" /\ End(how)
                \/ /\ pass' \in {"raw", "usings", "types"} \/ (pass' = "fns" /\ todo' = Items("fns"))
                   /\ UNCHANGED <<program, raw, outcome, nextId, fnMap, buffer, anonFns>>
                   /\ UNCHANGED <<parents, unresolved, resolving, finished>>
<1>1. Early
  <2> USE DEF declared, universe, ready, worklist, Enter
  <2>1. CASE ScopeInternal
    BY <2>1 DEF ScopeInternal
  <2>2. CASE EnterTypes
    BY <2>2 DEF EnterTypes
  <2>3. CASE EnterFns
    BY <2>3 DEF EnterFns
  <2>4. ASSUME NEW m \in Mods, MapUsings(m) PROVE Early
    BY <2>4 DEF MapUsings
  <2>5. ASSUME NEW x \in todo, MapType(x) PROVE Early
    BY <2>5 DEF MapType, Untypable
  <2> HIDE DEF Early
  <2> QED BY <2>1, <2>2, <2>3, <2>4, <2>5
<1>2. CASE \E how : how # "ok" /\ End(how)
  BY <1>1, <1>2, EndStep
<1>3. CASE ~ \E how : how # "ok" /\ End(how)
  <2>1. IInv' /\ Declared' = Declared
    BY <1>1, <1>3, EarlyPasses
  <2> QED BY <1>1, <1>3, <2>1, Discovers DEF Known
<1> QED BY <1>2, <1>3


LEMMA GenerateStep ==
  ASSUME IInv, NEW x \in todo, GenerateFn(x) \/ GenerateBuiltin(x)
  PROVE  IInv' /\ W!Next
<1>1. /\ outcome = "running" /\ pass = "fns" /\ nextId \in Nat
      /\ x \in Items("fns") /\ Fn(x).text \in Texts /\ Fn(x) = raw[x[1]].fns[x[2]]
  BY DEF GenerateFn, GenerateBuiltin, IInv, RawOK, Generating, Fn
<1>2. CASE \E how : how # "ok" /\ End(how)
  BY <1>1, <1>2, EndStep
<1>3. CASE GenerateBuiltin(x) /\ ~ \E how : how # "ok" /\ End(how)
  <2> DEFINE fn == [text |-> Fn(x).text, mod |-> x[1], anons |-> {}]
  <2>1. /\ Fn(x).builtin /\ pass' = pass /\ todo' = todo \ {x}
        /\ UNCHANGED <<program, raw, outcome, nextId, anonFns, buffer>>
        /\ UNCHANGED <<parents, unresolved, resolving, finished>>
        /\ fnMap' = Put(fnMap, Fn(x).id, fn)
    BY <1>1, <1>3 DEF GenerateBuiltin, Mapped, declared, worklist, Untypable
  <2>2. \A a \in DOMAIN buffer' : buffer'[a] \in Texts
    BY <2>1 DEF IInv, AnonsOK
  <2>3. fn.anons = {}
    OBVIOUS
  <2>4. IInv' /\ Declared' = Declared
    <3> HIDE DEF fn
    <3>1. nextId' \in Nat /\ nextId <= nextId' /\ DOMAIN parents' = DOMAIN parents \cup {}
      BY <1>1, <2>1
    <3> QED BY <1>1, <2>1, <2>2, <2>3, <3>1, GenerateFnWorks
  <2> QED BY <1>1, <2>1, <2>4, Discovers DEF Known
<1>4. CASE GenerateFn(x) /\ ~ \E how : how # "ok" /\ End(how)
  <2> DEFINE texts == Generated(Fn(x).text, nextId)
             anons == DOMAIN texts
             fn == [text |-> Fn(x).text, mod |-> x[1], anons |-> anons]
  <2>1. /\ ~Fn(x).builtin /\ pass' = pass /\ todo' = todo \ {x}
        /\ UNCHANGED <<program, raw, outcome, anonFns, unresolved, resolving, finished>>
        /\ nextId' = nextId + Len(Fn(x).text.anons)
        /\ parents' = Append2(parents, ToAll(anons, Fn(x).id))
        /\ buffer' = Append2(buffer, texts)
        /\ fnMap' = Put(fnMap, Fn(x).id, fn)
    BY <1>1, <1>4 DEF GenerateFn, Mapped, declared, Untypable
  <2>2. /\ Len(Fn(x).text.anons) \in Nat
        /\ \A a \in anons : a \in Nat /\ nextId <= a /\ a < nextId + Len(Fn(x).text.anons)
                            /\ texts[a] \in Texts
    BY <1>1, GeneratedIds
  <2>3. fn.anons = anons
    OBVIOUS
  <2>4. DOMAIN parents' = DOMAIN parents \cup anons
    BY <2>1 DEF Append2, ToAll
  <2>5. IInv' /\ Declared' = Declared
    <3> HIDE DEF fn, texts
    <3>1. nextId' \in Nat /\ nextId <= nextId'
      <4>1. \A k \in Nat : nextId + k \in Nat /\ nextId <= nextId + k
        BY <1>1
      <4> QED BY <2>1, <2>2, <4>1
    <3>2. \A a \in anons : a \in Nat /\ nextId <= a /\ a < nextId'
      BY <2>1, <2>2
    <3>3. \A a \in DOMAIN buffer' : buffer'[a] \in Texts
      BY <2>1, <2>2 DEF IInv, AnonsOK, Append2
    <3> QED BY <1>1, <2>1, <2>3, <2>4, <3>1, <3>2, <3>3, GenerateFnWorks
  <2>6. Known \subseteq Known'
    BY <2>4, <2>5 DEF Known
  <2> QED BY <1>1, <2>1, <2>5, <2>6, Discovers
<1> QED BY <1>2, <1>3, <1>4

LEMMA AnalyzeStep ==
  ASSUME IInv, EnterAnalysis \/ EnterAnonymous \/ \E x \in todo : AnalyzeFn(x) \/ FinishBuiltin(x)
  PROVE  IInv' /\ W!Next
<1>1. outcome = "running"
  BY DEF EnterAnalysis, EnterAnonymous, AnalyzeFn, FinishBuiltin
<1>2. CASE \E how : how # "ok" /\ End(how)
  BY <1>1, <1>2, EndStep
<1>3. CASE EnterAnalysis /\ ~ \E how : how # "ok" /\ End(how)
  <2>1. /\ pass = "fns" /\ todo = {} /\ pass' = "analyze" /\ todo' = Items("fns")
        /\ UNCHANGED <<program, raw, outcome, nextId, fnMap>>
        /\ anonFns' = buffer /\ buffer' = Empty
        /\ UNCHANGED <<parents, unresolved, resolving, finished>>
    BY <1>3 DEF EnterAnalysis, Enter, declared, worklist
  <2>2. IInv' /\ Declared' = Declared
    BY <2>1, EnterAnalysisWorks
  <2> QED BY <1>1, <2>1, <2>2, Discovers DEF Known
<1>4. CASE EnterAnonymous
  <2>1. /\ pass = "analyze" /\ todo = {} /\ pass' = "anonymous" /\ todo' = {}
        /\ UNCHANGED <<program, raw, outcome, nextId, fnMap, buffer, anonFns>>
        /\ UNCHANGED <<parents, unresolved, resolving, finished>>
    BY <1>4 DEF EnterAnonymous, Enter, declared, universe, ready, worklist
  <2>2. IInv' /\ Declared' = Declared
    BY <2>1, EnterAnonymousWorks
  <2> QED BY <1>1, <2>1, <2>2, Discovers DEF Known
<1>5. ASSUME NEW x \in todo, AnalyzeFn(x), ~ \E how : how # "ok" /\ End(how)
      PROVE  IInv' /\ W!Next
  <2> DEFINE new == ToAll(Anons(x), x[1])
  <2>1. pass = "analyze" /\ ~Fn(x).builtin /\ x \in Items("fns") /\ todo \subseteq Items("fns")
    BY <1>5 DEF AnalyzeFn, Fn, IInv, Analyzing
  <2>2. /\ pass' = pass /\ todo' = todo \ {x}
        /\ UNCHANGED <<program, raw, outcome, nextId, anonFns, buffer, parents, resolving>>
        /\ fnMap' = Without(fnMap, Fn(x).id)
        /\ unresolved' = Append2(unresolved, new)
        /\ finished' = Put(finished, Fn(x).id, Fn(x).text)
    BY <1>5 DEF AnalyzeFn, Rejected, Fn, Anons, declared, universe, Untypable
  <2>3. /\ DOMAIN finished' = DOMAIN finished \cup {Fn(x).id}
        /\ DOMAIN unresolved' = DOMAIN unresolved \cup Anons(x)
    BY <2>2 DEF Put, Append2, ToAll
  <2>4. Anons(x) \subseteq DOMAIN parents
    BY <2>1 DEF IInv, Analyzing
  <2>5. \A y \in todo : y # x => /\ Fn(y).id \in DOMAIN fnMap'
                                 /\ fnMap'[Fn(y).id] = fnMap[Fn(y).id]
    <3>1. \A y \in todo : y # x => Fn(y).id # Fn(x).id
      BY <2>1 DEF IInv, RawOK
    <3> QED BY <2>1, <2>2, <3>1 DEF IInv, Analyzing, Without
  <2>6. IInv' /\ Declared' = Declared /\ Fn(x).id \in Declared \ DOMAIN finished
    BY <2>1, <2>2, <2>3, <2>4, <2>5, AnalyzeWorks
  <2> QED BY <1>1, <2>2, <2>3, <2>6, Analyses DEF Known
<1>6. ASSUME NEW x \in todo, FinishBuiltin(x) PROVE IInv' /\ W!Next
  <2>1. /\ pass = "analyze" /\ Fn(x).builtin
        /\ pass' = pass /\ todo' = todo \ {x}
        /\ UNCHANGED <<program, raw, outcome, nextId, fnMap, anonFns, buffer>>
        /\ UNCHANGED <<parents, unresolved, resolving>>
        /\ finished' = Put(finished, Fn(x).id, Fn(x).text)
    BY <1>6 DEF FinishBuiltin, Fn, declared, universe, ready
  <2>2. /\ DOMAIN finished' = DOMAIN finished \cup {Fn(x).id}
        /\ DOMAIN unresolved' = DOMAIN unresolved \cup {}
        /\ {} \subseteq DOMAIN parents /\ (~Fn(x).builtin => {} = Anons(x))
    BY <2>1 DEF Put
  <2>3. \A y \in todo : y # x => /\ Fn(y).id \in DOMAIN fnMap'
                                 /\ fnMap'[Fn(y).id] = fnMap[Fn(y).id]
    BY <2>1 DEF IInv, Analyzing
  <2>4. IInv' /\ Declared' = Declared /\ Fn(x).id \in Declared \ DOMAIN finished
    BY <2>1, <2>2, <2>3, AnalyzeWorks
  <2> QED BY <1>1, <2>1, <2>2, <2>4, Analyses DEF Known
<1> QED BY <1>2, <1>3, <1>4, <1>5, <1>6

LEMMA RoundStep ==
  ASSUME IInv, StartRound \/ Finish \/ \E f \in DOMAIN resolving : ResolveAnonymousFn(f)
  PROVE  IInv' /\ W!Next
<1>1. outcome = "running" /\ pass = "anonymous" /\ nextId \in Nat
  BY DEF StartRound, Finish, RoundOver, ResolveAnonymousFn, IInv, RawOK
<1>2. CASE StartRound
  <2>1. IInv' /\ Declared' = Declared /\ UNCHANGED <<outcome, finished, parents>>
    BY <1>2, StartRoundWorks
  <2> QED BY <1>1, <2>1, Discovers DEF Known
<1>3. CASE Finish
  <2>1. outcome' = "ok" /\ End("ok") /\ DOMAIN resolving = {} /\ DOMAIN unresolved = {}
    BY <1>3 DEF Finish, RoundOver, End
  <2>2. IInv'
    BY <2>1, EndWorks
  <2>3. DOMAIN finished = Known
    BY <1>1, <2>1 DEF IInv, Resolving, Known
  <2>4. Known' = Known /\ DOMAIN finished' = DOMAIN finished
    BY <2>1, Unmoved DEF Known, End, declared, worklist
  <2> QED BY <1>1, <2>1, <2>2, <2>3, <2>4, Accepts
<1>4. CASE \E how : how # "ok" /\ End(how)
  BY <1>1, <1>4, EndStep
<1>5. ASSUME NEW f \in DOMAIN resolving, ResolveAnonymousFn(f), ~ \E how : how # "ok" /\ End(how)
      PROVE  IInv' /\ W!Next
  <2> DEFINE t == anonFns[f]
             texts == Generated(t, nextId + 1)
             nested == DOMAIN texts
  <2>1. /\ f \in DOMAIN anonFns
        /\ pass' = pass
        /\ UNCHANGED <<program, raw, outcome, fnMap, buffer>>
        /\ nextId' = nextId + 1 + Len(t.anons)
        /\ parents' = Append2(parents, ToAll(nested, parents[f]))
        /\ anonFns' = Append2(anonFns, texts)
        /\ unresolved' = Append2(unresolved, ToAll(nested, resolving[f]))
        /\ resolving' = Without(resolving, f)
        /\ finished' = Put(finished, f, t)
    BY <1>5 DEF ResolveAnonymousFn, Rejected, declared, ready, Untypable
  <2>2. t \in Texts
    BY <2>1 DEF IInv, AnonsOK
  <2>3. /\ Len(t.anons) \in Nat
        /\ \A a \in nested : a \in Nat /\ nextId + 1 <= a /\ a < nextId + 1 + Len(t.anons)
                             /\ texts[a] \in Texts
    <3>1. PICK s, first : s = t /\ first = nextId + 1
      OBVIOUS
    <3> HIDE DEF t
    <3>2. s \in Texts /\ first \in Nat
      BY <1>1, <2>2, <3>1
    <3>3. PICK g : g = Generated(s, first)
      OBVIOUS
    <3>4. /\ Len(s.anons) \in Nat
          /\ \A a \in DOMAIN g : a \in Nat /\ first <= a /\ a < first + Len(s.anons) /\ g[a] \in Texts
      BY <3>2, <3>3, GeneratedIds
    <3>5. texts = g
      BY <3>1, <3>3
    <3> HIDE DEF texts
    <3> QED BY <3>1, <3>4, <3>5
  <2>4. /\ DOMAIN parents' = DOMAIN parents \cup nested
        /\ DOMAIN unresolved' = DOMAIN unresolved \cup nested
        /\ DOMAIN resolving' = DOMAIN resolving \ {f}
        /\ DOMAIN finished' = DOMAIN finished \cup {f}
    BY <2>1 DEF Append2, ToAll, Without, Put
  <2>5. IInv' /\ Declared' = Declared /\ f \in DOMAIN parents \ DOMAIN finished
    <3> HIDE DEF texts, t
    <3>1. /\ nextId' \in Nat /\ nextId <= nextId'
          /\ \A a \in nested : a \in Nat /\ nextId <= a /\ a < nextId'
          /\ \A a \in nested : texts[a] \in Texts
      BY <1>1, <2>1, <2>3
    <3> QED BY <1>1, <2>1, <2>4, <3>1, ResolveWorks
  <2>6. Known \subseteq Known'
    BY <2>4, <2>5 DEF Known
  <2> QED BY <1>1, <2>1, <2>4, <2>5, <2>6, Analyses DEF Known
<1> QED BY <1>2, <1>3, <1>4, <1>5


LEMMA StutterWorks ==
  ASSUME IInv, UNCHANGED vars
  PROVE  IInv' /\ UNCHANGED W!vars
<1>1. /\ UNCHANGED <<program, raw, parents, finished, outcome>> /\ End(outcome)
  BY DEF vars, declared, named, universe, ready, worklist, End
<1>2. IInv'
  BY <1>1, EndWorks
<1> QED BY <1>1, <1>2, Unmoved DEF W!vars

LEMMA InitWorks == Init => IInv /\ W!Init
<1> SUFFICES ASSUME Init PROVE IInv /\ W!Init
  OBVIOUS
<1>1. /\ program \in Programs /\ pass = "raw" /\ outcome = "running"
      /\ nextId = Len(StdTypes) /\ raw = [m \in Mods |-> NoDecls]
      /\ fnMap = Empty /\ buffer = Empty /\ anonFns = Empty
      /\ parents = Empty /\ unresolved = Empty /\ resolving = Empty /\ finished = Empty
  BY DEF Init
<1>2. nextId \in Nat
  BY <1>1 DEF StdTypes
<1>3. \A m \in Mods : raw[m] = NoDecls /\ DOMAIN raw[m].fns = {}
  BY <1>1 DEF NoDecls, Empty
<1>4. Items("fns") = {} /\ Declared = {}
  BY <1>3 DEF Items, Declared
<1>5. RawOK
  BY <1>1, <1>2, <1>3, <1>4 DEF RawOK, NoDecls
<1>6. AnonsOK /\ Reserving /\ Generating /\ Analyzing /\ Resolving
  BY <1>1, <1>4 DEF AnonsOK, Reserving, Generating, Analyzing, Resolving, None, Empty
<1>7. W!Init
  <2>1. (outcome = "ok") = FALSE
    BY <1>1
  <2> QED BY <1>1, <1>4, <2>1 DEF W!Init, Empty
<1> QED BY <1>1, <1>5, <1>6, <1>7 DEF IInv

LEMMA NextWorks ==
  ASSUME IInv, Next
  PROVE  IInv' /\ [W!Next]_(W!vars)
<1>1. CASE ReadType \/ ReadFn \/ ReadUse \/ ReadEnd
  BY <1>1, ReadStep
<1>2. CASE Passes
  BY <1>2, EarlyStep, AnalyzeStep DEF Passes
<1>3. CASE \E m \in Mods : MapUsings(m)
  BY <1>3, EarlyStep
<1>4. ASSUME NEW x \in todo, Work(x) PROVE IInv' /\ W!Next
  BY <1>4, EarlyStep, GenerateStep, AnalyzeStep DEF Work
<1>5. CASE StartRound \/ Finish \/ \E f \in DOMAIN resolving : ResolveAnonymousFn(f)
  BY <1>5, RoundStep
<1>6. CASE Ended
  <2>1. UNCHANGED vars
    BY <1>6 DEF Ended
  <2> QED BY <2>1, StutterWorks
<1> QED BY <1>1, <1>2, <1>3, <1>4, <1>5, <1>6 DEF Next, Step

\* Module resolution implements the worklist, for any program: every function
\* that is declared, or found in the body of one that is analysed, is analysed
\* once, in whatever order the passes take them, and no program is accepted
\* before all are.
THEOREM ResolverImplementsWorklist == Spec => ImplementsWorklist
<1>1. IInv /\ [Next]_vars => IInv' /\ [W!Next]_(W!vars)
  BY NextWorks, StutterWorks
<1> QED BY <1>1, InitWorks, PTL DEF Spec, ImplementsWorklist, W!Spec

-----------------------------------------------------------------------------

Ty(x) == raw[x[1]].types[x[2]]
TypeIds == {Ty(x).id : x \in Items("types")}
StdIds == 0 .. Len(StdTypes) - 1
Early == {"raw", "usings", "types"}
Late == {"analyze", "anonymous"}

\* The place each use declaration was read from.
From(m, g) ==
  /\ g \in [DOMAIN raw[m].uses -> DOMAIN program[m].decls]
  /\ \A i, j \in DOMAIN g : g[i] = g[j] => i = j
  /\ \A i \in DOMAIN g :
       /\ program[m].decls[g[i]].kind = "use" /\ program[m].decls[g[i]].name = raw[m].uses[i]
       /\ pass = "raw" => m < at[1] \/ (m = at[1] /\ g[i] < at[2])
UsesRead ==
  /\ at \in Nat \X Nat
  /\ \A m \in Mods : raw[m].uses \in Seq(Names) /\ \E g : From(m, g)

\* Constructors are entered under ids that are not used twice.
IdsApart ==
  /\ \A x \in Items("types") : Ty(x).id \in Nat \ StdIds /\ Ty(x).id < nextId
  /\ \A x \in Items("fns") : Fn(x).type \in Nat \ StdIds /\ Fn(x).type < nextId
  /\ \A x, y \in Items("types") : Ty(x).id = Ty(y).id => x = y
  /\ \A x, y \in Items("fns") : Fn(x).type = Fn(y).type => x = y
  /\ \A x \in Items("types"), y \in Items("fns") : Ty(x).id # Fn(y).type
  /\ Len(StdTypes) <= nextId

\* Whatever the scopes name is declared.
ScopesDeclared ==
  /\ scopes = [m \in Mods |-> scopes[m]]
  /\ pass # "raw" =>
       \A m \in Mods :
         /\ scopes[m] = [types |-> scopes[m].types, fns |-> scopes[m].fns]
         /\ \A p \in DOMAIN scopes[m].types : scopes[m].types[p] \in StdIds \cup TypeIds
         /\ \A p \in DOMAIN scopes[m].fns : scopes[m].fns[p] \in Declared

\* What is declared has a constructor once its pass has reached it.
Constructors ==
  /\ pass \in {"raw", "usings"} => \A i : i \in typeCons <=> i \in StdIds
  /\ pass = "types" =>
       /\ todo \subseteq Items("types")
       /\ \A i : i \in typeCons <=> i \in StdIds \/ \E x \in Items("types") \ todo : i = Ty(x).id
  /\ pass = "fns" =>
       \A i : i \in typeCons <=> \/ i \in StdIds \cup TypeIds
                                 \/ \E x \in Items("fns") \ todo : i = Fn(x).type
  /\ pass \in Late => /\ StdIds \cup TypeIds \subseteq typeCons
                      /\ \A i \in typeCons : i \in Nat /\ i < nextId
  /\ pass \in Early => fnTypes = {}
  /\ pass = "fns" => \A i : /\ i \in fnTypes <=> \E x \in Items("fns") \ todo : i = Fn(x).id
                            /\ i \in DOMAIN fnMap <=> i \in fnTypes
  /\ pass \in Late => Declared \subseteq fnTypes

\* An anonymous function is stored once, and belongs to one function.
Stored ==
  /\ pass \in Early => None(buffer)
  /\ pass = "fns" => DOMAIN buffer = DOMAIN parents
  /\ pass \in Late => DOMAIN anonFns = DOMAIN parents
  /\ \A a \in DOMAIN parents : \E x \in Items("fns") : ~Fn(x).builtin /\ parents[a] = Fn(x).id
  /\ pass = "fns" => \A x, y \in Items("fns") \ todo : x # y => Anons(x) \cap Anons(y) = {}
  /\ pass = "analyze" =>
       /\ \A x, y \in todo : x # y => Anons(x) \cap Anons(y) = {}
       /\ \A x \in todo : Anons(x) \cap DOMAIN unresolved = {}
  /\ \A a \in DOMAIN unresolved : unresolved[a] \in Mods
  /\ \A a \in DOMAIN resolving : resolving[a] \in Mods

PInv ==
  /\ IInv
  /\ UsesRead /\ IdsApart /\ ScopesDeclared /\ Constructors /\ Stored

-----------------------------------------------------------------------------
(* Reading the declarations.                                               *)

LEMMA TypesPlaced ==
  /\ \A x : x \in Items("types") <=> \E m \in Mods : \E n \in DOMAIN raw[m].types : x = <<m, n>>
  /\ \A m, n : Ty(<<m, n>>) = raw[m].types[n]
BY DEF Items, Ty

\* Past the first pass the declared types stay as they are.
LEMMA TypesUnmoved ==
  ASSUME raw' = raw, program' = program
  PROVE  /\ Items("types")' = Items("types") /\ TypeIds' = TypeIds
         /\ \A x : Ty(x)' = Ty(x)
  BY DEF Items, TypeIds, Ty, Mods

LEMMA TypePlaced ==
  ASSUME NEW m \in Mods, Mods' = Mods, NEW n, n \notin DOMAIN raw[m].types, NEW d,
         \A k \in Mods : k # m => raw'[k].types = raw[k].types,
         raw'[m].types = Put(raw[m].types, n, d)
  PROVE  /\ \A x : x \in Items("types")' <=> x \in Items("types") \/ x = <<m, n>>
         /\ <<m, n>> \notin Items("types")
         /\ Ty(<<m, n>>)' = d
         /\ \A x \in Items("types") : Ty(x)' = Ty(x)
<1> DEFINE y == <<m, n>>
<1>2. /\ DOMAIN raw'[m].types = DOMAIN raw[m].types \cup {n}
      /\ raw'[m].types[n] = d
      /\ \A k \in DOMAIN raw[m].types : raw'[m].types[k] = raw[m].types[k]
  BY DEF Put
<1>3. \A x : x \in Items("types")' <=> \E k \in Mods : \E j \in DOMAIN raw'[k].types : x = <<k, j>>
  BY DEF Items
<1>4. y \notin Items("types")
  BY TypesPlaced
<1>5. ASSUME NEW x \in Items("types") PROVE x \in Items("types")' /\ Ty(x)' = Ty(x)
  <2>1. PICK k \in Mods : \E j \in DOMAIN raw[k].types : x = <<k, j>>
    BY TypesPlaced
  <2>2. PICK j \in DOMAIN raw[k].types : x = <<k, j>>
    BY <2>1
  <2>3. j \in DOMAIN raw'[k].types /\ raw'[k].types[j] = raw[k].types[j]
    BY <1>2, <2>2
  <2> QED BY <1>3, <2>2, <2>3 DEF Ty
<1>6. ASSUME NEW x \in Items("types")' PROVE x \in Items("types") \/ x = y
  <2>1. PICK k \in Mods : \E j \in DOMAIN raw'[k].types : x = <<k, j>>
    BY <1>3
  <2>2. PICK j \in DOMAIN raw'[k].types : x = <<k, j>>
    BY <2>1
  <2> QED BY <1>2, TypesPlaced, <2>2
<1>7. y \in Items("types")' /\ Ty(y)' = d
  BY <1>2, <1>3 DEF Ty
<1> QED BY <1>4, <1>5, <1>6, <1>7

\* What the other declarations leave of the types and functions.
LEMMA TypesStay ==
  ASSUME Mods' = Mods, \A k \in Mods : raw'[k].types = raw[k].types
  PROVE  Items("types")' = Items("types") /\ \A x \in Items("types") : Ty(x)' = Ty(x)
<1>1. Items("types")' = Items("types")
  BY DEF Items
<1>2. ASSUME NEW x \in Items("types") PROVE Ty(x)' = Ty(x)
  <2>1. PICK k \in Mods : \E j \in DOMAIN raw[k].types : x = <<k, j>>
    BY TypesPlaced
  <2> QED BY <2>1 DEF Ty
<1> QED BY <1>1, <1>2

LEMMA FnsStay ==
  ASSUME Mods' = Mods, \A k \in Mods : raw'[k].fns = raw[k].fns
  PROVE  Items("fns")' = Items("fns") /\ \A x \in Items("fns") : Fn(x)' = Fn(x)
<1>1. Items("fns")' = Items("fns")
  BY DEF Items
<1>2. ASSUME NEW x \in Items("fns") PROVE Fn(x)' = Fn(x)
  <2>1. PICK k \in Mods : \E j \in DOMAIN raw[k].fns : x = <<k, j>>
    BY Placed
  <2> QED BY <2>1 DEF Fn
<1> QED BY <1>1, <1>2

\* While the declarations are read no table holds anything of them.
LEMMA ReservedOnly ==
  ASSUME PInv, pass = "raw", pass' = "raw", Mods' = Mods,
         UNCHANGED <<scopes, typeCons, fnTypes, buffer, parents, unresolved, resolving>>
  PROVE  ScopesDeclared' /\ Constructors' /\ Stored'
<1>1. ScopesDeclared'
  BY DEF PInv, ScopesDeclared
<1>2. Constructors'
  BY DEF PInv, Constructors, Early, Late, StdIds
<1>3. Stored'
  BY DEF PInv, Stored, Early, Late, IInv, Reserving, None
<1> QED BY <1>1, <1>2, <1>3

LEMMA UsesKept ==
  ASSUME PInv, pass = "raw", UNCHANGED <<program, pass>>, Mods' = Mods,
         \A k \in Mods : raw'[k].uses = raw[k].uses,
         at' = [at EXCEPT ![2] = @ + 1]
  PROVE  UsesRead'
<1>1. at' \in Nat \X Nat /\ at'[1] = at[1] /\ at'[2] = at[2] + 1 /\ at[2] \in Nat
  BY DEF PInv, UsesRead
<1>2. ASSUME NEW m \in Mods PROVE raw'[m].uses \in Seq(Names) /\ \E g : From(m, g)'
  <2>1. PICK g : From(m, g)
    BY DEF PInv, UsesRead
  <2>2. \A i \in DOMAIN g : g[i] \in Nat
    <3>1. program[m].decls \in Seq([kind : Kinds, name : Names, text : Texts])
      BY DeclsAre DEF PInv, IInv
    <3> QED BY <2>1, <3>1 DEF From
  <2>3. From(m, g)'
    BY <1>1, <2>1, <2>2 DEF From
  <2> QED BY <2>3 DEF PInv, UsesRead
<1> QED BY <1>1, <1>2 DEF UsesRead


LEMMA Appended ==
  ASSUME NEW S, NEW s \in Seq(S), NEW e \in S, NEW t, t = Append(s, e), NEW k, k = Len(s) + 1
  PROVE  /\ k \notin DOMAIN s /\ DOMAIN t = DOMAIN s \cup {k}
         /\ \A i \in DOMAIN s : t[i] = s[i]
         /\ t[k] = e
         /\ t \in Seq(S)
  OBVIOUS

\* g gives each member of s a use declaration of its own, of its name and before last.
PlacesOf(s, decls, last, g) ==
  /\ g \in [DOMAIN s -> DOMAIN decls]
  /\ \A i, j \in DOMAIN s : g[i] = g[j] => i = j
  /\ \A i \in DOMAIN s : /\ decls[g[i]].kind = "use" /\ decls[g[i]].name = s[i]
                          /\ g[i] \in Nat /\ g[i] < last

\* A list with a place for each member gets a member and a place more.
LEMMA OneMorePlace ==
  ASSUME NEW S, NEW s \in Seq(S), NEW x \in S, NEW t, t = Append(s, x),
         NEW decls, NEW last \in Nat, last \in DOMAIN decls,
         decls[last].kind = "use", decls[last].name = x,
         NEW g, PlacesOf(s, decls, last, g)
  PROVE  \E h : PlacesOf(t, decls, last + 1, h)
<1>1. PICK k : k = Len(s) + 1
  OBVIOUS
<1>2. k \notin DOMAIN s /\ DOMAIN t = DOMAIN s \cup {k} /\ t[k] = x
      /\ \A i \in DOMAIN s : t[i] = s[i]
  BY <1>1, Appended
<1> DEFINE h == [i \in DOMAIN t |-> IF i = k THEN last ELSE g[i]]
<1>3. h \in [DOMAIN t -> DOMAIN decls] /\ DOMAIN h = DOMAIN t
  BY <1>2 DEF PlacesOf
<1>4. h[k] = last /\ \A i \in DOMAIN s : h[i] = g[i]
  BY <1>2
<1> HIDE DEF h
<1>5. ASSUME NEW i \in DOMAIN t, NEW j \in DOMAIN t, h[i] = h[j] PROVE i = j
  <2>1. \A y \in DOMAIN s : h[y] # h[k]
    BY <1>4 DEF PlacesOf
  <2>2. \A y, z \in DOMAIN s : h[y] = h[z] => y = z
    BY <1>4 DEF PlacesOf
  <2> QED BY <1>2, <1>5, <2>1, <2>2
<1>6. ASSUME NEW i \in DOMAIN t
      PROVE  /\ decls[h[i]].kind = "use" /\ decls[h[i]].name = t[i]
             /\ h[i] \in Nat /\ h[i] < last + 1
  <2>1. CASE i = k
    BY <1>2, <1>4, <2>1
  <2>2. CASE i \in DOMAIN s
    <3>1. h[i] = g[i] /\ t[i] = s[i]
      BY <1>2, <1>4, <2>2
    <3>2. /\ decls[g[i]].kind = "use" /\ decls[g[i]].name = s[i]
          /\ g[i] \in Nat /\ g[i] < last
      BY <2>2 DEF PlacesOf
    <3>3. g[i] < last + 1
      BY <3>2
    <3> QED BY <3>1, <3>2, <3>3
  <2> QED BY <1>2, <2>1, <2>2
<1>7. PlacesOf(t, decls, last + 1, h)
  BY <1>3, <1>5, <1>6, Zenon DEF PlacesOf
<1> QED BY <1>7

\* The uses read of the module being read have their places before the next declaration.
LEMMA ReadPlaces ==
  ASSUME NEW m, m = at[1], NEW last, last = at[2], at[1] \in Nat, pass = "raw",
         NEW s, s = raw[m].uses, NEW decls, decls = program[m].decls,
         \A i \in DOMAIN decls : i \in Nat, NEW g, From(m, g)
  PROVE  PlacesOf(s, decls, last, g)
<1>1. /\ g \in [DOMAIN s -> DOMAIN decls] /\ DOMAIN g = DOMAIN s
      /\ \A i, j \in DOMAIN g : g[i] = g[j] => i = j
      /\ \A i \in DOMAIN g : decls[g[i]].kind = "use" /\ decls[g[i]].name = s[i]
  BY DEF From
<1>2. \A i \in DOMAIN g : m < at[1] \/ g[i] < last
  BY DEF From
<1>3. \A i \in DOMAIN g : g[i] \in Nat
  BY <1>1
<1>4. \A i \in DOMAIN g : g[i] < last
  BY <1>2
<1> QED BY <1>1, <1>3, <1>4, Zenon DEF PlacesOf

\* A use declaration that is read was not read before.
LEMMA UseAdded ==
  ASSUME PInv, pass = "raw", UNCHANGED <<program, pass>>, Mods' = Mods,
         NEW m \in Mods, m = at[1], at[2] \in DOMAIN program[m].decls,
         NEW decl, decl = program[m].decls[at[2]], decl.kind = "use", decl.name \in Names,
         \A k \in Mods : k # m => raw'[k] = raw[k],
         raw'[m].uses = Append(raw[m].uses, decl.name),
         at' = [at EXCEPT ![2] = @ + 1]
  PROVE  UsesRead'
<1>1. at' \in Nat \X Nat /\ at'[1] = at[1] /\ at'[2] = at[2] + 1 /\ at[2] \in Nat /\ at[1] \in Nat
  BY DEF PInv, UsesRead
<1>2. \A k \in Mods : \A i \in DOMAIN program[k].decls : i \in Nat
  <2>1. \A k \in Mods : program[k].decls \in Seq([kind : Kinds, name : Names, text : Texts])
    BY DeclsAre DEF PInv, IInv
  <2> QED BY <2>1
<1>3. ASSUME NEW k \in Mods, k # m PROVE raw'[k].uses \in Seq(Names) /\ \E g : From(k, g)'
  <2>1. PICK g : From(k, g)
    BY DEF PInv, UsesRead
  <2>2. From(k, g)'
    BY <1>1, <1>2, <1>3, <2>1 DEF From
  <2> QED BY <1>3, <2>2 DEF PInv, UsesRead
<1>4. raw'[m].uses \in Seq(Names) /\ \E g : From(m, g)'
  <2>1. PICK g : From(m, g)
    BY DEF PInv, UsesRead
  <2>2. PICK s : s = raw[m].uses
    OBVIOUS
  <2>3. PICK t : t = raw'[m].uses
    OBVIOUS
  <2>4. PICK decls, last, x : decls = program[m].decls /\ last = at[2] /\ x = decl.name
    OBVIOUS
  <2>5. /\ s \in Seq(Names) /\ x \in Names /\ t = Append(s, x)
        /\ last \in Nat /\ last \in DOMAIN decls
        /\ decls[last].kind = "use" /\ decls[last].name = x
    <3>1. raw[m].uses \in Seq(Names)
      BY DEF PInv, UsesRead
    <3>2. last \in Nat /\ last \in DOMAIN decls /\ decls[last] = decl
      BY <1>1, <2>4
    <3> QED BY <2>2, <2>3, <2>4, <3>1, <3>2
  <2>6. PlacesOf(s, decls, last, g)
    <3>1. \A i \in DOMAIN decls : i \in Nat
      BY <1>2, <2>4
    <3> QED BY <1>1, <2>1, <2>2, <2>4, <3>1, ReadPlaces
  <2>7. PICK h : PlacesOf(t, decls, last + 1, h)
    BY <2>5, <2>6, OneMorePlace, ZenonT(60)
  <2>8. raw'[m].uses \in Seq(Names)
    BY <2>3, <2>5, Appended
  <2>9. From(m, h)'
    <3>1. /\ h \in [DOMAIN t -> DOMAIN decls] /\ DOMAIN h = DOMAIN t
          /\ \A i, j \in DOMAIN t : h[i] = h[j] => i = j
          /\ \A i \in DOMAIN t : /\ decls[h[i]].kind = "use" /\ decls[h[i]].name = t[i]
                                  /\ h[i] < last + 1
      BY <2>7 DEF PlacesOf
    <3>2. m = at'[1] /\ last + 1 = at'[2]
      BY <1>1, <2>4
    <3>3. t = raw'[m].uses /\ decls = program'[m].decls
      BY <2>3, <2>4
    <3> QED BY <3>1, <3>2, <3>3, Zenon DEF From
  <2> QED BY <2>8, <2>9
<1> QED BY <1>1, <1>3, <1>4 DEF UsesRead


\* A type that is read takes an id of its own.
LEMMA TypeIdsApart ==
  ASSUME PInv, NEW y, NEW d, d.id = nextId, nextId' = nextId + 1,
         \A x : x \in Items("types")' <=> x \in Items("types") \/ x = y,
         y \notin Items("types"),
         \A x \in Items("types") : Ty(x)' = Ty(x),
         \A x : x = y => Ty(x)' = d,
         Items("fns")' = Items("fns"), \A x \in Items("fns") : Fn(x)' = Fn(x)
  PROVE  IdsApart'
<1>1. nextId \in Nat /\ Len(StdTypes) = 5 /\ Len(StdTypes) <= nextId
  BY DEF PInv, IInv, RawOK, IdsApart, StdTypes
<1>2. nextId \in Nat \ StdIds
  BY <1>1 DEF StdIds
<1>3. \A x \in Items("types")' : Ty(x)'.id \in Nat \ StdIds /\ Ty(x)'.id < nextId'
  BY <1>1, <1>2 DEF PInv, IdsApart
<1>4. \A x \in Items("fns")' : Fn(x)'.type \in Nat \ StdIds /\ Fn(x)'.type < nextId'
  BY <1>1 DEF PInv, IdsApart
<1>5. ASSUME NEW x \in Items("types")', NEW z \in Items("types")', Ty(x)'.id = Ty(z)'.id PROVE x = z
  <2>1. \A k \in Items("types") : Ty(k)'.id # nextId
    BY <1>1 DEF PInv, IdsApart
  <2> QED BY <1>5, <2>1 DEF PInv, IdsApart
<1>6. ASSUME NEW x \in Items("types")', NEW z \in Items("fns")' PROVE Ty(x)'.id # Fn(z)'.type
  <2>1. \A k \in Items("fns") : Fn(k)'.type # nextId
    BY <1>1 DEF PInv, IdsApart
  <2> QED BY <2>1 DEF PInv, IdsApart
<1>7. \A x, z \in Items("fns")' : Fn(x)'.type = Fn(z)'.type => x = z
  BY DEF PInv, IdsApart
<1>8. Len(StdTypes)' <= nextId'
  BY <1>1 DEF StdTypes
<1> QED BY <1>3, <1>4, <1>5, <1>6, <1>7, <1>8 DEF IdsApart, StdIds, StdTypes

\* So does the type of a function.
LEMMA FnIdsApart ==
  ASSUME PInv, NEW y, NEW d, d.type = nextId + 1, nextId' = nextId + 2,
         \A x : x \in Items("fns")' <=> x \in Items("fns") \/ x = y,
         y \notin Items("fns"),
         \A x \in Items("fns") : Fn(x)' = Fn(x),
         \A x : x = y => Fn(x)' = d,
         Items("types")' = Items("types"), \A x \in Items("types") : Ty(x)' = Ty(x)
  PROVE  IdsApart'
<1>1. nextId \in Nat /\ Len(StdTypes) = 5 /\ Len(StdTypes) <= nextId
  BY DEF PInv, IInv, RawOK, IdsApart, StdTypes
<1>2. nextId + 1 \in Nat \ StdIds
  BY <1>1 DEF StdIds
<1>3. \A x \in Items("types")' : Ty(x)'.id \in Nat \ StdIds /\ Ty(x)'.id < nextId'
  BY <1>1 DEF PInv, IdsApart
<1>4. \A x \in Items("fns")' : Fn(x)'.type \in Nat \ StdIds /\ Fn(x)'.type < nextId'
  BY <1>1, <1>2 DEF PInv, IdsApart
<1>5. ASSUME NEW x \in Items("fns")', NEW z \in Items("fns")', Fn(x)'.type = Fn(z)'.type PROVE x = z
  <2>1. \A k \in Items("fns") : Fn(k)'.type # nextId + 1
    BY <1>1 DEF PInv, IdsApart
  <2> QED BY <1>5, <2>1 DEF PInv, IdsApart
<1>6. ASSUME NEW x \in Items("types")', NEW z \in Items("fns")' PROVE Ty(x)'.id # Fn(z)'.type
  <2>1. \A k \in Items("types") : Ty(k)'.id # nextId + 1
    BY <1>1 DEF PInv, IdsApart
  <2> QED BY <2>1 DEF PInv, IdsApart
<1>7. \A x, z \in Items("types")' : Ty(x)'.id = Ty(z)'.id => x = z
  BY DEF PInv, IdsApart
<1>8. Len(StdTypes)' <= nextId'
  BY <1>1 DEF StdTypes
<1> QED BY <1>3, <1>4, <1>5, <1>6, <1>7, <1>8 DEF IdsApart, StdIds, StdTypes


-----------------------------------------------------------------------------
(* Steps that leave what was read as it is.                                *)

LEMMA Fixed ==
  ASSUME PInv, UNCHANGED <<program, at, raw>>, pass' # "raw" \/ pass' = pass,
         nextId' \in Nat, nextId <= nextId'
  PROVE  /\ UsesRead' /\ IdsApart'
         /\ StdIds' = StdIds /\ TypeIds' = TypeIds /\ Declared' = Declared /\ Mods' = Mods
         /\ \A part : Items(part)' = Items(part)
         /\ \A x : Fn(x)' = Fn(x) /\ Ty(x)' = Ty(x)
<1>1. /\ StdIds' = StdIds /\ TypeIds' = TypeIds /\ Declared' = Declared /\ Mods' = Mods
      /\ \A part : Items(part)' = Items(part)
      /\ \A x : Fn(x)' = Fn(x) /\ Ty(x)' = Ty(x)
  BY Unmoved, TypesUnmoved DEF StdIds, StdTypes, Mods, Items
<1>2. UsesRead'
  <2>1. ASSUME NEW m \in Mods PROVE raw'[m].uses \in Seq(Names) /\ \E g : From(m, g)'
    <3>1. PICK g : From(m, g)
      BY DEF PInv, UsesRead
    <3>2. From(m, g)'
      BY <3>1 DEF From
    <3> QED BY <3>2 DEF PInv, UsesRead
  <2> QED BY <1>1, <2>1 DEF PInv, UsesRead
<1>3. IdsApart'
  <2>1. nextId \in Nat /\ Len(StdTypes) = 5 /\ Len(StdTypes)' = 5
    BY DEF PInv, IInv, RawOK, StdTypes
  <2>2. \A x \in Items("types") : Ty(x)'.id \in Nat \ StdIds /\ Ty(x)'.id < nextId'
    BY <1>1, <2>1 DEF PInv, IdsApart
  <2>3. \A x \in Items("fns") : Fn(x)'.type \in Nat \ StdIds /\ Fn(x)'.type < nextId'
    BY <1>1, <2>1 DEF PInv, IdsApart
  <2>4. Len(StdTypes)' <= nextId'
    BY <2>1 DEF PInv, IdsApart
  <2> QED BY <1>1, <2>2, <2>3, <2>4 DEF PInv, IdsApart
<1> QED BY <1>1, <1>2, <1>3

\* An error or a panic leaves everything but the outcome.
LEMMA EndKeeps ==
  ASSUME PInv, NEW how, End(how)
  PROVE  PInv' /\ outcome' = how
<1>1. /\ UNCHANGED <<program, at, raw, pass, nextId, scopes, todo, typeCons, fnTypes, anonFns>>
      /\ UNCHANGED <<fnMap, buffer, parents, unresolved, resolving>>
      /\ IInv' /\ outcome' = how
  BY EndWorks DEF End, declared, named, universe, ready, worklist, PInv
<1>2. nextId \in Nat
  BY DEF PInv, IInv, RawOK
<1>3. /\ UsesRead' /\ IdsApart'
      /\ StdIds' = StdIds /\ TypeIds' = TypeIds /\ Declared' = Declared /\ Mods' = Mods
      /\ \A part : Items(part)' = Items(part)
      /\ \A x : Fn(x)' = Fn(x) /\ Ty(x)' = Ty(x)
  BY <1>1, <1>2, Fixed
<1>4. ScopesDeclared'
  BY <1>1, <1>3 DEF PInv, ScopesDeclared
<1>5. Constructors'
  BY <1>1, <1>3 DEF PInv, Constructors, Early, Late
<1>6. Stored'
  BY <1>1, <1>3 DEF PInv, Stored, Early, Late, None, Anons
<1> QED BY <1>1, <1>3, <1>4, <1>5, <1>6 DEF PInv

LEMMA ReadKeeps ==
  ASSUME PInv, IInv', ReadType \/ ReadFn \/ ReadUse \/ ReadEnd
  PROVE  PInv' /\ outcome' # "panic"
<1>1. CASE \E how : how # "panic" /\ End(how)
  BY <1>1, EndKeeps
<1>2. CASE ReadType /\ ~ \E how : how # "panic" /\ End(how)
  <2> DEFINE m == at[1]
             n == Decl.name
             d == [id |-> nextId, text |-> Decl.text]
             r == [raw[m] EXCEPT !.types = Put(@, n, d)]
  <2>1. /\ Reads({"struct", "opaque"}) /\ n \notin DOMAIN raw[m].types /\ Reserve(r, 1)
    BY <1>2 DEF ReadType
  <2>2. /\ m \in Mods /\ pass = "raw" /\ outcome = "running"
        /\ UNCHANGED <<program, pass, outcome, scopes, typeCons, fnTypes, buffer>>
        /\ UNCHANGED <<parents, unresolved, resolving>>
        /\ nextId' = nextId + 1 /\ at' = [at EXCEPT ![2] = @ + 1]
        /\ raw' = [raw EXCEPT ![m] = r] /\ Mods' = Mods
    BY <2>1, DeclRead DEF PInv, IInv, Reserve, named, universe, ready, worklist, Mods
  <2> HIDE DEF n, d
  <2>3. /\ raw'[m].types = Put(raw[m].types, n, d)
        /\ \A k \in Mods : k # m => raw'[k].types = raw[k].types
        /\ \A k \in Mods : raw'[k].fns = raw[k].fns /\ raw'[k].uses = raw[k].uses
    BY <2>2 DEF PInv, IInv, RawOK
  <2>4. UsesRead' /\ ScopesDeclared' /\ Constructors' /\ Stored'
    BY <2>2, <2>3, UsesKept, ReservedOnly
  <2>5. IdsApart'
    <3>1. PICK y : y = <<m, n>>
      OBVIOUS
    <3>2. /\ \A x : x \in Items("types")' <=> x \in Items("types") \/ x = y
          /\ y \notin Items("types")
          /\ \A x \in Items("types") : Ty(x)' = Ty(x)
          /\ \A x : x = y => Ty(x)' = d
      <4>1. PICK k, j : k = m /\ j = n
        OBVIOUS
      <4>2. \A x : x = <<k, j>> => Ty(x)' = Ty(<<k, j>>)'
        OBVIOUS
      <4> QED BY <2>1, <2>2, <2>3, <3>1, <4>1, <4>2, TypePlaced, SMTT(60)
    <3>3. Items("fns")' = Items("fns") /\ \A x \in Items("fns") : Fn(x)' = Fn(x)
      BY <2>2, <2>3, FnsStay
    <3>4. d.id = nextId
      BY DEF d
    <3> QED BY <2>2, <3>2, <3>3, <3>4, TypeIdsApart
  <2> QED BY <2>2, <2>4, <2>5 DEF PInv
<1>3. CASE ReadFn /\ ~ \E how : how # "panic" /\ End(how)
  <2> DEFINE m == at[1]
             n == Decl.name
             d == [id |-> nextId, type |-> nextId + 1, text |-> Decl.text,
                   builtin |-> Decl.kind = "builtin"]
             r == [raw[m] EXCEPT !.fns = Put(@, n, d)]
  <2>1. /\ Reads({"fn", "builtin"}) /\ n \notin DOMAIN raw[m].fns /\ Reserve(r, 2)
    BY <1>3 DEF ReadFn
  <2>2. /\ m \in Mods /\ pass = "raw" /\ outcome = "running"
        /\ UNCHANGED <<program, pass, outcome, scopes, typeCons, fnTypes, buffer>>
        /\ UNCHANGED <<parents, unresolved, resolving>>
        /\ nextId' = nextId + 2 /\ at' = [at EXCEPT ![2] = @ + 1]
        /\ raw' = [raw EXCEPT ![m] = r] /\ Mods' = Mods
    BY <2>1, DeclRead DEF PInv, IInv, Reserve, named, universe, ready, worklist, Mods
  <2>3. d.type = nextId + 1
    OBVIOUS
  <2> HIDE DEF n, d
  <2>4. /\ raw'[m] = [types |-> raw[m].types, fns |-> Put(raw[m].fns, n, d), uses |-> raw[m].uses]
        /\ \A k \in Mods : k # m => raw'[k] = raw[k]
        /\ \A k \in Mods : raw'[k].types = raw[k].types /\ raw'[k].uses = raw[k].uses
    BY <2>2 DEF PInv, IInv, RawOK
  <2>5. UsesRead' /\ ScopesDeclared' /\ Constructors' /\ Stored'
    BY <2>2, <2>4, UsesKept, ReservedOnly
  <2>6. IdsApart'
    <3>1. PICK y : y = <<m, n>>
      OBVIOUS
    <3>2. /\ \A x : x \in Items("fns")' <=> x \in Items("fns") \/ x = y
          /\ y \notin Items("fns")
          /\ \A x \in Items("fns") : Fn(x)' = Fn(x)
          /\ \A x : x = y => Fn(x)' = d
      <4>1. PICK k, j : k = m /\ j = n
        OBVIOUS
      <4>2. \A x : x = <<k, j>> => Fn(x)' = Fn(<<k, j>>)'
        OBVIOUS
      <4>3. RawOK
        BY DEF PInv, IInv
      <4>4. /\ k \in Mods /\ Mods' = Mods /\ j \notin DOMAIN raw[k].fns
            /\ \A i \in Mods : i # k => raw'[i] = raw[i]
            /\ raw'[k] = [types |-> raw[k].types, fns |-> Put(raw[k].fns, j, d), uses |-> raw[k].uses]
        BY <2>1, <2>2, <2>4, <4>1
      <4>5. /\ \A x : x \in Items("fns")' <=> x \in Items("fns") \/ x = <<k, j>>
            /\ <<k, j>> \notin Items("fns")
            /\ Fn(<<k, j>>)' = d
            /\ \A x \in Items("fns") : Fn(x)' = Fn(x)
        BY <4>3, <4>4, FnPlaced, Zenon
      <4> QED BY <3>1, <4>1, <4>2, <4>5
    <3>3. Items("types")' = Items("types") /\ \A x \in Items("types") : Ty(x)' = Ty(x)
      BY <2>2, <2>4, TypesStay
    <3> QED BY <2>2, <2>3, <3>2, <3>3, FnIdsApart
  <2> QED BY <2>2, <2>5, <2>6 DEF PInv
<1>4. CASE ReadUse
  <2> DEFINE m == at[1]
             r == [raw[m] EXCEPT !.uses = Append(@, Decl.name)]
  <2>1. Reads({"use"}) /\ Reserve(r, 0)
    BY <1>4 DEF ReadUse
  <2>2. /\ m \in Mods /\ pass = "raw" /\ outcome = "running"
        /\ UNCHANGED <<program, pass, outcome, scopes, typeCons, fnTypes, buffer, nextId>>
        /\ UNCHANGED <<parents, unresolved, resolving>>
        /\ at' = [at EXCEPT ![2] = @ + 1]
        /\ raw' = [raw EXCEPT ![m] = r] /\ Mods' = Mods
        /\ at[2] \in DOMAIN program[m].decls /\ Decl = program[m].decls[at[2]]
        /\ Decl.kind = "use" /\ Decl.name \in Names
    <3>1. RawOK
      BY DEF PInv, IInv
    <3>2. /\ m \in Mods /\ pass = "raw" /\ outcome = "running"
          /\ at[2] \in DOMAIN program[m].decls /\ Decl = program[m].decls[at[2]]
          /\ Decl.kind = "use" /\ Decl.name \in Names
      BY <2>1, <3>1, DeclRead
    <3>3. nextId' = nextId
      BY <2>1, <3>1 DEF RawOK, Reserve
    <3> QED BY <2>1, <3>2, <3>3 DEF Reserve, named, universe, ready, worklist, Mods
  <2>3. /\ raw'[m].uses = Append(raw[m].uses, Decl.name)
        /\ \A k \in Mods : k # m => raw'[k] = raw[k]
        /\ \A k \in Mods : raw'[k].types = raw[k].types /\ raw'[k].fns = raw[k].fns
    <3>1. PICK u : u = Append(raw[m].uses, Decl.name)
      OBVIOUS
    <3>2. raw' = [raw EXCEPT ![m] = [raw[m] EXCEPT !.uses = u]]
      BY <2>2, <3>1
    <3>3. /\ raw'[m].uses = u
          /\ \A k \in Mods : k # m => raw'[k] = raw[k]
          /\ \A k \in Mods : raw'[k].types = raw[k].types /\ raw'[k].fns = raw[k].fns
      <4>1. m \in Mods
        BY <2>2
      <4>2. \A k \in Mods : raw[k] = [types |-> raw[k].types, fns |-> raw[k].fns, uses |-> raw[k].uses]
        BY DEF PInv, IInv, RawOK
      <4>3. raw = [k \in Mods |-> raw[k]]
        BY DEF PInv, IInv, RawOK
      <4> QED BY <3>2, <4>1, <4>2, <4>3
    <3> QED BY <3>1, <3>3
  <2>4. UsesRead' /\ ScopesDeclared' /\ Constructors' /\ Stored'
    BY <2>2, <2>3, UseAdded, ReservedOnly
  <2>5. IdsApart'
    <3>1. /\ Items("types")' = Items("types") /\ \A x \in Items("types") : Ty(x)' = Ty(x)
          /\ Items("fns")' = Items("fns") /\ \A x \in Items("fns") : Fn(x)' = Fn(x)
      BY <2>2, <2>3, TypesStay, FnsStay
    <3> QED BY <2>2, <3>1 DEF PInv, IdsApart, StdIds, StdTypes
  <2> QED BY <2>2, <2>4, <2>5 DEF PInv
<1>5. CASE ReadEnd /\ ~ \E how : how # "panic" /\ End(how)
  <2>1. /\ pass = "raw" /\ outcome = "running" /\ at' = <<at[1] + 1, 1>>
        /\ UNCHANGED <<program, raw, pass, outcome, nextId, scopes, typeCons, fnTypes, buffer>>
        /\ UNCHANGED <<parents, unresolved, resolving>>
    BY <1>5 DEF ReadEnd, Reading, named, universe, ready, worklist
  <2>2. Mods' = Mods
    BY <2>1 DEF Mods
  <2>3. at' \in Nat \X Nat /\ at'[1] = at[1] + 1 /\ at[1] \in Nat
    BY <2>1 DEF PInv, UsesRead
  <2>4. ASSUME NEW m \in Mods PROVE raw'[m].uses \in Seq(Names) /\ \E g : From(m, g)'
    <3>1. PICK g : From(m, g)
      BY DEF PInv, UsesRead
    <3>2. m \in Nat
      BY ProgramsAssumption DEF PInv, IInv, RawOK, IsProgram, Mods
    <3>3. From(m, g)'
      BY <2>1, <2>3, <3>1, <3>2 DEF From
    <3> QED BY <2>1, <3>3 DEF PInv, UsesRead
  <2>5. UsesRead'
    BY <2>2, <2>3, <2>4 DEF UsesRead
  <2>6. IdsApart'
    BY <2>1, Unmoved, TypesUnmoved DEF PInv, IdsApart, StdIds, StdTypes
  <2>7. ScopesDeclared' /\ Constructors' /\ Stored'
    BY <2>1, <2>2, ReservedOnly
  <2> QED BY <2>1, <2>5, <2>6, <2>7 DEF PInv
<1> QED BY <1>1, <1>2, <1>3, <1>4, <1>5

-----------------------------------------------------------------------------
(* The scopes.                                                             *)

\* A module's own scope holds the standard types and what it declares.
LEMMA InternalDeclared ==
  ASSUME NEW m \in Mods
  PROVE  /\ Internal(m) = [types |-> Internal(m).types, fns |-> Internal(m).fns]
         /\ \A p \in DOMAIN Internal(m).types :
              /\ \E n : p = <<n>>
              /\ Internal(m).types[p] \in StdIds \cup TypeIds
         /\ \A p \in DOMAIN Internal(m).fns :
              /\ \E n : p = <<n>>
              /\ Internal(m).fns[p] \in Declared
<1> DEFINE own == [p \in OwnPaths(raw[m].types) |-> raw[m].types[p[1]].id]
<1>1. Internal(m) = [types |-> Append2(StdScope.types, own),
                     fns |-> [p \in OwnPaths(raw[m].fns) |-> raw[m].fns[p[1]].id]]
  BY DEF Internal
<1>2. ASSUME NEW p \in DOMAIN own
      PROVE  (\E n : p = <<n>>) /\ own[p] \in TypeIds
  <2>1. PICK n \in DOMAIN raw[m].types : p = <<n>>
    BY DEF OwnPaths
  <2>2. own[p] = raw[m].types[n].id
    BY <2>1
  <2>3. <<m, n>> \in Items("types") /\ Ty(<<m, n>>) = raw[m].types[n]
    BY TypesPlaced
  <2> QED BY <2>1, <2>2, <2>3 DEF TypeIds
<1>3. ASSUME NEW p \in DOMAIN StdScope.types
      PROVE  (\E n : p = <<n>>) /\ StdScope.types[p] \in StdIds
  <2>1. PICK i \in DOMAIN StdTypes : p = <<StdTypes[i]>>
    BY DEF StdScope
  <2> DEFINE k == CHOOSE j \in DOMAIN StdTypes : p = <<StdTypes[j]>>
  <2>2. k \in DOMAIN StdTypes
    BY <2>1
  <2>3. StdScope.types[p] = k - 1
    BY DEF StdScope
  <2>4. DOMAIN StdTypes = 1 .. 5 /\ Len(StdTypes) = 5
    BY DEF StdTypes
  <2> HIDE DEF k
  <2> QED BY <2>1, <2>2, <2>3, <2>4 DEF StdIds
<1>4. ASSUME NEW p \in DOMAIN Internal(m).types
      PROVE  (\E n : p = <<n>>) /\ Internal(m).types[p] \in StdIds \cup TypeIds
  <2> HIDE DEF own
  <2>1. CASE p \in DOMAIN own
    BY <1>1, <1>2, <2>1 DEF Append2
  <2>2. CASE p \notin DOMAIN own
    BY <1>1, <1>3, <1>4, <2>2 DEF Append2
  <2> QED BY <2>1, <2>2
<1>5. ASSUME NEW p \in DOMAIN Internal(m).fns
      PROVE  (\E n : p = <<n>>) /\ Internal(m).fns[p] \in Declared
  <2>1. PICK n \in DOMAIN raw[m].fns : p = <<n>>
    BY <1>1 DEF OwnPaths
  <2>2. Internal(m).fns[p] = raw[m].fns[n].id
    BY <1>1, <2>1
  <2> QED BY <2>1, <2>2 DEF Declared
<1> QED BY <1>1, <1>4, <1>5

\* An import keeps what the paths of a scope denote.
LEMMA PrefixedPaths ==
  ASSUME NEW name, NEW f, \A q \in DOMAIN f : \E n : q = <<n>>,
         NEW p \in DOMAIN Prefixed(name, f)
  PROVE  p[1] = name /\ \E q \in DOMAIN f : Prefixed(name, f)[p] = f[q]
<1>1. PICK q \in DOMAIN f : p = <<name>> \o q
  BY DEF Prefixed
<1>2. PICK n : q = <<n>>
  OBVIOUS
<1>3. p[1] = name /\ Tail(p) = q
  <2>1. PICK s, t : s = <<name>> /\ t = <<n>>
    OBVIOUS
  <2>2. /\ s \in Seq({name, n}) /\ t \in Seq({name, n})
        /\ Len(s) = 1 /\ Len(t) = 1 /\ s[1] = name /\ t[1] = n
    BY <2>1
  <2>3. PICK u : u = s \o t
    OBVIOUS
  <2>4. u \in Seq({name, n}) /\ Len(u) = 2 /\ u[1] = name /\ u[2] = n
    <3>1. /\ u \in Seq({name, n}) /\ Len(u) = Len(s) + Len(t)
          /\ \A i \in 1 .. Len(s) + Len(t) : u[i] = IF i <= Len(s) THEN s[i] ELSE t[i - Len(s)]
      BY <2>2, <2>3, ConcatProperties
    <3> QED BY <2>2, <3>1
  <2>5. u[1] = name /\ u # <<>>
    BY <2>4, EmptySeq
  <2>6. PICK v : v = Tail(u)
    OBVIOUS
  <2>7. /\ v \in Seq({name, n}) /\ Len(v) = Len(u) - 1
        /\ \A i \in 1 .. Len(v) : v[i] = u[i + 1]
    BY <2>4, <2>5, <2>6, HeadTailProperties
  <2>8. v \in Seq({name, n}) /\ Len(v) = 1 /\ v[1] = n
    BY <2>4, <2>7
  <2>9. v = t
    BY <2>2, <2>8, SeqEqual
  <2> QED BY <1>1, <1>2, <2>1, <2>3, <2>5, <2>6, <2>9
<1>4. Prefixed(name, f)[p] = f[q]
  BY <1>3 DEF Prefixed
<1> QED BY <1>3, <1>4

\* Nor does an import bring in anything that is not declared.
LEMMA ImportedDeclared ==
  ASSUME ScopesDeclared, pass # "raw", NEW m \in Mods, NEW from, from \in [DOMAIN from -> Mods]
  PROVE  /\ Imported(m, from) = [types |-> Imported(m, from).types, fns |-> Imported(m, from).fns]
         /\ \A p \in DOMAIN Imported(m, from).types :
              Imported(m, from).types[p] \in StdIds \cup TypeIds
         /\ \A p \in DOMAIN Imported(m, from).fns : Imported(m, from).fns[p] \in Declared
<1> DEFINE import == [name \in DOMAIN from |-> Imports(name, from[name])]
           Brought(part) == UNION {DOMAIN import[name][part] : name \in DOMAIN from}
           With(part) ==
             Append2(scopes[m][part], [p \in Brought(part) |-> import[p[1]][part][p]])
<1>1. Imported(m, from) = [types |-> With("types"), fns |-> With("fns")]
  BY DEF Imported
<1>2. \A name \in DOMAIN from :
        /\ from[name] \in Mods
        /\ import[name]["types"] = Prefixed(name, Internal(from[name]).types)
        /\ import[name]["fns"] = Prefixed(name, Internal(from[name]).fns)
  BY DEF Imports
<1> HIDE DEF import
<1>3. ASSUME NEW p \in Brought("types") PROVE import[p[1]]["types"][p] \in StdIds \cup TypeIds
  <2>1. PICK name \in DOMAIN from : p \in DOMAIN import[name]["types"]
    OBVIOUS
  <2> DEFINE f == Internal(from[name]).types
  <2>2. /\ \A q \in DOMAIN f : (\E n : q = <<n>>) /\ f[q] \in StdIds \cup TypeIds
        /\ import[name]["types"] = Prefixed(name, f)
    BY <1>2, InternalDeclared
  <2>3. p[1] = name /\ \E q \in DOMAIN f : Prefixed(name, f)[p] = f[q]
    <3> HIDE DEF f
    <3> QED BY <2>1, <2>2, PrefixedPaths
  <2> QED BY <2>2, <2>3
<1>4. ASSUME NEW p \in Brought("fns") PROVE import[p[1]]["fns"][p] \in Declared
  <2>1. PICK name \in DOMAIN from : p \in DOMAIN import[name]["fns"]
    OBVIOUS
  <2> DEFINE f == Internal(from[name]).fns
  <2>2. /\ \A q \in DOMAIN f : (\E n : q = <<n>>) /\ f[q] \in Declared
        /\ import[name]["fns"] = Prefixed(name, f)
    BY <1>2, InternalDeclared
  <2>3. p[1] = name /\ \E q \in DOMAIN f : Prefixed(name, f)[p] = f[q]
    <3> HIDE DEF f
    <3> QED BY <2>1, <2>2, PrefixedPaths
  <2> QED BY <2>2, <2>3
<1>5. \A p \in DOMAIN With("types") : With("types")[p] \in StdIds \cup TypeIds
  BY <1>3 DEF ScopesDeclared, Append2
<1>6. \A p \in DOMAIN With("fns") : With("fns")[p] \in Declared
  BY <1>4 DEF ScopesDeclared, Append2
<1> HIDE DEF With
<1> QED BY <1>1, <1>5, <1>6

\* Scoping the modules and following their use declarations.
LEMMA ScopesStep ==
  ASSUME PInv, pass \in {"raw", "usings"}, pass' = "usings", IInv', outcome' = "running",
         UNCHANGED <<program, at, raw, nextId, typeCons, fnTypes, buffer>>,
         UNCHANGED <<parents, unresolved, resolving>>,
         scopes' = [m \in Mods |-> scopes'[m]],
         \A m \in Mods :
           /\ scopes'[m] = [types |-> scopes'[m].types, fns |-> scopes'[m].fns]
           /\ \A p \in DOMAIN scopes'[m].types : scopes'[m].types[p] \in StdIds \cup TypeIds
           /\ \A p \in DOMAIN scopes'[m].fns : scopes'[m].fns[p] \in Declared
  PROVE  PInv'
<1>1. nextId \in Nat /\ nextId <= nextId'
  BY DEF PInv, IInv, RawOK
<1>2. /\ UsesRead' /\ IdsApart'
      /\ StdIds' = StdIds /\ TypeIds' = TypeIds /\ Declared' = Declared /\ Mods' = Mods
  BY <1>1, Fixed
<1>3. ScopesDeclared'
  BY <1>2 DEF ScopesDeclared
<1>4. Constructors'
  BY <1>2 DEF PInv, Constructors, Early, Late
<1>5. Stored'
  <2>1. None(parents) /\ None(unresolved) /\ None(resolving)
    BY DEF PInv, IInv, Reserving
  <2> QED BY <2>1 DEF PInv, Stored, Early, Late, None
<1> QED BY <1>2, <1>3, <1>4, <1>5 DEF PInv

LEMMA ScopingKeeps ==
  ASSUME PInv, IInv', ScopeInternal \/ EnterTypes \/ \E m \in Mods : MapUsings(m)
  PROVE  PInv' /\ (outcome' = "panic" => Clashes(program))
<1>1. CASE ScopeInternal
  <2>1. /\ pass = "raw" /\ pass' = "usings" /\ outcome' = "running"
        /\ UNCHANGED <<program, at, raw, nextId, typeCons, fnTypes, buffer>>
        /\ UNCHANGED <<parents, unresolved, resolving>>
        /\ scopes' = [m \in Mods |-> Internal(m)]
    BY <1>1 DEF ScopeInternal, Enter, declared, universe, ready, worklist
  <2>2. \A m \in Mods : scopes'[m] = Internal(m)
    BY <2>1
  <2>3. PInv'
    BY <2>1, <2>2, InternalDeclared, ScopesStep
  <2> QED BY <2>1, <2>3
<1>2. CASE EnterTypes
  <2>1. /\ pass = "usings" /\ pass' = "types" /\ outcome' = "running"
        /\ todo' = Items("types")
        /\ UNCHANGED <<program, at, raw, nextId, scopes, typeCons, fnTypes, buffer>>
        /\ UNCHANGED <<parents, unresolved, resolving>>
    BY <1>2 DEF EnterTypes, Enter, declared, named, universe, ready, worklist
  <2>2. nextId \in Nat /\ nextId <= nextId'
    BY <2>1 DEF PInv, IInv, RawOK
  <2>3. /\ UsesRead' /\ IdsApart'
        /\ StdIds' = StdIds /\ TypeIds' = TypeIds /\ Declared' = Declared /\ Mods' = Mods
        /\ \A part : Items(part)' = Items(part)
    BY <2>1, <2>2, Fixed
  <2>4. ScopesDeclared'
    BY <2>1, <2>3 DEF PInv, ScopesDeclared
  <2>5. Constructors'
    BY <2>1, <2>3 DEF PInv, Constructors, Early, Late
  <2>6. Stored'
    <3>1. None(parents) /\ None(unresolved) /\ None(resolving)
      BY <2>1 DEF PInv, IInv, Reserving
    <3> QED BY <2>1, <3>1 DEF PInv, Stored, Early, Late, None
  <2> QED BY <2>1, <2>3, <2>4, <2>5, <2>6 DEF PInv
<1>3. ASSUME NEW m \in Mods, MapUsings(m)
      PROVE  PInv' /\ (outcome' = "panic" => Clashes(program))
  <2> DEFINE uses == raw[m].uses
             Fails(i) == Unresolved(m, i) \/ Overwrites(m, i)
             First(i) == Fails(i) /\ \A j \in 1 .. i - 1 : ~Fails(j)
  <2>1. CASE End("UnresolvedUses")
    BY <2>1, EndKeeps
  <2>2. ASSUME NEW i \in DOMAIN uses, First(i), ~Unresolved(m, i), End("panic")
        PROVE  PInv' /\ Clashes(program)
    <3>1. PICK j \in 1 .. i - 1 : uses[j] = uses[i]
      BY <2>2 DEF Overwrites
    <3>2. i \in Nat /\ j \in DOMAIN uses /\ j # i
      <4>1. uses \in Seq(Names)
        BY DEF PInv, UsesRead
      <4> HIDE DEF uses
      <4> QED BY <2>2, <3>1, <4>1
    <3>3. PICK g : From(m, g)
      BY DEF PInv, UsesRead
    <3>4. /\ g[i] \in DOMAIN program[m].decls /\ g[j] \in DOMAIN program[m].decls /\ g[i] # g[j]
          /\ program[m].decls[g[i]].kind = "use" /\ program[m].decls[g[j]].kind = "use"
          /\ program[m].decls[g[i]].name = program[m].decls[g[j]].name
      BY <3>1, <3>2, <3>3 DEF From
    <3> QED BY <2>2, <3>4, EndKeeps DEF Clashes, Mods
  <2>3. ASSUME NEW from \in [{uses[i] : i \in DOMAIN uses} -> Mods],
               scopes' = [scopes EXCEPT ![m] = Imported(m, from)],
               UNCHANGED <<declared, pass, outcome, nextId, universe, ready, worklist>>
        PROVE  PInv' /\ outcome' = "running"
    <3>1. /\ pass = "usings" /\ pass' = "usings" /\ outcome' = "running"
          /\ UNCHANGED <<program, at, raw, nextId, typeCons, fnTypes, buffer>>
          /\ UNCHANGED <<parents, unresolved, resolving>>
      BY <1>3, <2>3 DEF MapUsings, declared, universe, ready, worklist
    <3>2. ScopesDeclared /\ from \in [DOMAIN from -> Mods]
      BY DEF PInv
    <3>3. /\ scopes' = [k \in Mods |-> scopes'[k]]
          /\ scopes'[m] = Imported(m, from)
          /\ \A k \in Mods : k # m => scopes'[k] = scopes[k]
      BY <2>3, <3>2 DEF ScopesDeclared
    <3>4. \A k \in Mods :
            /\ scopes'[k] = [types |-> scopes'[k].types, fns |-> scopes'[k].fns]
            /\ \A p \in DOMAIN scopes'[k].types : scopes'[k].types[p] \in StdIds \cup TypeIds
            /\ \A p \in DOMAIN scopes'[k].fns : scopes'[k].fns[p] \in Declared
      BY <3>1, <3>2, <3>3, ImportedDeclared DEF ScopesDeclared
    <3>5. PInv'
      BY <3>1, <3>3, <3>4, ScopesStep
    <3> QED BY <3>1, <3>5
  <2> QED BY <1>3, <2>1, <2>2, <2>3, EndKeeps DEF MapUsings
<1> QED BY <1>1, <1>2, <1>3

-----------------------------------------------------------------------------
(* The constructors.                                                       *)

\* Once the modules are scoped, the scopes stay as they are too.
LEMMA ScopesFixed ==
  ASSUME PInv, pass # "raw", pass' # "raw", UNCHANGED <<program, at, raw, scopes>>,
         nextId' \in Nat, nextId <= nextId'
  PROVE  /\ UsesRead' /\ IdsApart' /\ ScopesDeclared'
         /\ StdIds' = StdIds /\ TypeIds' = TypeIds /\ Declared' = Declared /\ Mods' = Mods
         /\ \A part : Items(part)' = Items(part)
         /\ \A x : Fn(x)' = Fn(x) /\ Ty(x)' = Ty(x)
<1>1. /\ UsesRead' /\ IdsApart'
      /\ StdIds' = StdIds /\ TypeIds' = TypeIds /\ Declared' = Declared /\ Mods' = Mods
      /\ \A part : Items(part)' = Items(part)
      /\ \A x : Fn(x)' = Fn(x) /\ Ty(x)' = Ty(x)
  BY Fixed
<1>2. ScopesDeclared'
  BY <1>1 DEF PInv, ScopesDeclared
<1> QED BY <1>1, <1>2

LEMMA TypingKeeps ==
  ASSUME PInv, IInv', EnterFns \/ \E x \in todo : MapType(x)
  PROVE  PInv' /\ outcome' # "panic"
<1>1. pass = "types" /\ outcome = "running" /\ nextId \in Nat
  BY DEF EnterFns, MapType, PInv, IInv, RawOK
<1>2. CASE EnterFns
  <2>1. /\ todo = {} /\ pass' = "fns" /\ todo' = Items("fns")
        /\ UNCHANGED <<program, at, raw, scopes, nextId, outcome, typeCons, fnTypes, fnMap>>
        /\ UNCHANGED <<buffer, parents, unresolved, resolving>>
    BY <1>2 DEF EnterFns, Enter, declared, named, universe, ready, worklist
  <2>2. /\ UsesRead' /\ IdsApart' /\ ScopesDeclared'
        /\ StdIds' = StdIds /\ TypeIds' = TypeIds /\ Declared' = Declared /\ Mods' = Mods
        /\ \A part : Items(part)' = Items(part)
    BY <1>1, <2>1, ScopesFixed
  <2>3. None(parents) /\ None(unresolved) /\ None(resolving) /\ None(fnMap)
        /\ None(buffer) /\ fnTypes = {}
    BY <1>1 DEF PInv, IInv, Reserving, Stored, Constructors, Early
  <2>4. Constructors'
    <3>1. \A i : i \in typeCons <=> i \in StdIds \cup TypeIds
      BY <1>1, <2>1 DEF PInv, Constructors, TypeIds
    <3>2. \A i : i \notin fnTypes' /\ i \notin DOMAIN fnMap'
      BY <2>1, <2>3 DEF None
    <3>3. \A x : x \notin Items("fns")' \ todo'
      BY <2>1, <2>2
    <3>4. pass' = "fns" /\ typeCons' = typeCons
      BY <2>1
    <3> QED BY <2>2, <3>1, <3>2, <3>3, <3>4 DEF Constructors, Early, Late
  <2>5. Stored'
    BY <2>1, <2>2, <2>3 DEF Stored, Early, Late, None
  <2> QED BY <1>1, <2>1, <2>2, <2>4, <2>5 DEF PInv
<1>3. ASSUME NEW x \in todo, MapType(x) PROVE PInv' /\ outcome' # "panic"
  <2>1. x \in Items("types") /\ Ty(x) = raw[x[1]].types[x[2]] /\ todo \subseteq Items("types")
    BY <1>1 DEF PInv, Constructors, Ty
  <2>2. Ty(x).id \notin typeCons
    <3>1. \A y \in Items("types") \ todo : Ty(y).id # Ty(x).id
      BY <2>1 DEF PInv, IdsApart
    <3>2. Ty(x).id \notin StdIds
      BY <2>1 DEF PInv, IdsApart
    <3> QED BY <1>1, <3>1, <3>2 DEF PInv, Constructors
  <2>3. CASE \E how : how # "panic" /\ End(how)
    BY <2>3, EndKeeps
  <2>4. CASE ~ \E how : how # "panic" /\ End(how)
    <3>1. /\ pass' = "types" /\ outcome' = "running"
          /\ typeCons' = typeCons \cup {Ty(x).id} /\ todo' = todo \ {x}
          /\ UNCHANGED <<program, at, raw, scopes, nextId, fnTypes, fnMap>>
          /\ UNCHANGED <<buffer, parents, unresolved, resolving>>
      BY <1>1, <1>3, <2>1, <2>2, <2>4 DEF MapType, declared, named, ready, worklist, Untypable
    <3>2. /\ UsesRead' /\ IdsApart' /\ ScopesDeclared'
          /\ StdIds' = StdIds /\ TypeIds' = TypeIds /\ Declared' = Declared /\ Mods' = Mods
          /\ \A part : Items(part)' = Items(part)
          /\ \A y : Fn(y)' = Fn(y) /\ Ty(y)' = Ty(y)
      BY <1>1, <3>1, ScopesFixed
    <3>3. Constructors'
      <4>1. todo' \subseteq Items("types")
        BY <2>1, <3>1
      <4>2. \A i : i \in typeCons' <=> i \in StdIds \/ \E y \in Items("types") \ todo' : i = Ty(y).id
        BY <1>1, <2>1, <3>1 DEF PInv, Constructors
      <4>3. fnTypes' = {}
        BY <1>1, <3>1 DEF PInv, Constructors, Early
      <4> QED BY <3>1, <3>2, <4>1, <4>2, <4>3 DEF Constructors, Late
    <3>4. Stored'
      BY <1>1, <3>1, <3>2 DEF PInv, Stored, Early, Late, None
    <3> QED BY <3>1, <3>2, <3>3, <3>4 DEF PInv
  <2> QED BY <2>3, <2>4
<1> QED BY <1>2, <1>3

\* A type that is named has its constructor once the types are mapped.
LEMMA TypedConstructed ==
  ASSUME PInv, pass \in {"fns"} \cup Late, NEW m \in Mods, NEW t, Typed(t, m)
  PROVE  Constructed(t, m)
<1>1. StdIds \cup TypeIds \subseteq typeCons
  BY DEF PInv, Constructors, Late
<1>2. \A p \in DOMAIN scopes[m].types : scopes[m].types[p] \in StdIds \cup TypeIds
  BY DEF PInv, ScopesDeclared, Late
<1> QED BY <1>1, <1>2 DEF Typed, Constructed

\* Ids that are handed out are not those of stored functions.
LEMMA NewIds ==
  ASSUME PInv, NEW t \in Texts, NEW first \in Nat, nextId <= first
  PROVE  \A a \in DOMAIN parents : a \notin DOMAIN Generated(t, first)
<1>1. \A a \in DOMAIN parents : a \in Nat /\ a < nextId
  BY DEF PInv, IInv, AnonsOK
<1>2. \A a \in DOMAIN Generated(t, first) : a \in Nat /\ first <= a
  BY GeneratedIds
<1>3. nextId \in Nat
  BY DEF PInv, IInv, RawOK
<1> QED BY <1>1, <1>2, <1>3

LEMMA FnPlace ==
  ASSUME NEW x \in Items("fns")
  PROVE  x[1] \in Mods /\ Fn(x).id \in Declared
<1>1. PICK m \in Mods : \E n \in DOMAIN raw[m].fns : x = <<m, n>>
  BY Placed
<1>2. x[1] = m
  BY <1>1
<1> QED BY <1>2, Placed

\* A function is entered under ids that are not taken.
LEMMA FnFresh ==
  ASSUME PInv, pass = "fns", NEW x \in todo
  PROVE  /\ x \in Items("fns")
         /\ Fn(x).type \notin typeCons /\ Fn(x).id \notin fnTypes /\ Fn(x).id \notin DOMAIN fnMap
<1>1. x \in Items("fns") /\ todo \subseteq Items("fns")
  BY DEF PInv, IInv, Generating
<1>2. Fn(x).type \notin typeCons
  <2>1. Fn(x).type \notin StdIds /\ Fn(x).type \notin TypeIds
    BY <1>1 DEF PInv, IdsApart, TypeIds
  <2>2. \A y \in Items("fns") \ todo : Fn(x).type # Fn(y).type
    BY <1>1 DEF PInv, IdsApart
  <2> QED BY <2>1, <2>2 DEF PInv, Constructors
<1>3. \A y \in Items("fns") \ todo : Fn(x).id # Fn(y).id
  BY <1>1 DEF PInv, IInv, RawOK
<1> QED BY <1>1, <1>2, <1>3 DEF PInv, Constructors

\* A function that is generated takes its constructor and stores its
\* anonymous functions.
LEMMA GeneratedKeeps ==
  ASSUME PInv, IInv', pass = "fns", pass' = "fns", NEW x \in todo, todo' = todo \ {x},
         UNCHANGED <<program, at, raw, scopes, unresolved, resolving>>,
         nextId' \in Nat, nextId <= nextId',
         typeCons' = typeCons \cup {Fn(x).type}, fnTypes' = fnTypes \cup {Fn(x).id},
         NEW fn, fnMap' = Put(fnMap, Fn(x).id, fn),
         NEW ids, fn.anons = ids, Fn(x).builtin => ids = {},
         \A a \in DOMAIN parents : a \notin ids,
         DOMAIN buffer' = DOMAIN buffer \cup ids, DOMAIN parents' = DOMAIN parents \cup ids,
         \A a \in ids : parents'[a] = Fn(x).id,
         \A a \in DOMAIN parents : parents'[a] = parents[a]
  PROVE  PInv'
<1>1. /\ UsesRead' /\ IdsApart' /\ ScopesDeclared'
      /\ StdIds' = StdIds /\ TypeIds' = TypeIds /\ Declared' = Declared /\ Mods' = Mods
      /\ \A part : Items(part)' = Items(part)
      /\ \A y : Fn(y)' = Fn(y) /\ Ty(y)' = Ty(y)
  BY ScopesFixed
<1>2. x \in Items("fns") /\ todo \subseteq Items("fns")
  BY DEF PInv, IInv, Generating
<1>3. \A y : y \in Items("fns") \ todo' <=> y \in Items("fns") \ todo \/ y = x
  BY <1>2
<1>4. DOMAIN fnMap' = DOMAIN fnMap \cup {Fn(x).id}
  BY DEF Put
<1>5. Constructors'
  <2>1. \A i : i \in typeCons' <=> \/ i \in StdIds \cup TypeIds
                                   \/ \E y \in Items("fns") \ todo' : i = Fn(y).type
    BY <1>3 DEF PInv, Constructors
  <2>2. \A i : /\ i \in fnTypes' <=> \E y \in Items("fns") \ todo' : i = Fn(y).id
               /\ i \in DOMAIN fnMap' <=> i \in fnTypes'
    BY <1>3, <1>4 DEF PInv, Constructors
  <2> QED BY <1>1, <2>1, <2>2 DEF Constructors, Early, Late
<1>6. Stored'
  <2>2. DOMAIN buffer' = DOMAIN parents'
    BY DEF PInv, Stored
  <2>3. \A a \in DOMAIN parents' : \E y \in Items("fns") : ~Fn(y).builtin /\ parents'[a] = Fn(y).id
    BY <1>2 DEF PInv, Stored
  <2>4. Anons(x)' = ids /\ \A y \in Items("fns") \ todo : Anons(y)' = Anons(y)
    <3>1. Fn(x)' = Fn(x) /\ fnMap'[Fn(x).id] = fn
      BY <1>1 DEF Put
    <3>2. Anons(x)' = ids
      BY <3>1 DEF Anons
    <3>3. ASSUME NEW y \in Items("fns") \ todo PROVE Anons(y)' = Anons(y)
      <4>1. Fn(y).id # Fn(x).id
        BY <1>2 DEF PInv, IInv, RawOK
      <4>2. Fn(y).id \in DOMAIN fnMap
        BY DEF PInv, IInv, Generating
      <4>3. fnMap'[Fn(y).id] = fnMap[Fn(y).id] /\ Fn(y)' = Fn(y)
        BY <1>1, <4>1, <4>2 DEF Put
      <4> QED BY <4>3 DEF Anons
    <3> QED BY <3>2, <3>3
  <2>5. \A y \in Items("fns") \ todo : Anons(y) \cap ids = {}
    BY DEF PInv, IInv, Generating
  <2>6. \A y, z \in Items("fns") \ todo' : y # z => Anons(y)' \cap Anons(z)' = {}
    BY <1>3, <2>4, <2>5 DEF PInv, Stored
  <2>7. /\ \A a \in DOMAIN unresolved' : unresolved'[a] \in Mods
        /\ \A a \in DOMAIN resolving' : resolving'[a] \in Mods
    BY DEF PInv, Stored
  <2> QED BY <1>1, <2>2, <2>3, <2>6, <2>7 DEF Stored, Early, Late
<1> QED BY <1>1, <1>5, <1>6 DEF PInv

LEMMA GeneratingKeeps ==
  ASSUME PInv, IInv', NEW x \in todo, GenerateFn(x) \/ GenerateBuiltin(x)
  PROVE  PInv' /\ outcome' # "panic"
<1>1. /\ outcome = "running" /\ pass = "fns" /\ nextId \in Nat
      /\ x \in Items("fns") /\ Fn(x).text \in Texts /\ Fn(x) = raw[x[1]].fns[x[2]]
      /\ x[1] \in Mods
  BY FnPlace DEF GenerateFn, GenerateBuiltin, PInv, IInv, RawOK, Generating, Fn
<1>2. /\ Fresh(Fn(x))
      /\ Typed(Fn(x).text, x[1]) => Constructed(Fn(x).text, x[1])
  BY <1>1, FnFresh, TypedConstructed DEF Fresh
<1>3. CASE \E how : how # "panic" /\ End(how)
  BY <1>3, EndKeeps
<1>4. CASE GenerateBuiltin(x) /\ ~ \E how : how # "panic" /\ End(how)
  <2> DEFINE fn == [text |-> Fn(x).text, mod |-> x[1], anons |-> {}]
  <2>1. /\ pass' = "fns" /\ todo' = todo \ {x} /\ outcome' = "running"
        /\ UNCHANGED <<program, at, raw, scopes, nextId, buffer, parents, unresolved, resolving>>
        /\ typeCons' = typeCons \cup {Fn(x).type} /\ fnTypes' = fnTypes \cup {Fn(x).id}
        /\ fnMap' = Put(fnMap, Fn(x).id, fn)
    BY <1>1, <1>2, <1>4 DEF GenerateBuiltin, Mapped, declared, named, worklist, Untypable
  <2>2. fn.anons = {}
    OBVIOUS
  <2>3. /\ nextId' \in Nat /\ nextId <= nextId'
        /\ DOMAIN buffer' = DOMAIN buffer \cup {} /\ DOMAIN parents' = DOMAIN parents \cup {}
        /\ Fn(x).builtin => {} = {}
    BY <1>1, <2>1
  <2>4. PInv'
    <3> HIDE DEF fn
    <3> QED BY <1>1, <2>1, <2>2, <2>3, GeneratedKeeps
  <2> QED BY <2>1, <2>4
<1>5. CASE GenerateFn(x) /\ ~ \E how : how # "panic" /\ End(how)
  <2> DEFINE texts == Generated(Fn(x).text, nextId)
             ids == DOMAIN texts
             fn == [text |-> Fn(x).text, mod |-> x[1], anons |-> ids]
  <2>1. \A a \in DOMAIN parents : a \notin ids
    BY <1>1, NewIds
  <2>2. ~Clash(parents, texts) /\ ~Clash(buffer, texts)
    <3>1. DOMAIN buffer = DOMAIN parents
      BY <1>1 DEF PInv, Stored
    <3> QED BY <2>1, <3>1 DEF Clash
  <2>3. /\ ~Fn(x).builtin /\ pass' = "fns" /\ todo' = todo \ {x} /\ outcome' = "running"
        /\ UNCHANGED <<program, at, raw, scopes, unresolved, resolving>>
        /\ typeCons' = typeCons \cup {Fn(x).type} /\ fnTypes' = fnTypes \cup {Fn(x).id}
        /\ fnMap' = Put(fnMap, Fn(x).id, fn)
        /\ nextId' = nextId + Len(Fn(x).text.anons)
        /\ buffer' = Append2(buffer, texts)
        /\ parents' = Append2(parents, ToAll(ids, Fn(x).id))
    <3> HIDE DEF texts
    <3>1. texts = Generated(Fn(x).text, nextId)
      BY DEF texts
    <3> QED BY <1>1, <1>2, <1>5, <2>2, <3>1 DEF GenerateFn, Mapped, declared, named, Untypable
  <2>4. fn.anons = ids
    OBVIOUS
  <2>5. nextId' \in Nat /\ nextId <= nextId'
    <3>1. Len(Fn(x).text.anons) \in Nat
      BY <1>1, GeneratedIds
    <3>2. \A k \in Nat : nextId + k \in Nat /\ nextId <= nextId + k
      BY <1>1
    <3> QED BY <2>3, <3>1, <3>2
  <2>6. /\ DOMAIN buffer' = DOMAIN buffer \cup ids /\ DOMAIN parents' = DOMAIN parents \cup ids
        /\ \A a \in ids : parents'[a] = Fn(x).id
        /\ \A a \in DOMAIN parents : parents'[a] = parents[a]
    BY <2>1, <2>3 DEF Append2, ToAll
  <2>7. PInv'
    <3> HIDE DEF fn, texts
    <3> QED BY <1>1, <2>1, <2>3, <2>4, <2>5, <2>6, GeneratedKeeps
  <2> QED BY <2>3, <2>7
<1> QED BY <1>3, <1>4, <1>5

-----------------------------------------------------------------------------
(* The analysis of the functions and the rounds.                           *)

\* What is named in a function that the checks accept has its constructor.
LEMMA AcceptedExpected ==
  ASSUME PInv, pass \in Late, NEW m \in Mods, NEW t, NEW anons, Accepted(t, m, anons)
  PROVE  Expected(t, m, anons)
<1>1. \A p \in t.refs : scopes[m].fns[p] \in fnTypes
  BY DEF Accepted, Resolves, PInv, ScopesDeclared, Constructors, Late
<1>2. \A a \in DOMAIN anons : Constructed(anons[a], m)
  BY TypedConstructed DEF Accepted, Annotated
<1> QED BY <1>1, <1>2 DEF Expected

\* The constructors that are there stay as more are entered.
LEMMA LateConstructors ==
  ASSUME PInv, pass \in Late, pass' \in Late, Declared' = Declared,
         StdIds' = StdIds, TypeIds' = TypeIds,
         typeCons \subseteq typeCons', fnTypes' = fnTypes,
         \A i \in typeCons' : i \in Nat /\ i < nextId'
  PROVE  Constructors'
<1>1. StdIds \cup TypeIds \subseteq typeCons /\ Declared \subseteq fnTypes
  BY DEF PInv, Constructors
<1>2. pass' \notin Early /\ pass' # "fns"
  BY DEF Early, Late
<1>3. StdIds' \cup TypeIds' \subseteq typeCons' /\ Declared' \subseteq fnTypes'
  BY <1>1
<1> QED BY <1>2, <1>3 DEF Constructors, Early

LEMMA EnterAnalysisKeeps ==
  ASSUME PInv, IInv', EnterAnalysis
  PROVE  PInv' /\ (outcome' = "panic" => Clashes(program))
<1>1. pass = "fns" /\ todo = {} /\ outcome = "running" /\ nextId \in Nat
  BY DEF EnterAnalysis, PInv, IInv, RawOK
<1>2. CASE SameName /\ End("panic")
  BY <1>2, EndKeeps DEF SameName, Clashes, Mods
<1>3. CASE ~(SameName /\ End("panic"))
  <2>1. /\ pass' = "analyze" /\ todo' = Items("fns") /\ outcome' = "running"
        /\ anonFns' = buffer /\ buffer' = Empty
        /\ UNCHANGED <<program, at, raw, scopes, nextId, typeCons, fnTypes, fnMap>>
        /\ UNCHANGED <<parents, unresolved, resolving>>
    BY <1>1, <1>3 DEF EnterAnalysis, Enter, declared, named, worklist
  <2>2. /\ UsesRead' /\ IdsApart' /\ ScopesDeclared'
        /\ StdIds' = StdIds /\ TypeIds' = TypeIds /\ Declared' = Declared /\ Mods' = Mods
        /\ \A part : Items(part)' = Items(part)
        /\ \A y : Fn(y)' = Fn(y) /\ Ty(y)' = Ty(y)
    BY <1>1, <2>1, ScopesFixed
  <2>3. Constructors'
    <3>1. \A i : i \in typeCons <=> \/ i \in StdIds \cup TypeIds
                                    \/ \E x \in Items("fns") : i = Fn(x).type
      BY <1>1 DEF PInv, Constructors
    <3>2. \A i \in StdIds : i \in Nat /\ i < nextId
      BY <1>1 DEF PInv, IdsApart, StdIds, StdTypes
    <3>3. \A i \in typeCons : i \in Nat /\ i < nextId
      BY <3>1, <3>2 DEF PInv, IdsApart, TypeIds
    <3>4. Declared \subseteq fnTypes
      BY <1>1, Placed DEF PInv, Constructors
    <3> QED BY <2>1, <2>2, <3>1, <3>3, <3>4 DEF Constructors, Early, Late
  <2>4. Stored'
    <3>1. DOMAIN anonFns' = DOMAIN parents'
      BY <1>1, <2>1 DEF PInv, Stored
    <3>2. \A x \in Items("fns") : Anons(x)' = Anons(x)
      BY <2>1, <2>2 DEF Anons
    <3>3. DOMAIN unresolved = {} /\ DOMAIN resolving = {}
      BY <1>1 DEF PInv, IInv, Generating, None
    <3>4. \A x, y \in todo' : x # y => Anons(x)' \cap Anons(y)' = {}
      BY <1>1, <2>1, <3>2 DEF PInv, Stored
    <3>5. \A x \in todo' : Anons(x)' \cap DOMAIN unresolved' = {}
      BY <2>1, <3>3
    <3>6. \A a \in DOMAIN parents' : \E x \in Items("fns")' : ~Fn(x)'.builtin /\ parents'[a] = Fn(x)'.id
      BY <2>1, <2>2 DEF PInv, Stored
    <3> QED BY <2>1, <2>2, <3>1, <3>3, <3>4, <3>5, <3>6 DEF Stored, Early
  <2> QED BY <2>1, <2>2, <2>3, <2>4 DEF PInv
<1> QED BY <1>2, <1>3

LEMMA EnterAnonymousKeeps ==
  ASSUME PInv, IInv', EnterAnonymous
  PROVE  PInv' /\ outcome' # "panic"
<1>1. /\ pass = "analyze" /\ pass' = "anonymous" /\ outcome' = "running" /\ nextId \in Nat
      /\ UNCHANGED <<program, at, raw, scopes, nextId, typeCons, fnTypes, anonFns>>
      /\ UNCHANGED <<parents, unresolved, resolving>>
  BY DEF EnterAnonymous, Enter, declared, named, universe, worklist, PInv, IInv, RawOK
<1>2. /\ UsesRead' /\ IdsApart' /\ ScopesDeclared'
      /\ StdIds' = StdIds /\ TypeIds' = TypeIds /\ Declared' = Declared /\ Mods' = Mods
      /\ \A part : Items(part)' = Items(part)
      /\ \A y : Fn(y)' = Fn(y) /\ Ty(y)' = Ty(y)
  BY <1>1, ScopesFixed
<1>3. Constructors'
  BY <1>1, <1>2, LateConstructors DEF Late, PInv, Constructors
<1>4. Stored'
  BY <1>1, <1>2 DEF PInv, Stored, Early, Late
<1> QED BY <1>1, <1>2, <1>3, <1>4 DEF PInv

\* A function that is analysed leaves its anonymous functions to the rounds;
\* they are those of no other function.
LEMMA AnalyzedKeeps ==
  ASSUME PInv, IInv', pass = "analyze", pass' = "analyze", NEW x \in todo, todo' = todo \ {x},
         UNCHANGED <<program, at, raw, scopes, nextId, typeCons, fnTypes, anonFns>>,
         UNCHANGED <<parents, resolving>>,
         NEW ids, DOMAIN unresolved' = DOMAIN unresolved \cup ids,
         \A y \in todo : y # x => ids \cap Anons(y) = {},
         \A y \in todo : y # x => fnMap'[Fn(y).id] = fnMap[Fn(y).id],
         \A a \in DOMAIN unresolved' : unresolved'[a] \in Mods
  PROVE  PInv'
<1>1. nextId' \in Nat /\ nextId <= nextId'
  BY DEF PInv, IInv, RawOK
<1>2. /\ UsesRead' /\ IdsApart' /\ ScopesDeclared'
      /\ StdIds' = StdIds /\ TypeIds' = TypeIds /\ Declared' = Declared /\ Mods' = Mods
      /\ \A part : Items(part)' = Items(part)
      /\ \A y : Fn(y)' = Fn(y) /\ Ty(y)' = Ty(y)
  BY <1>1, ScopesFixed
<1>3. Constructors'
  BY <1>2, LateConstructors DEF Late, PInv, Constructors
<1>4. Stored'
  <2>1. \A y \in todo' : Anons(y)' = Anons(y) /\ y \in todo /\ y # x
    BY <1>2 DEF Anons
  <2>2. \A y, z \in todo' : y # z => Anons(y)' \cap Anons(z)' = {}
    BY <2>1 DEF PInv, Stored
  <2>3. \A y \in todo' : Anons(y)' \cap DOMAIN unresolved' = {}
    BY <2>1 DEF PInv, Stored
  <2>4. DOMAIN anonFns' = DOMAIN parents'
    BY DEF PInv, Stored, Late
  <2>5. \A a \in DOMAIN parents' : \E y \in Items("fns")' : ~Fn(y)'.builtin /\ parents'[a] = Fn(y)'.id
    BY <1>2 DEF PInv, Stored
  <2>6. \A a \in DOMAIN resolving' : resolving'[a] \in Mods
    BY DEF PInv, Stored
  <2> QED BY <1>2, <2>2, <2>3, <2>4, <2>5, <2>6 DEF Stored, Early
<1> QED BY <1>1, <1>2, <1>3, <1>4 DEF PInv

LEMMA AnalyzingKeeps ==
  ASSUME PInv, IInv', NEW x \in todo, AnalyzeFn(x) \/ FinishBuiltin(x)
  PROVE  PInv' /\ outcome' # "panic"
<1>1. /\ outcome = "running" /\ pass = "analyze"
      /\ x \in Items("fns") /\ todo \subseteq Items("fns") /\ Fn(x) = raw[x[1]].fns[x[2]]
      /\ x[1] \in Mods /\ Fn(x).id \in DOMAIN fnMap /\ Anons(x) \subseteq DOMAIN parents
  BY FnPlace DEF AnalyzeFn, FinishBuiltin, PInv, IInv, Analyzing, Fn
<1>2. \A y \in todo : y # x => Fn(y).id # Fn(x).id
  BY <1>1 DEF PInv, IInv, RawOK
<1>3. CASE \E how : how # "panic" /\ End(how)
  BY <1>3, EndKeeps
<1>4. CASE FinishBuiltin(x)
  <2>1. /\ pass' = "analyze" /\ todo' = todo \ {x} /\ outcome' = "running"
        /\ UNCHANGED <<program, at, raw, scopes, nextId, typeCons, fnTypes, anonFns, fnMap>>
        /\ UNCHANGED <<parents, resolving, unresolved>>
    BY <1>1, <1>4 DEF FinishBuiltin, declared, named, universe, ready
  <2>2. /\ DOMAIN unresolved' = DOMAIN unresolved \cup {}
        /\ \A y \in todo : y # x => {} \cap Anons(y) = {}
        /\ \A y \in todo : y # x => fnMap'[Fn(y).id] = fnMap[Fn(y).id]
        /\ \A a \in DOMAIN unresolved' : unresolved'[a] \in Mods
    BY <2>1 DEF PInv, Stored
  <2>3. PInv'
    BY <1>1, <2>1, <2>2, AnalyzedKeeps
  <2> QED BY <2>1, <2>3
<1>5. CASE AnalyzeFn(x) /\ ~ \E how : how # "panic" /\ End(how)
  <2> DEFINE anons == [a \in Anons(x) \cap DOMAIN anonFns |-> anonFns[a]]
             new == ToAll(Anons(x), x[1])
  <2>1. Anons(x) \subseteq DOMAIN anonFns
    BY <1>1 DEF PInv, Stored, Late
  <2>2. DOMAIN new = Anons(x) /\ ~Clash(unresolved, new)
    BY <1>1 DEF ToAll, Clash, PInv, Stored
  <2>3. Accepted(Fn(x).text, x[1], anons) => Expected(Fn(x).text, x[1], anons)
    BY <1>1, AcceptedExpected DEF Late
  <2> HIDE DEF anons, new
  <2>4. /\ pass' = "analyze" /\ todo' = todo \ {x} /\ outcome' = "running"
        /\ UNCHANGED <<program, at, raw, scopes, nextId, typeCons, fnTypes, anonFns>>
        /\ UNCHANGED <<parents, resolving>>
        /\ fnMap' = Without(fnMap, Fn(x).id)
        /\ unresolved' = Append2(unresolved, new)
    <3>1. /\ anons = [a \in fnMap[Fn(x).id].anons \cap DOMAIN anonFns |-> anonFns[a]]
          /\ new = ToAll(fnMap[Fn(x).id].anons, x[1])
      BY DEF anons, new, Anons
    <3>2. ~Rejected(Fn(x).text, x[1], anons)
      BY <1>5 DEF Rejected, Untypable
    <3> QED BY <1>1, <1>5, <2>1, <2>2, <2>3, <3>1, <3>2
            DEF AnalyzeFn, Anons, declared, named, universe
  <2>5. DOMAIN unresolved' = DOMAIN unresolved \cup Anons(x)
    BY <2>2, <2>4 DEF Append2
  <2>6. \A y \in todo : y # x => Anons(x) \cap Anons(y) = {}
    BY <1>1 DEF PInv, Stored
  <2>7. \A y \in todo : y # x => fnMap'[Fn(y).id] = fnMap[Fn(y).id]
    BY <1>1, <1>2, <2>4 DEF Without, PInv, IInv, Analyzing
  <2>8. \A a \in DOMAIN unresolved' : unresolved'[a] \in Mods
    BY <1>1, <2>2, <2>4 DEF Append2, ToAll, new, PInv, Stored
  <2>9. PInv'
    BY <1>1, <2>4, <2>5, <2>6, <2>7, <2>8, AnalyzedKeeps
  <2> QED BY <2>4, <2>9
<1> QED BY <1>3, <1>4, <1>5

LEMMA StartRoundKeeps ==
  ASSUME PInv, IInv', StartRound
  PROVE  PInv' /\ outcome' # "panic"
<1>1. /\ pass = "anonymous" /\ pass' = "anonymous" /\ outcome' = "running" /\ nextId \in Nat
      /\ UNCHANGED <<program, at, raw, scopes, nextId, typeCons, fnTypes, anonFns, parents>>
      /\ resolving' = unresolved /\ unresolved' = Empty
  BY DEF StartRound, RoundOver, declared, named, universe, PInv, IInv, RawOK
<1>2. /\ UsesRead' /\ IdsApart' /\ ScopesDeclared'
      /\ StdIds' = StdIds /\ TypeIds' = TypeIds /\ Declared' = Declared /\ Mods' = Mods
      /\ \A part : Items(part)' = Items(part)
      /\ \A y : Fn(y)' = Fn(y) /\ Ty(y)' = Ty(y)
  BY <1>1, ScopesFixed
<1>3. Constructors'
  BY <1>1, <1>2, LateConstructors DEF Late, PInv, Constructors
<1>4. Stored'
  BY <1>1, <1>2 DEF PInv, Stored, Early, Late, Empty
<1> QED BY <1>1, <1>2, <1>3, <1>4 DEF PInv

\* Nothing a round expects is missing, and nothing it stores is there.
LEMMA RoundExpects ==
  ASSUME PInv, pass = "anonymous", NEW f \in DOMAIN resolving
  PROVE  /\ f \in DOMAIN anonFns /\ f \in DOMAIN parents
         /\ anonFns[f] \in Texts /\ resolving[f] \in Mods
         /\ HasLocals(parents[f]) /\ nextId \notin typeCons
         /\ \A g : DOMAIN g = DOMAIN Generated(anonFns[f], nextId + 1) =>
              ~Clash(parents, g) /\ ~Clash(anonFns, g) /\ ~Clash(unresolved, g)
<1>1. f \in DOMAIN parents /\ DOMAIN anonFns = DOMAIN parents /\ resolving[f] \in Mods
  BY DEF PInv, IInv, Resolving, Stored, Late
<1>2. anonFns[f] \in Texts
  BY <1>1 DEF PInv, IInv, AnonsOK
<1>3. HasLocals(parents[f])
  <2>1. PICK x \in Items("fns") : ~Fn(x).builtin /\ parents[f] = Fn(x).id
    BY <1>1 DEF PInv, Stored
  <2>2. PICK m \in Mods : \E n \in DOMAIN raw[m].fns : x = <<m, n>>
    BY Placed
  <2>3. PICK n \in DOMAIN raw[m].fns : x = <<m, n>>
    BY <2>2
  <2> QED BY <2>1, <2>3 DEF HasLocals, Fn
<1>4. nextId \notin typeCons
  <2>1. nextId \in Nat /\ \A i \in typeCons : i \in Nat /\ i < nextId
    BY DEF PInv, IInv, RawOK, Constructors, Late
  <2>2. ~(nextId < nextId)
    BY <2>1
  <2> QED BY <2>1, <2>2
<1>5. \A a \in DOMAIN parents : a \notin DOMAIN Generated(anonFns[f], nextId + 1)
  <2>1. nextId + 1 \in Nat /\ nextId <= nextId + 1
    BY DEF PInv, IInv, RawOK
  <2> QED BY <1>2, <2>1, NewIds
<1>6. DOMAIN unresolved \subseteq DOMAIN parents
  BY DEF PInv, IInv, Resolving
<1>7. ASSUME NEW g, DOMAIN g = DOMAIN Generated(anonFns[f], nextId + 1)
      PROVE  ~Clash(parents, g) /\ ~Clash(anonFns, g) /\ ~Clash(unresolved, g)
  BY <1>1, <1>5, <1>6, <1>7 DEF Clash
<1> QED BY <1>1, <1>2, <1>3, <1>4, <1>7

LEMMA ResolvingKeeps ==
  ASSUME PInv, IInv', NEW f \in DOMAIN resolving, ResolveAnonymousFn(f)
  PROVE  PInv' /\ outcome' # "panic"
<1> DEFINE t == anonFns[f]
           m == resolving[f]
           nested == Generated(t, nextId + 1)
           new == ToAll(DOMAIN nested, m)
<1>1. /\ outcome = "running" /\ pass = "anonymous" /\ nextId \in Nat
      /\ f \in DOMAIN anonFns /\ f \in DOMAIN parents /\ t \in Texts /\ m \in Mods
      /\ HasLocals(parents[f]) /\ nextId \notin typeCons
  BY RoundExpects DEF ResolveAnonymousFn, PInv, IInv, RawOK
<1>2. DOMAIN new = DOMAIN nested
  BY DEF ToAll
<1>3. ~Clash(parents, nested) /\ ~Clash(anonFns, nested) /\ ~Clash(unresolved, new)
  BY <1>1, <1>2, RoundExpects
<1>4. Accepted(t, m, nested) => Expected(t, m, nested)
  BY <1>1, AcceptedExpected DEF Late
<1>5. CASE \E how : how # "panic" /\ End(how)
  BY <1>5, EndKeeps
<1>6. CASE ~ \E how : how # "panic" /\ End(how)
  <2>1. /\ pass' = "anonymous" /\ outcome' = "running"
        /\ UNCHANGED <<program, at, raw, scopes, fnTypes>>
        /\ nextId' = nextId + 1 + Len(t.anons)
        /\ parents' = Append2(parents, ToAll(DOMAIN nested, parents[f]))
        /\ anonFns' = Append2(anonFns, nested)
        /\ typeCons' = typeCons \cup {nextId}
        /\ unresolved' = Append2(unresolved, new)
        /\ resolving' = Without(resolving, f)
    <3>1. ~Rejected(t, m, nested)
      BY <1>6 DEF Rejected, Untypable
    <3> HIDE DEF nested, new
    <3>2. nested = Generated(t, nextId + 1) /\ new = ToAll(DOMAIN nested, m)
      BY DEF nested, new
    <3> QED BY <1>1, <1>3, <1>4, <1>6, <3>1, <3>2
            DEF ResolveAnonymousFn, declared, named
  <2>2. nextId' \in Nat /\ nextId < nextId'
    <3>1. Len(t.anons) \in Nat
      BY <1>1, GeneratedIds
    <3>2. \A k \in Nat : nextId + 1 + k \in Nat /\ nextId < nextId + 1 + k
      BY <1>1
    <3> QED BY <2>1, <3>1, <3>2
  <2> HIDE DEF nested, new
  <2>3. /\ UsesRead' /\ IdsApart' /\ ScopesDeclared'
        /\ StdIds' = StdIds /\ TypeIds' = TypeIds /\ Declared' = Declared /\ Mods' = Mods
        /\ \A part : Items(part)' = Items(part)
        /\ \A y : Fn(y)' = Fn(y) /\ Ty(y)' = Ty(y)
    <3>1. nextId <= nextId'
      BY <1>1, <2>2
    <3> QED BY <1>1, <2>1, <2>2, <3>1, ScopesFixed
  <2>4. Constructors'
    <3>1. \A i \in typeCons : i \in Nat /\ i < nextId
      BY <1>1 DEF PInv, Constructors, Late
    <3>2. \A i \in typeCons' : i \in typeCons \/ i = nextId
      BY <2>1
    <3>3. nextId \in Nat
      BY <1>1
    <3>4. \A i \in Nat : i < nextId => i < nextId'
      BY <2>2, <3>3
    <3>5. \A i \in typeCons' : i \in Nat /\ i < nextId'
      BY <2>2, <3>1, <3>2, <3>3, <3>4
    <3> QED BY <1>1, <2>1, <2>3, <3>5, LateConstructors DEF Late
  <2>5. Stored'
    <3>1. DOMAIN anonFns = DOMAIN parents
      BY <1>1 DEF PInv, Stored, Late
    <3>2. DOMAIN anonFns' = DOMAIN parents'
      BY <2>1, <3>1 DEF Append2, ToAll
    <3>3. \A a \in DOMAIN parents' : \E b \in DOMAIN parents : parents'[a] = parents[b]
      BY <1>1, <2>1 DEF Append2, ToAll
    <3>4. \A a \in DOMAIN parents' : \E y \in Items("fns")' : ~Fn(y)'.builtin /\ parents'[a] = Fn(y)'.id
      BY <2>3, <3>3 DEF PInv, Stored
    <3>5. \A a \in DOMAIN unresolved' : unresolved'[a] \in Mods
      BY <1>1, <1>2, <2>1 DEF Append2, ToAll, new, PInv, Stored
    <3>6. \A a \in DOMAIN resolving' : resolving'[a] \in Mods
      BY <2>1 DEF Without, PInv, Stored
    <3> QED BY <2>1, <2>3, <3>2, <3>4, <3>5, <3>6 DEF Stored, Early, Late
  <2> QED BY <2>1, <2>3, <2>4, <2>5 DEF PInv
<1> QED BY <1>5, <1>6

-----------------------------------------------------------------------------
LEMMA InitKeeps == Init => PInv
<1> SUFFICES ASSUME Init PROVE PInv
  OBVIOUS
<1>1. /\ program \in Programs /\ pass = "raw" /\ outcome = "running" /\ at = <<1, 1>>
      /\ nextId = Len(StdTypes) /\ raw = [m \in Mods |-> NoDecls]
      /\ scopes = [m \in Mods |-> StdScope] /\ todo = {}
      /\ typeCons = StdIds /\ fnTypes = {} /\ anonFns = Empty
      /\ fnMap = Empty /\ buffer = Empty /\ parents = Empty
      /\ unresolved = Empty /\ resolving = Empty
  BY DEF Init, StdIds
<1>2. IInv
  BY InitWorks
<1>3. \A part : part \in {"types", "fns"} => Items(part) = {}
  <2>1. \A m \in Mods : raw[m].types = Empty /\ raw[m].fns = Empty
    BY <1>1 DEF NoDecls
  <2>2. Items("types") = {}
    BY <2>1 DEF Items, Empty
  <2>3. Items("fns") = {}
    BY <2>1 DEF Items, Empty
  <2> QED BY <2>2, <2>3
<1>4. UsesRead
  <2>1. ASSUME NEW m \in Mods PROVE raw[m].uses \in Seq(Names) /\ \E g : From(m, g)
    <3>1. raw[m].uses = <<>>
      BY <1>1 DEF NoDecls
    <3>2. raw[m].uses \in Seq(Names) /\ DOMAIN raw[m].uses = {}
      BY <3>1
    <3>3. From(m, [i \in {} |-> i])
      BY <3>2 DEF From
    <3> QED BY <3>2, <3>3
  <2> QED BY <1>1, <2>1 DEF UsesRead
<1>5. IdsApart
  BY <1>1, <1>3 DEF IdsApart, StdTypes
<1>6. ScopesDeclared
  BY <1>1 DEF ScopesDeclared
<1>7. Constructors
  BY <1>1 DEF Constructors, Early, Late
<1>8. Stored
  BY <1>1 DEF Stored, Early, Late, None, Empty
<1> QED BY <1>2, <1>4, <1>5, <1>6, <1>7, <1>8 DEF PInv

\* The program that is resolved stays what it is.
LEMMA ProgramStays ==
  ASSUME [Next]_vars
  PROVE  program' = program
<1> USE DEF End, declared
<1>1. CASE ReadType \/ ReadFn \/ ReadUse \/ ReadEnd
  BY <1>1 DEF ReadType, ReadFn, ReadUse, ReadEnd, Reserve
<1>2. CASE Passes
  BY <1>2 DEF Passes, ScopeInternal, EnterTypes, EnterFns, EnterAnalysis, EnterAnonymous
<1>3. CASE \E m \in Mods : MapUsings(m)
  BY <1>3 DEF MapUsings
<1>4. ASSUME NEW x \in todo, Work(x) PROVE program' = program
  <2>1. CASE MapType(x) \/ GenerateBuiltin(x)
    BY <2>1 DEF MapType, GenerateBuiltin, Untypable
  <2>2. CASE GenerateFn(x)
    BY <2>2 DEF GenerateFn, Untypable
  <2>3. CASE AnalyzeFn(x) \/ FinishBuiltin(x)
    BY <2>3 DEF AnalyzeFn, FinishBuiltin, Rejected, Untypable
  <2> QED BY <1>4, <2>1, <2>2, <2>3 DEF Work
<1>5. CASE StartRound \/ Finish
  BY <1>5 DEF StartRound, Finish
<1>6. ASSUME NEW f \in DOMAIN resolving, ResolveAnonymousFn(f) PROVE program' = program
  BY <1>6 DEF ResolveAnonymousFn, Rejected, Untypable
<1>7. CASE Ended \/ UNCHANGED vars
  BY <1>7 DEF Ended, vars
<1> QED BY <1>1, <1>2, <1>3, <1>4, <1>5, <1>6, <1>7 DEF Next, Step

LEMMA NextKeeps ==
  ASSUME PInv, PanicsOnlyOnClash, [Next]_vars
  PROVE  PInv' /\ PanicsOnlyOnClash'
<1>1. IInv'
  BY NextWorks, StutterWorks DEF PInv
<1>2. PInv' /\ (outcome' = "panic" => Clashes(program))
  <2>1. CASE ReadType \/ ReadFn \/ ReadUse \/ ReadEnd
    BY <1>1, <2>1, ReadKeeps
  <2>2. CASE Passes
    BY <1>1, <2>2, ScopingKeeps, TypingKeeps, EnterAnalysisKeeps, EnterAnonymousKeeps DEF Passes
  <2>3. CASE \E m \in Mods : MapUsings(m)
    BY <1>1, <2>3, ScopingKeeps
  <2>4. ASSUME NEW x \in todo, Work(x) PROVE PInv' /\ outcome' # "panic"
    BY <1>1, <2>4, TypingKeeps, GeneratingKeeps, AnalyzingKeeps DEF Work
  <2>5. CASE StartRound
    BY <1>1, <2>5, StartRoundKeeps
  <2>6. CASE Finish
    <3>1. End("ok")
      BY <2>6 DEF Finish, End
    <3> QED BY <3>1, EndKeeps
  <2>7. ASSUME NEW f \in DOMAIN resolving, ResolveAnonymousFn(f) PROVE PInv' /\ outcome' # "panic"
    BY <1>1, <2>7, ResolvingKeeps
  <2>8. CASE Ended \/ UNCHANGED vars
    <3>1. End(outcome)
      BY <2>8 DEF Ended, End, vars
    <3> QED BY <3>1, EndKeeps DEF PanicsOnlyOnClash
  <2> QED BY <2>1, <2>2, <2>3, <2>4, <2>5, <2>6, <2>7, <2>8 DEF Next, Step
<1> QED BY <1>2, ProgramStays DEF PanicsOnlyOnClash, Clashes

-----------------------------------------------------------------------------
(* The scopes.  In a program in which no name clashes the tables of the    *)
(* first pass hold what is declared, and a scope what its module and those *)
(* it uses declare.                                                        *)

\* The declarations of a module that have been read.
ReadOf(m) == {i \in DOMAIN DeclsOf(m) : pass = "raw" => m < at[1] \/ (m = at[1] /\ i < at[2])}
Of(ds, R, kinds) == {i \in R : ds[i].kind \in kinds}

\* Table f has an entry for each declaration of the kinds, which are told
\* apart by name.
Recorded(ds, R, kinds, f) ==
  /\ \A n : n \in DOMAIN f <=> \E i \in Of(ds, R, kinds) : ds[i].name = n
  /\ \A i, j \in Of(ds, R, kinds) : ds[i].name = ds[j].name => i = j
  /\ \A i \in Of(ds, R, kinds) : f[ds[i].name].text = ds[i].text
BuiltinsMarked(ds, R, f) ==
  \A i \in Of(ds, R, FnKinds) : f[ds[i].name].builtin = (ds[i].kind = "builtin")

\* The names that are used, each as often as the text uses it.
UsesRecorded(ds, R, uses) ==
  /\ uses \in Seq(Names)
  /\ \A i \in Of(ds, R, {"use"}) : \E a \in DOMAIN uses : uses[a] = ds[i].name
  /\ \A a \in DOMAIN uses : \E i \in Of(ds, R, {"use"}) : ds[i].name = uses[a]
  /\ \A i, j \in Of(ds, R, {"use"}) : i # j /\ ds[i].name = ds[j].name =>
       \E a, b \in DOMAIN uses : a # b /\ uses[a] = uses[b]

Cursor == /\ at[1] \in Nat \ {0} /\ at[2] \in Nat \ {0}
          /\ pass = "raw" => at[1] <= Len(program) + 1
ModuleRead(m) ==
  /\ Recorded(DeclsOf(m), ReadOf(m), TypeKinds, raw[m].types)
  /\ Recorded(DeclsOf(m), ReadOf(m), FnKinds, raw[m].fns)
  /\ BuiltinsMarked(DeclsOf(m), ReadOf(m), raw[m].fns)
  /\ UsesRecorded(DeclsOf(m), ReadOf(m), raw[m].uses)
  /\ (pass = "raw" => m < at[1]) => program[m].name # NoName
DeclsRead == Cursor /\ \A m \in Mods : ModuleRead(m)

\* A way to read the names a module uses, and the scope that follows from it.
Denoting(m, from) ==
  /\ from \in [{raw[m].uses[i] : i \in DOMAIN raw[m].uses} -> Mods]
  /\ \A name \in DOMAIN from : Denotes(name, from[name])
ImportOf(from) == [name \in DOMAIN from |-> Imports(name, from[name])]
BroughtIn(from, part) == UNION {DOMAIN ImportOf(from)[name][part] : name \in DOMAIN from}
Joined(m, from, part) ==
  Append2(Internal(m)[part],
          [p \in BroughtIn(from, part) |-> ImportOf(from)[p[1]][part][p]])
Followed(m) ==
  /\ \A i, j \in DOMAIN raw[m].uses : raw[m].uses[i] = raw[m].uses[j] => i = j
  /\ \E from : /\ Denoting(m, from)
               /\ scopes[m] = [types |-> Joined(m, from, "types"), fns |-> Joined(m, from, "fns")]
UsesFollowed ==
  /\ pass = "usings" => /\ todo \subseteq Mods
                        /\ \A m \in todo : scopes[m] = Internal(m)
                        /\ \A m \in Mods \ todo : Followed(m)
  /\ pass \notin {"raw", "usings"} => \A m \in Mods : Followed(m)

SInv == PInv /\ PanicsOnlyOnClash /\ DeclsRead /\ UsesFollowed

-----------------------------------------------------------------------------
(* The tables.                                                             *)

\* The declaration that is read next is recorded if it is of the kinds, and
\* none has its name.
LEMMA RecordAdded ==
  ASSUME NEW ds, NEW R, NEW kinds, NEW f, Recorded(ds, R, kinds, f),
         NEW k, k \notin R, ds[k].kind \in kinds, ds[k].name \notin DOMAIN f,
         NEW d, d.text = ds[k].text
  PROVE  Recorded(ds, R \cup {k}, kinds, Put(f, ds[k].name, d))
<1> DEFINE S == R \cup {k}
           g == Put(f, ds[k].name, d)
<1>1. /\ DOMAIN g = DOMAIN f \cup {ds[k].name} /\ g[ds[k].name] = d
      /\ \A x \in DOMAIN f : g[x] = f[x]
  BY Maps DEF Put
<1>2. \A i : i \in Of(ds, S, kinds) <=> i \in Of(ds, R, kinds) \/ i = k
  BY DEF Of
<1>3. \A i \in Of(ds, R, kinds) : ds[i].name \in DOMAIN f /\ i # k
  BY DEF Recorded, Of
<1> HIDE DEF g, S
<1>4. \A n : n \in DOMAIN g <=> \E i \in Of(ds, S, kinds) : ds[i].name = n
  BY <1>1, <1>2 DEF Recorded
<1>5. \A i, j \in Of(ds, S, kinds) : ds[i].name = ds[j].name => i = j
  BY <1>2, <1>3 DEF Recorded
<1>6. \A i \in Of(ds, S, kinds) : g[ds[i].name].text = ds[i].text
  BY <1>1, <1>2, <1>3 DEF Recorded
<1> QED BY <1>4, <1>5, <1>6 DEF Recorded, S, g

LEMMA RecordKept ==
  ASSUME NEW ds, NEW R, NEW kinds, NEW f, Recorded(ds, R, kinds, f),
         NEW k, ds[k].kind \notin kinds
  PROVE  Recorded(ds, R \cup {k}, kinds, f)
<1>1. Of(ds, R \cup {k}, kinds) = Of(ds, R, kinds)
  BY DEF Of
<1> QED BY <1>1 DEF Recorded

LEMMA BuiltinAdded ==
  ASSUME NEW ds, NEW R, NEW f, Recorded(ds, R, FnKinds, f), BuiltinsMarked(ds, R, f),
         NEW k, k \notin R, ds[k].kind \in FnKinds, ds[k].name \notin DOMAIN f,
         NEW d, d.builtin = (ds[k].kind = "builtin")
  PROVE  BuiltinsMarked(ds, R \cup {k}, Put(f, ds[k].name, d))
<1> DEFINE g == Put(f, ds[k].name, d)
<1>1. g[ds[k].name] = d /\ \A x \in DOMAIN f : g[x] = f[x]
  BY Maps DEF Put
<1>2. \A i \in Of(ds, R \cup {k}, FnKinds) : i \in Of(ds, R, FnKinds) \/ i = k
  BY DEF Of
<1>3. \A i \in Of(ds, R, FnKinds) : ds[i].name \in DOMAIN f
  BY DEF Recorded
<1> HIDE DEF g
<1>4. ASSUME NEW i \in Of(ds, R \cup {k}, FnKinds)
      PROVE  g[ds[i].name].builtin = (ds[i].kind = "builtin")
  <2>1. CASE i = k
    BY <1>1, <2>1
  <2>2. CASE i \in Of(ds, R, FnKinds)
    BY <1>1, <1>3, <2>2 DEF BuiltinsMarked
  <2> QED BY <1>2, <2>1, <2>2
<1> QED BY <1>4 DEF BuiltinsMarked, g

LEMMA UseRecorded ==
  ASSUME NEW ds, NEW R, NEW uses, UsesRecorded(ds, R, uses),
         NEW k, k \notin R, ds[k].kind = "use", ds[k].name \in Names
  PROVE  UsesRecorded(ds, R \cup {k}, Append(uses, ds[k].name))
<1> DEFINE n == ds[k].name
           t == Append(uses, n)
           e == Len(uses) + 1
<1>1. uses \in Seq(Names) /\ t \in Seq(Names)
  BY DEF UsesRecorded
<1>2. /\ e \notin DOMAIN uses /\ DOMAIN t = DOMAIN uses \cup {e}
      /\ \A i \in DOMAIN uses : t[i] = uses[i]
      /\ t[e] = n
  BY <1>1, Appended
<1>3. \A i : i \in Of(ds, R \cup {k}, {"use"}) <=> i \in Of(ds, R, {"use"}) \/ i = k
  BY DEF Of
<1>4. ds[k].name = n
  OBVIOUS
<1> HIDE DEF t, e, n
<1>5. \A i \in Of(ds, R \cup {k}, {"use"}) : \E a \in DOMAIN t : t[a] = ds[i].name
  BY <1>2, <1>3, <1>4 DEF UsesRecorded
<1>6. \A a \in DOMAIN t : \E i \in Of(ds, R \cup {k}, {"use"}) : ds[i].name = t[a]
  BY <1>2, <1>3, <1>4 DEF UsesRecorded
<1>7. ASSUME NEW i \in Of(ds, R, {"use"}), ds[i].name = n
      PROVE  \E a \in DOMAIN t : a # e /\ t[a] = t[e]
  BY <1>2, <1>7 DEF UsesRecorded
<1>8. ASSUME NEW i \in Of(ds, R \cup {k}, {"use"}), NEW j \in Of(ds, R \cup {k}, {"use"}),
             i # j, ds[i].name = ds[j].name
      PROVE  \E a, b \in DOMAIN t : a # b /\ t[a] = t[b]
  <2>1. CASE i \in Of(ds, R, {"use"}) /\ j \in Of(ds, R, {"use"})
    BY <1>2, <1>8, <2>1 DEF UsesRecorded
  <2>2. CASE i = k \/ j = k
    BY <1>2, <1>3, <1>4, <1>7, <1>8, <2>2
  <2> QED BY <1>3, <2>1, <2>2
<1> QED BY <1>1, <1>5, <1>6, <1>8 DEF UsesRecorded, t, n

LEMMA UsesUnread ==
  ASSUME NEW ds, NEW R, NEW uses, UsesRecorded(ds, R, uses), NEW k, ds[k].kind # "use"
  PROVE  UsesRecorded(ds, R \cup {k}, uses)
<1>1. Of(ds, R \cup {k}, {"use"}) = Of(ds, R, {"use"})
  BY DEF Of
<1> QED BY <1>1 DEF UsesRecorded

-----------------------------------------------------------------------------
(* Reading.                                                                *)

LEMMA ModuleNumbers ==
  ASSUME RawOK
  PROVE  /\ Len(program) \in Nat /\ Mods = 1 .. Len(program)
         /\ \A m \in Mods : m \in Nat /\ DeclsOf(m) \in Seq([kind : Kinds, name : Names, text : Texts])
         /\ \A m \in Mods : \A i \in DOMAIN DeclsOf(m) :
              /\ i \in Nat /\ i <= Len(DeclsOf(m)) /\ DeclsOf(m)[i].kind \in Kinds
              /\ DeclsOf(m)[i].name \in Names /\ DeclsOf(m)[i].text \in Texts
<1>1. program \in Seq([name : Names \cup {NoName},
                       decls : Seq([kind : Kinds, name : Names, text : Texts])])
  BY ProgramsAssumption DEF RawOK, IsProgram
<1>2. Len(program) \in Nat /\ Mods = 1 .. Len(program)
  BY <1>1 DEF Mods
<1>3. ASSUME NEW m \in Mods
      PROVE  /\ DeclsOf(m) \in Seq([kind : Kinds, name : Names, text : Texts])
             /\ \A i \in DOMAIN DeclsOf(m) :
                  /\ i \in Nat /\ i <= Len(DeclsOf(m)) /\ DeclsOf(m)[i].kind \in Kinds
                  /\ DeclsOf(m)[i].name \in Names /\ DeclsOf(m)[i].text \in Texts
  <2>1. PICK ds : ds = DeclsOf(m)
    OBVIOUS
  <2>2. ds \in Seq([kind : Kinds, name : Names, text : Texts])
    BY <2>1, DeclsAre DEF DeclsOf
  <2>3. ASSUME NEW i \in DOMAIN ds
        PROVE  i \in Nat /\ i <= Len(ds) /\ ds[i] \in [kind : Kinds, name : Names, text : Texts]
    <3>1. Len(ds) \in Nat /\ DOMAIN ds = 1 .. Len(ds)
      BY <2>2, LenProperties
    <3>2. ds[i] \in [kind : Kinds, name : Names, text : Texts]
      BY <2>2, ElementOf
    <3>3. i \in Nat /\ i <= Len(ds)
      BY <3>1
    <3> QED BY <3>2, <3>3
  <2> QED BY <2>1, <2>2, <2>3
<1>4. \A m \in Mods : m \in Nat
  BY <1>2
<1> QED BY <1>2, <1>3, <1>4, Zenon

\* One declaration more has been read.
LEMMA ReadsOn ==
  ASSUME RawOK, Cursor, at \in Nat \X Nat, pass = "raw", UNCHANGED <<program, pass>>,
         NEW m \in Mods, m = at[1], at[2] \in DOMAIN DeclsOf(m), at' = [at EXCEPT ![2] = @ + 1]
  PROVE  /\ ReadOf(m)' = ReadOf(m) \cup {at[2]} /\ at[2] \notin ReadOf(m)
         /\ \A k \in Mods : k # m => ReadOf(k)' = ReadOf(k)
         /\ Cursor' /\ at'[1] = at[1] /\ \A k : DeclsOf(k)' = DeclsOf(k)
<1>1. at'[1] = at[1] /\ at'[2] = at[2] + 1 /\ at[1] \in Nat /\ at[2] \in Nat
  OBVIOUS
<1>2. \A k : DeclsOf(k)' = DeclsOf(k)
  BY DEF DeclsOf
<1>3. \A i \in DOMAIN DeclsOf(m) : i \in Nat
  BY ModuleNumbers
<1>4. \A i : i \in ReadOf(m)' <=> i \in DOMAIN DeclsOf(m) /\ i < at[2] + 1
  BY <1>1, <1>2 DEF ReadOf
<1>5. \A i : i \in ReadOf(m) <=> i \in DOMAIN DeclsOf(m) /\ i < at[2]
  BY <1>1 DEF ReadOf
<1>6. \A i \in DOMAIN DeclsOf(m) : i < at[2] + 1 <=> i < at[2] \/ i = at[2]
  BY <1>1, <1>3
<1>7. ReadOf(m)' = ReadOf(m) \cup {at[2]} /\ at[2] \notin ReadOf(m)
  BY <1>1, <1>4, <1>5, <1>6
<1>8. \A k \in Mods : k # m => ReadOf(k)' = ReadOf(k)
  BY <1>1, <1>2 DEF ReadOf
<1>9. Cursor'
  BY <1>1 DEF Cursor
<1> QED BY <1>1, <1>2, <1>7, <1>8, <1>9

\* What a step does with one declaration it does with all that are read.
LEMMA ReadModule ==
  ASSUME RawOK, DeclsRead, at \in Nat \X Nat, pass = "raw", UNCHANGED <<program, pass>>,
         NEW m \in Mods, m = at[1], at[2] \in DOMAIN DeclsOf(m), at' = [at EXCEPT ![2] = @ + 1],
         \A k \in Mods : k # m => raw'[k] = raw[k],
         LET ds == DeclsOf(m)
             R == ReadOf(m) \cup {at[2]}
         IN  /\ Recorded(ds, R, TypeKinds, raw'[m].types)
             /\ Recorded(ds, R, FnKinds, raw'[m].fns)
             /\ BuiltinsMarked(ds, R, raw'[m].fns)
             /\ UsesRecorded(ds, R, raw'[m].uses)
  PROVE  DeclsRead'
<1>1. Mods' = Mods
  BY DEF Mods
<1>2. Cursor
  BY DEF DeclsRead
<1>3. /\ ReadOf(m)' = ReadOf(m) \cup {at[2]}
      /\ \A k \in Mods : k # m => ReadOf(k)' = ReadOf(k)
      /\ Cursor' /\ at'[1] = at[1] /\ \A k : DeclsOf(k)' = DeclsOf(k)
  BY <1>2, ReadsOn
<1>4. ModuleRead(m)'
  <2>1. ~(m < at'[1])
    BY <1>3, ModuleNumbers
  <2> QED BY <1>3, <2>1 DEF ModuleRead
<1>5. ASSUME NEW k \in Mods, k # m PROVE ModuleRead(k)'
  <2>1. ModuleRead(k)
    BY DEF DeclsRead
  <2>2. DeclsOf(k)' = DeclsOf(k) /\ ReadOf(k)' = ReadOf(k) /\ raw'[k] = raw[k] /\ at'[1] = at[1]
    BY <1>3, <1>5
  <2> QED BY <2>1, <2>2 DEF ModuleRead
<1> QED BY <1>1, <1>3, <1>4, <1>5 DEF DeclsRead

LEMMA DeclsStay ==
  ASSUME DeclsRead, UNCHANGED <<program, at, raw>>, pass' = pass \/ (pass # "raw" /\ pass' # "raw")
  PROVE  DeclsRead'
<1>1. Mods' = Mods /\ \A m : DeclsOf(m)' = DeclsOf(m)
  BY DEF Mods, DeclsOf
<1>2. \A m : ReadOf(m)' = ReadOf(m)
  BY <1>1 DEF ReadOf
<1>3. Cursor'
  BY DEF DeclsRead, Cursor
<1>4. ASSUME NEW m \in Mods PROVE ModuleRead(m)'
  <2>1. ModuleRead(m)
    BY DEF DeclsRead
  <2> QED BY <1>1, <1>2, <2>1 DEF ModuleRead
<1> QED BY <1>1, <1>3, <1>4 DEF DeclsRead

\* The kinds are apart.
LEMMA KindsApart ==
  ASSUME NEW k
  PROVE  /\ k \in TypeKinds => k \notin FnKinds /\ k # "use" /\ k \in {"struct", "opaque"}
         /\ k \in FnKinds => k \notin TypeKinds /\ k # "use"
         /\ k = "use" => k \notin FnKinds /\ k \notin TypeKinds
         /\ k \in Kinds => k \in TypeKinds \/ k \in FnKinds \/ k = "use"
  BY DEF TypeKinds, FnKinds, Kinds

\* A declaration that is read is recorded.
LEMMA ReadRecords ==
  ASSUME PInv, DeclsRead, ReadType \/ ReadFn \/ ReadUse \/ ReadEnd
  PROVE  DeclsRead'
<1> DEFINE m == at[1]
           k == at[2]
           ds == DeclsOf(m)
           R == ReadOf(m)
<1>1. CASE \E how : End(how)
  BY <1>1, DeclsStay DEF End, declared
<1>2. RawOK /\ Cursor /\ at \in Nat \X Nat /\ \A j \in Mods : ModuleRead(j)
  BY DEF PInv, IInv, UsesRead, DeclsRead
<1>3. ASSUME NEW kinds, Reads(kinds)
      PROVE  /\ m \in Mods /\ pass = "raw" /\ k \in DOMAIN ds /\ k \notin R
             /\ Decl = ds[k] /\ ds[k].kind \in kinds /\ ds[k].name \in Names
  <2>1. /\ m \in Mods /\ pass = "raw" /\ k \in DOMAIN ds
        /\ Decl = ds[k] /\ ds[k].kind \in kinds /\ ds[k].name \in Names
    BY <1>2, <1>3, DeclRead DEF DeclsOf
  <2>2. k \notin R
    BY <1>2, <2>1 DEF ReadOf
  <2> QED BY <2>1, <2>2
<1>4. ASSUME NEW r, NEW ids, Reserve(r, ids), m \in Mods
      PROVE  /\ UNCHANGED <<program, pass>> /\ at' = [at EXCEPT ![2] = @ + 1]
             /\ raw'[m] = r /\ \A j \in Mods : j # m => raw'[j] = raw[j]
  BY <1>2, <1>4 DEF Reserve, RawOK
<1>5. ASSUME m \in Mods
      PROVE  /\ raw[m] = [types |-> raw[m].types, fns |-> raw[m].fns, uses |-> raw[m].uses]
             /\ Recorded(ds, R, TypeKinds, raw[m].types)
             /\ Recorded(ds, R, FnKinds, raw[m].fns)
             /\ BuiltinsMarked(ds, R, raw[m].fns)
             /\ UsesRecorded(ds, R, raw[m].uses)
  BY <1>2, <1>5 DEF RawOK, ModuleRead
<1>6. CASE ReadType /\ ~ \E how : End(how)
  <2> DEFINE d == [id |-> nextId, text |-> Decl.text]
             r == [raw[m] EXCEPT !.types = Put(@, Decl.name, d)]
  <2>1. /\ Reads({"struct", "opaque"}) /\ Decl.name \notin DOMAIN raw[m].types /\ Reserve(r, 1)
    BY <1>6 DEF ReadType
  <2>2. /\ m \in Mods /\ pass = "raw" /\ k \in DOMAIN ds /\ k \notin R /\ Decl = ds[k]
        /\ ds[k].kind \in TypeKinds /\ d.text = ds[k].text
    BY <1>3, <2>1 DEF TypeKinds
  <2>3. /\ UNCHANGED <<program, pass>> /\ at' = [at EXCEPT ![2] = @ + 1]
        /\ raw'[m] = r /\ \A j \in Mods : j # m => raw'[j] = raw[j]
    BY <1>4, <2>1, <2>2
  <2> HIDE DEF d
  <2>4. /\ raw'[m].types = Put(raw[m].types, ds[k].name, d)
        /\ raw'[m].fns = raw[m].fns /\ raw'[m].uses = raw[m].uses
    BY <1>5, <2>2, <2>3
  <2> HIDE DEF m, k, ds, R, r
  <2>5. Recorded(ds, R \cup {k}, TypeKinds, raw'[m].types)
    BY <1>5, <2>1, <2>2, <2>4, RecordAdded
  <2>6. /\ Recorded(ds, R \cup {k}, FnKinds, raw'[m].fns)
        /\ UsesRecorded(ds, R \cup {k}, raw'[m].uses)
    BY <1>5, <2>2, <2>4, KindsApart, RecordKept, UsesUnread
  <2>7. BuiltinsMarked(ds, R \cup {k}, raw'[m].fns)
    BY <1>5, <2>2, <2>4, KindsApart DEF BuiltinsMarked, Of
  <2> QED BY <1>2, <2>2, <2>3, <2>5, <2>6, <2>7, ReadModule DEF m, k, ds, R
<1>7. CASE ReadFn /\ ~ \E how : End(how)
  <2> DEFINE d == [id |-> nextId, type |-> nextId + 1, text |-> Decl.text,
                   builtin |-> Decl.kind = "builtin"]
             r == [raw[m] EXCEPT !.fns = Put(@, Decl.name, d)]
  <2>1. /\ Reads({"fn", "builtin"}) /\ Decl.name \notin DOMAIN raw[m].fns /\ Reserve(r, 2)
    BY <1>7 DEF ReadFn
  <2>2. /\ m \in Mods /\ pass = "raw" /\ k \in DOMAIN ds /\ k \notin R /\ Decl = ds[k]
        /\ ds[k].kind \in FnKinds /\ d.text = ds[k].text /\ d.builtin = (ds[k].kind = "builtin")
    BY <1>3, <2>1 DEF FnKinds
  <2>3. /\ UNCHANGED <<program, pass>> /\ at' = [at EXCEPT ![2] = @ + 1]
        /\ raw'[m] = r /\ \A j \in Mods : j # m => raw'[j] = raw[j]
    BY <1>4, <2>1, <2>2
  <2> HIDE DEF d
  <2>4. /\ raw'[m].fns = Put(raw[m].fns, ds[k].name, d)
        /\ raw'[m].types = raw[m].types /\ raw'[m].uses = raw[m].uses
    BY <1>5, <2>2, <2>3
  <2> HIDE DEF m, k, ds, R, r
  <2>5. Recorded(ds, R \cup {k}, FnKinds, raw'[m].fns)
    BY <1>5, <2>1, <2>2, <2>4, RecordAdded
  <2>6. /\ Recorded(ds, R \cup {k}, TypeKinds, raw'[m].types)
        /\ UsesRecorded(ds, R \cup {k}, raw'[m].uses)
    BY <1>5, <2>2, <2>4, KindsApart, RecordKept, UsesUnread
  <2>7. BuiltinsMarked(ds, R \cup {k}, raw'[m].fns)
    BY <1>5, <2>1, <2>2, <2>4, BuiltinAdded
  <2> QED BY <1>2, <2>2, <2>3, <2>5, <2>6, <2>7, ReadModule DEF m, k, ds, R
<1>8. CASE ReadUse
  <2> DEFINE r == [raw[m] EXCEPT !.uses = Append(@, Decl.name)]
  <2>1. Reads({"use"}) /\ Reserve(r, 0)
    BY <1>8 DEF ReadUse
  <2>2. /\ m \in Mods /\ pass = "raw" /\ k \in DOMAIN ds /\ k \notin R /\ Decl = ds[k]
        /\ ds[k].kind = "use" /\ ds[k].name \in Names
    BY <1>3, <2>1
  <2>3. /\ UNCHANGED <<program, pass>> /\ at' = [at EXCEPT ![2] = @ + 1]
        /\ raw'[m] = r /\ \A j \in Mods : j # m => raw'[j] = raw[j]
    BY <1>4, <2>1, <2>2
  <2>4. /\ raw'[m].uses = Append(raw[m].uses, ds[k].name)
        /\ raw'[m].fns = raw[m].fns /\ raw'[m].types = raw[m].types
    <3>1. PICK u : u = Append(raw[m].uses, Decl.name)
      OBVIOUS
    <3>2. raw'[m] = [raw[m] EXCEPT !.uses = u]
      BY <2>3, <3>1
    <3>3. /\ raw'[m].uses = u /\ raw'[m].fns = raw[m].fns /\ raw'[m].types = raw[m].types
      <4> HIDE DEF m, ds, k
      <4> QED BY <1>5, <2>2, <3>2
    <3> QED BY <2>2, <3>1, <3>3
  <2> HIDE DEF m, k, ds, R, r
  <2>5. UsesRecorded(ds, R \cup {k}, raw'[m].uses)
    BY <1>5, <2>2, <2>4, UseRecorded
  <2>6. /\ Recorded(ds, R \cup {k}, FnKinds, raw'[m].fns)
        /\ Recorded(ds, R \cup {k}, TypeKinds, raw'[m].types)
    BY <1>5, <2>2, <2>4, KindsApart, RecordKept
  <2>7. BuiltinsMarked(ds, R \cup {k}, raw'[m].fns)
    BY <1>5, <2>2, <2>4, KindsApart DEF BuiltinsMarked, Of
  <2> QED BY <1>2, <2>2, <2>3, <2>5, <2>6, <2>7, ReadModule DEF m, k, ds, R
<1>9. CASE ReadEnd /\ ~ \E how : End(how)
  <2>1. /\ pass = "raw" /\ m \in Mods /\ at' = <<m + 1, 1>> /\ k \notin DOMAIN ds
        /\ UNCHANGED <<program, raw, pass>> /\ program[m].name # NoName
    BY <1>9 DEF ReadEnd, Reading, Source, DeclsOf
  <2>2. /\ Mods' = Mods /\ \A j : DeclsOf(j)' = DeclsOf(j)
        /\ at'[1] = m + 1 /\ at'[2] = 1 /\ m \in Nat /\ k \in Nat \ {0}
    BY <1>2, <2>1 DEF Mods, DeclsOf, Cursor
  <2>3. Cursor'
    BY <1>2, <2>1, <2>2, ModuleNumbers DEF Cursor
  <2>4. ASSUME NEW i \in DOMAIN ds PROVE i < k /\ i \in Nat
    <3>1. PICK s : s = ds
      OBVIOUS
    <3>2. s \in Seq([kind : Kinds, name : Names, text : Texts])
      BY <1>2, <2>1, <3>1, ModuleNumbers
    <3>3. Len(s) \in Nat /\ DOMAIN s = 1 .. Len(s)
      BY <3>2, LenProperties
    <3>4. k \notin DOMAIN s /\ i \in DOMAIN s /\ k \in Nat \ {0}
      BY <2>1, <2>2, <3>1
    <3> QED BY <3>3, <3>4
  <2>5. ASSUME NEW j \in Mods PROVE ReadOf(j)' = ReadOf(j)
    <3>1. j \in Nat /\ (j < m + 1 <=> j < m \/ j = m)
      BY <1>2, <2>2, ModuleNumbers
    <3>2. \A i \in DOMAIN DeclsOf(j) : i \in Nat
      BY <1>2, ModuleNumbers
    <3>3. \A i \in DOMAIN DeclsOf(j) : ~(j = m + 1 /\ i < 1)
      <4>1. \A i \in DOMAIN DeclsOf(j) : ~(i < 1)
        <5>1. PICK s : s = DeclsOf(j)
          OBVIOUS
        <5>2. s \in Seq([kind : Kinds, name : Names, text : Texts])
          BY <1>2, <5>1, ModuleNumbers
        <5>3. Len(s) \in Nat /\ DOMAIN s = 1 .. Len(s)
          BY <5>2, LenProperties
        <5> QED BY <5>1, <5>3
      <4> QED BY <4>1
    <3>4. \A i : i \in ReadOf(j)' <=> i \in DOMAIN DeclsOf(j) /\ (j < m \/ j = m)
      BY <2>1, <2>2, <3>1, <3>3 DEF ReadOf
    <3>5. \A i : i \in ReadOf(j) <=> i \in DOMAIN DeclsOf(j) /\ (j < m \/ j = m)
      BY <2>1, <2>4 DEF ReadOf
    <3> QED BY <3>4, <3>5
  <2>6. ASSUME NEW j \in Mods PROVE ModuleRead(j)'
    <3>1. ModuleRead(j)
      BY <1>2
    <3>2. j < m + 1 => j < m \/ j = m
      BY <1>2, <2>2, ModuleNumbers
    <3>3. (pass' = "raw" => j < at'[1]) => program'[j].name # NoName
      BY <2>1, <2>2, <3>1, <3>2 DEF ModuleRead
    <3> QED BY <2>1, <2>2, <2>5, <3>1, <3>3 DEF ModuleRead
  <2> QED BY <2>2, <2>3, <2>6 DEF DeclsRead
<1>10. \A how : End(how) => \E h : End(h)
  OBVIOUS
<1> QED BY <1>1, <1>6, <1>7, <1>8, <1>9

\* All is read when the modules are scoped.
LEMMA AllRead ==
  ASSUME PInv, DeclsRead, ScopeInternal
  PROVE  DeclsRead'
<1>1. /\ pass = "raw" /\ pass' = "usings" /\ at[1] \notin Mods /\ UNCHANGED <<program, at, raw>>
  BY DEF ScopeInternal, Enter, declared
<1>2. RawOK /\ Cursor /\ \A m \in Mods : ModuleRead(m)
  BY DEF PInv, IInv, DeclsRead
<1>3. ASSUME NEW m \in Mods PROVE m < at[1]
  <2>1. /\ Len(program) \in Nat /\ Mods = 1 .. Len(program)
    BY <1>2, ModuleNumbers
  <2>2. at[1] \in Nat \ {0}
    BY <1>2 DEF Cursor
  <2> QED BY <1>1, <2>1, <2>2
<1>4. Mods' = Mods /\ \A m : DeclsOf(m)' = DeclsOf(m)
  BY <1>1 DEF Mods, DeclsOf
<1>5. \A m \in Mods : ReadOf(m)' = ReadOf(m)
  BY <1>1, <1>3, <1>4 DEF ReadOf
<1>6. \A m \in Mods : ModuleRead(m)'
  BY <1>1, <1>2, <1>3, <1>4, <1>5 DEF ModuleRead
<1>7. Cursor'
  BY <1>1, <1>2 DEF Cursor
<1> QED BY <1>4, <1>6, <1>7 DEF DeclsRead

-----------------------------------------------------------------------------
(* Following the use declarations.                                         *)

LEMMA ScopeStays ==
  ASSUME raw' = raw, program' = program
  PROVE  /\ Mods' = Mods /\ \A m : Internal(m)' = Internal(m)
         /\ \A m, from : Denoting(m, from)' <=> Denoting(m, from)
         /\ \A from, part : BroughtIn(from, part)' = BroughtIn(from, part)
         /\ \A m, from, part : Joined(m, from, part)' = Joined(m, from, part)
<1>1. Mods' = Mods /\ \A m : Internal(m)' = Internal(m)
  BY DEF Mods, Internal
<1>2. \A name, m : Imports(name, m)' = Imports(name, m) /\ (Denotes(name, m)' <=> Denotes(name, m))
  BY <1>1 DEF Imports, Denotes
<1>3. \A from : ImportOf(from)' = ImportOf(from)
  BY <1>2 DEF ImportOf
<1>4. \A from, part : BroughtIn(from, part)' = BroughtIn(from, part)
  BY <1>3 DEF BroughtIn
<1>5. \A m, from, part : Joined(m, from, part)' = Joined(m, from, part)
  BY <1>1, <1>3, <1>4 DEF Joined
<1>6. \A m, from : Denoting(m, from)' <=> Denoting(m, from)
  BY <1>1, <1>2 DEF Denoting
<1> QED BY <1>1, <1>4, <1>5, <1>6

LEMMA FollowedStays ==
  ASSUME raw' = raw, program' = program, NEW m, scopes'[m] = scopes[m]
  PROVE  Followed(m)' <=> Followed(m)
  BY ScopeStays DEF Followed

LEMMA UsesFollowedStay ==
  ASSUME UsesFollowed, UNCHANGED <<program, raw, scopes>>,
         \/ pass' = pass /\ (pass = "usings" => todo' = todo)
         \/ pass = "usings" /\ todo = {} /\ pass' \notin {"raw", "usings"}
         \/ pass \notin {"raw", "usings"} /\ pass' \notin {"raw", "usings"}
  PROVE  UsesFollowed'
<1>1. Mods' = Mods /\ \A m : Internal(m)' = Internal(m)
  BY ScopeStays
<1>2. \A m : Followed(m)' <=> Followed(m)
  BY FollowedStays
<1> QED BY <1>1, <1>2 DEF UsesFollowed

LEMMA UsesMapped ==
  ASSUME PInv, UsesFollowed, NEW m \in Mods, MapUsings(m)
  PROVE  UsesFollowed'
<1> DEFINE uses == raw[m].uses
<1>1. CASE \E how : End(how)
  BY <1>1, UsesFollowedStay DEF End, declared, named
<1>2. ASSUME NEW from \in [{uses[i] : i \in DOMAIN uses} -> Mods],
             \A name \in DOMAIN from : Denotes(name, from[name]),
             \A i \in DOMAIN uses : ~Overwrites(m, i),
             scopes' = [scopes EXCEPT ![m] = Imported(m, from)],
             todo' = todo \ {m}, m \in todo, pass = "usings",
             UNCHANGED <<declared, pass>>
      PROVE  UsesFollowed'
  <2>1. raw' = raw /\ program' = program /\ pass' = "usings"
    BY <1>2 DEF declared
  <2>2. todo \subseteq Mods /\ scopes[m] = Internal(m) /\ \A k \in todo : scopes[k] = Internal(k)
    BY <1>2 DEF UsesFollowed
  <2>3. Imported(m, from) = [types |-> Joined(m, from, "types"), fns |-> Joined(m, from, "fns")]
    BY <2>2 DEF Imported, Joined, ImportOf, BroughtIn
  <2>4. scopes'[m] = Imported(m, from) /\ \A k \in Mods : k # m => scopes'[k] = scopes[k]
    BY <1>2 DEF PInv, ScopesDeclared
  <2>5. \A i, j \in DOMAIN uses : uses[i] = uses[j] => i = j
    <3>1. uses \in Seq(Names)
      BY DEF PInv, UsesRead
    <3> SUFFICES ASSUME NEW i \in DOMAIN uses, NEW j \in DOMAIN uses, uses[i] = uses[j], i # j
                 PROVE  FALSE
      OBVIOUS
    <3>2. /\ \A k \in 1 .. i - 1 : uses[k] # uses[i]
          /\ \A k \in 1 .. j - 1 : uses[k] # uses[j]
      BY <1>2 DEF Overwrites
    <3> HIDE DEF uses
    <3>3. i \in Nat /\ j \in Nat /\ 1 <= i /\ 1 <= j
      BY <3>1
    <3>4. i \in 1 .. j - 1 \/ j \in 1 .. i - 1
      BY <3>3
    <3> QED BY <3>2, <3>4
  <2>6. Followed(m)'
    <3>1. Denoting(m, from)
      BY <1>2 DEF Denoting
    <3>2. Denoting(m, from)' /\ \A part : Joined(m, from, part)' = Joined(m, from, part)
      BY <2>1, <3>1, ScopeStays
    <3>3. scopes'[m] = [types |-> Joined(m, from, "types")', fns |-> Joined(m, from, "fns")']
      BY <2>3, <2>4, <3>2
    <3> HIDE DEF uses
    <3>4. \A i, j \in DOMAIN raw'[m].uses : raw'[m].uses[i] = raw'[m].uses[j] => i = j
      BY <2>1, <2>5 DEF uses
    <3> QED BY <3>2, <3>3, <3>4 DEF Followed
  <2>7. \A k \in Mods \ todo : Followed(k)'
    <3>1. \A k \in Mods \ todo : Followed(k) /\ k # m
      BY <1>2 DEF UsesFollowed
    <3> QED BY <2>1, <2>4, <3>1, FollowedStays
  <2>8. Mods' = Mods /\ \A k : Internal(k)' = Internal(k)
    BY <2>1, ScopeStays
  <2> QED BY <1>2, <2>1, <2>2, <2>4, <2>6, <2>7, <2>8 DEF UsesFollowed
<1> QED BY <1>1, <1>2 DEF MapUsings

\* What the passes and steps that remain leave as it is.
LEMMA OtherSteps ==
  ASSUME [Next]_vars
  PROVE  \/ ReadType \/ ReadFn \/ ReadUse \/ ReadEnd \/ ScopeInternal
         \/ \E m \in Mods : MapUsings(m)
         \/ /\ UNCHANGED <<program, at, raw, scopes>>
            /\ \/ pass' = pass /\ (pass = "usings" => todo' = todo)
               \/ pass = "usings" /\ todo = {} /\ pass' \notin {"raw", "usings"}
               \/ pass \notin {"raw", "usings"} /\ pass' \notin {"raw", "usings"}
<1> USE DEF End, declared, named, Enter
<1>1. CASE EnterTypes \/ EnterFns \/ EnterAnalysis \/ EnterAnonymous
  BY <1>1 DEF EnterTypes, EnterFns, EnterAnalysis, EnterAnonymous
<1>2. ASSUME NEW x \in todo, Work(x)
      PROVE  /\ UNCHANGED <<program, at, raw, scopes>>
             /\ pass \notin {"raw", "usings"} /\ pass' = pass
  <2>1. CASE MapType(x) \/ GenerateBuiltin(x)
    BY <2>1 DEF MapType, GenerateBuiltin, Untypable
  <2>2. CASE GenerateFn(x)
    BY <2>2 DEF GenerateFn, Untypable
  <2>3. CASE AnalyzeFn(x) \/ FinishBuiltin(x)
    BY <2>3 DEF AnalyzeFn, FinishBuiltin, Rejected, Untypable
  <2> QED BY <1>2, <2>1, <2>2, <2>3 DEF Work
<1>3. CASE StartRound \/ Finish
  BY <1>3 DEF StartRound, Finish, RoundOver
<1>4. ASSUME NEW f \in DOMAIN resolving, ResolveAnonymousFn(f)
      PROVE  UNCHANGED <<program, at, raw, scopes>> /\ pass = "anonymous" /\ pass' = pass
  BY <1>4 DEF ResolveAnonymousFn, Rejected, Untypable
<1>5. CASE Ended \/ UNCHANGED vars
  BY <1>5 DEF Ended, vars
<1> QED BY <1>1, <1>2, <1>3, <1>4, <1>5 DEF Next, Step, Passes

LEMMA ScopesInit == Init => SInv
<1> SUFFICES ASSUME Init PROVE SInv
  OBVIOUS
<1>1. PInv /\ PanicsOnlyOnClash
  BY InitKeeps DEF Init, PanicsOnlyOnClash
<1>2. /\ program \in Programs /\ pass = "raw" /\ at = <<1, 1>>
      /\ raw = [m \in Mods |-> NoDecls]
  BY DEF Init
<1>3. RawOK
  BY <1>1 DEF PInv, IInv
<1>4. Cursor
  BY <1>2, <1>3, ModuleNumbers DEF Cursor
<1>5. ASSUME NEW m \in Mods PROVE ModuleRead(m)
  <2>1. \A kinds : Of(DeclsOf(m), ReadOf(m), kinds) = {}
    <3>1. m \in Nat /\ ~(m < 1)
      BY <1>3, ModuleNumbers
    <3>2. PICK s : s = DeclsOf(m)
      OBVIOUS
    <3>3. s \in Seq([kind : Kinds, name : Names, text : Texts])
      BY <1>3, <3>2, ModuleNumbers
    <3>4. \A i \in DOMAIN s : ~(i < 1)
      <4>1. Len(s) \in Nat /\ DOMAIN s = 1 .. Len(s)
        BY <3>3, LenProperties
      <4> QED BY <4>1
    <3>5. ReadOf(m) = {}
      BY <1>2, <3>1, <3>2, <3>4 DEF ReadOf
    <3> QED BY <3>5 DEF Of
  <2>2. raw[m].types = Empty /\ raw[m].fns = Empty /\ raw[m].uses = <<>>
    BY <1>2 DEF NoDecls
  <2>3. DOMAIN Empty = {}
    BY DEF Empty
  <2>4. UsesRecorded(DeclsOf(m), ReadOf(m), raw[m].uses)
    <3>1. <<>> \in Seq(Names) /\ DOMAIN raw[m].uses = {}
      BY <2>2
    <3> QED BY <2>1, <2>2, <3>1 DEF UsesRecorded
  <2>5. ~(m < at[1])
    BY <1>2, <1>3, ModuleNumbers
  <2>6. Recorded(DeclsOf(m), ReadOf(m), TypeKinds, raw[m].types)
    BY <2>1, <2>2, <2>3 DEF Recorded
  <2>7. Recorded(DeclsOf(m), ReadOf(m), FnKinds, raw[m].fns)
    BY <2>1, <2>2, <2>3 DEF Recorded
  <2>8. BuiltinsMarked(DeclsOf(m), ReadOf(m), raw[m].fns)
    BY <2>1 DEF BuiltinsMarked
  <2> QED BY <1>2, <2>4, <2>5, <2>6, <2>7, <2>8 DEF ModuleRead
<1> QED BY <1>1, <1>2, <1>4, <1>5 DEF SInv, DeclsRead, UsesFollowed

LEMMA ScopesNext ==
  ASSUME SInv, [Next]_vars
  PROVE  SInv'
<1>1. PInv' /\ PanicsOnlyOnClash'
  BY NextKeeps DEF SInv
<1>2. CASE ReadType \/ ReadFn \/ ReadUse \/ ReadEnd
  <2>1. UNCHANGED <<program, pass, scopes>> /\ pass = "raw"
    BY <1>2 DEF ReadType, ReadFn, ReadUse, ReadEnd, Reads, Reading, Reserve, End, declared, named
  <2>2. UsesFollowed'
    BY <2>1 DEF UsesFollowed
  <2> QED BY <1>1, <1>2, <2>2, ReadRecords DEF SInv
<1>3. CASE ScopeInternal
  <2>1. /\ scopes' = [m \in Mods |-> Internal(m)] /\ todo' = Mods /\ pass' = "usings"
        /\ raw' = raw /\ program' = program
    BY <1>3 DEF ScopeInternal, Enter, declared
  <2>2. UsesFollowed'
    BY <2>1, ScopeStays DEF UsesFollowed
  <2> QED BY <1>1, <1>3, <2>2, AllRead DEF SInv
<1>4. ASSUME NEW m \in Mods, MapUsings(m) PROVE SInv'
  <2>1. UNCHANGED <<program, at, raw, pass>>
    BY <1>4 DEF MapUsings, End, declared
  <2> QED BY <1>1, <1>4, <2>1, UsesMapped, DeclsStay DEF SInv
<1>5. CASE /\ UNCHANGED <<program, at, raw, scopes>>
           /\ \/ pass' = pass /\ (pass = "usings" => todo' = todo)
              \/ pass = "usings" /\ todo = {} /\ pass' \notin {"raw", "usings"}
              \/ pass \notin {"raw", "usings"} /\ pass' \notin {"raw", "usings"}
  BY <1>1, <1>5, UsesFollowedStay, DeclsStay DEF SInv
<1> QED BY <1>2, <1>3, <1>4, <1>5, OtherSteps

-----------------------------------------------------------------------------
(* What the scopes hold.                                                   *)

\* The paths of a scope of its own, and those an import makes of them.
LEMMA TwoNames ==
  ASSUME NEW name, NEW n
  PROVE  LET p == <<name>> \o <<n>> IN p[1] = name /\ Len(p) = 2 /\ Tail(p) = <<n>>
<1>1. PICK s, t : s = <<name>> /\ t = <<n>>
  OBVIOUS
<1>2. /\ s \in Seq({name, n}) /\ t \in Seq({name, n})
      /\ Len(s) = 1 /\ Len(t) = 1 /\ s[1] = name /\ t[1] = n
  BY <1>1
<1>3. PICK u : u = s \o t
  OBVIOUS
<1>4. u \in Seq({name, n}) /\ Len(u) = 2 /\ u[1] = name /\ u[2] = n
  <2>1. /\ u \in Seq({name, n}) /\ Len(u) = Len(s) + Len(t)
        /\ \A i \in 1 .. Len(s) + Len(t) : u[i] = IF i <= Len(s) THEN s[i] ELSE t[i - Len(s)]
    BY <1>2, <1>3, ConcatProperties
  <2> QED BY <1>2, <2>1
<1>5. u # <<>>
  <2>1. Len(<<>>) = 0
    OBVIOUS
  <2> QED BY <1>4, <2>1
<1>6. PICK v : v = Tail(u)
  OBVIOUS
<1>7. /\ v \in Seq({name, n}) /\ Len(v) = Len(u) - 1
      /\ \A i \in 1 .. Len(v) : v[i] = u[i + 1]
  BY <1>4, <1>5, <1>6, HeadTailProperties
<1>8. v \in Seq({name, n}) /\ Len(v) = 1 /\ v[1] = n
  BY <1>4, <1>7
<1>9. v = t
  BY <1>2, <1>8, SeqEqual
<1> QED BY <1>1, <1>3, <1>4, <1>6, <1>9

LEMMA NamesRecorded ==
  ASSUME DeclsRead, pass # "raw", NEW m \in Mods
  PROVE  /\ \A n : n \in DOMAIN raw[m].types <=> n \in NamesOf(m, TypeKinds)
         /\ \A n : n \in DOMAIN raw[m].fns <=> n \in NamesOf(m, FnKinds)
         /\ \A n : n \in NamesOf(m, {"use"}) <=> n \in {raw[m].uses[i] : i \in DOMAIN raw[m].uses}
<1>1. \A kinds, i : i \in Of(DeclsOf(m), ReadOf(m), kinds) <=> i \in Chosen(m, kinds)
  BY DEF Of, ReadOf, Chosen
<1>2. \A kinds, n : n \in NamesOf(m, kinds) <=>
        \E i \in Of(DeclsOf(m), ReadOf(m), kinds) : DeclsOf(m)[i].name = n
  BY <1>1 DEF NamesOf
<1>3. ModuleRead(m)
  BY DEF DeclsRead
<1>4. \A n : n \in NamesOf(m, {"use"}) <=> \E i \in DOMAIN raw[m].uses : raw[m].uses[i] = n
  BY <1>2, <1>3 DEF ModuleRead, UsesRecorded
<1> QED BY <1>2, <1>3, <1>4 DEF ModuleRead, Recorded

\* A module's own scope.
LEMMA OwnScope ==
  ASSUME DeclsRead, pass # "raw", NEW m \in Mods
  PROVE  /\ DOMAIN Internal(m).types = Here(m, TypeKinds, DOMAIN StdScope.types)
         /\ DOMAIN Internal(m).fns = Here(m, FnKinds, {})
<1>1. DOMAIN Internal(m).types = DOMAIN StdScope.types \cup OwnPaths(raw[m].types)
  BY DEF Internal, Append2
<1>2. DOMAIN Internal(m).fns = OwnPaths(raw[m].fns)
  BY DEF Internal
<1>3. OwnPaths(raw[m].types) = {<<n>> : n \in NamesOf(m, TypeKinds)}
  BY NamesRecorded DEF OwnPaths
<1>4. OwnPaths(raw[m].fns) = {<<n>> : n \in NamesOf(m, FnKinds)}
  BY NamesRecorded DEF OwnPaths
<1> QED BY <1>1, <1>2, <1>3, <1>4 DEF Here

\* What the use declarations bring in.
Brings(from, part) ==
  \A name \in DOMAIN from : \A q \in DOMAIN Internal(from[name])[part] : \A p :
    p = <<name>> \o q =>
      /\ p \in BroughtIn(from, part) /\ p[1] = name /\ Len(p) = 2 /\ Tail(p) = q
      /\ ImportOf(from)[p[1]][part][p] = Internal(from[name])[part][q]
BringsOnly(from, part) ==
  \A p \in BroughtIn(from, part) :
    \E name \in DOMAIN from : \E q \in DOMAIN Internal(from[name])[part] : p = <<name>> \o q

LEMMA BroughtPaths ==
  ASSUME NEW m \in Mods, NEW from, Denoting(m, from), NEW part \in {"types", "fns"}
  PROVE  Brings(from, part) /\ BringsOnly(from, part)
<1>1. ASSUME NEW name \in DOMAIN from
      PROVE  /\ ImportOf(from)[name][part] = Prefixed(name, Internal(from[name])[part])
             /\ \A q \in DOMAIN Internal(from[name])[part] : \E n : q = <<n>>
  <2>1. from[name] \in Mods
    BY DEF Denoting
  <2> QED BY <2>1, InternalDeclared DEF ImportOf, Imports
<1>2. ASSUME NEW name \in DOMAIN from, NEW q \in DOMAIN Internal(from[name])[part],
             NEW p, p = <<name>> \o q
      PROVE  /\ p \in BroughtIn(from, part) /\ p[1] = name /\ Len(p) = 2 /\ Tail(p) = q
             /\ ImportOf(from)[p[1]][part][p] = Internal(from[name])[part][q]
  <2> DEFINE f == Internal(from[name])[part]
  <2>1. PICK n : q = <<n>>
    BY <1>1
  <2>2. p[1] = name /\ Len(p) = 2 /\ Tail(p) = q
    BY <1>2, <2>1, TwoNames
  <2>3. ImportOf(from)[name][part] = Prefixed(name, f)
    BY <1>1
  <2>4. p \in DOMAIN Prefixed(name, f) /\ Prefixed(name, f)[p] = f[q]
    <3> HIDE DEF f
    <3>1. q \in DOMAIN f
      BY DEF f
    <3> QED BY <1>2, <2>2, <3>1 DEF Prefixed
  <2> QED BY <2>2, <2>3, <2>4 DEF BroughtIn
<1>3. ASSUME NEW p \in BroughtIn(from, part)
      PROVE  \E name \in DOMAIN from : \E q \in DOMAIN Internal(from[name])[part] : p = <<name>> \o q
  <2>1. PICK name \in DOMAIN from : p \in DOMAIN ImportOf(from)[name][part]
    BY DEF BroughtIn
  <2>2. p \in DOMAIN Prefixed(name, Internal(from[name])[part])
    BY <1>1, <2>1
  <2> QED BY <2>2 DEF Prefixed
<1>4. Brings(from, part)
  BY <1>2 DEF Brings
<1>5. BringsOnly(from, part)
  BY <1>3 DEF BringsOnly
<1> QED BY <1>4, <1>5

\* Both parts of a scope are as visible as the text has them.

LEMMA PartVisible ==
  ASSUME DeclsRead, pass # "raw", ~Clashes(program), NEW m \in Mods, NEW from, Denoting(m, from),
         NEW part \in {"types", "fns"}, NEW kinds, NEW given,
         \A d \in Mods : DOMAIN Internal(d)[part] = Here(d, kinds, given),
         NEW scope, scope = Joined(m, from, part)
  PROVE  /\ DOMAIN scope = Visible(m, kinds, given)
         /\ \A p \in DOMAIN scope : scope[p] = IdOf(p, m, part)
<1>a. Brings(from, part) /\ BringsOnly(from, part)
  BY BroughtPaths, Zenon
<1>1. /\ DOMAIN from = NamesOf(m, {"use"})
      /\ \A name \in DOMAIN from : from[name] \in Mods /\ program[from[name]].name = name
  BY NamesRecorded DEF Denoting, Denotes
<1>2. \A d, e \in Mods : program[d].name = program[e].name => d = e
  BY DEF Clashes, Mods
<1>3. DOMAIN scope = Here(m, kinds, given) \cup BroughtIn(from, part)
  BY DEF Joined, Append2
<1>4. ASSUME NEW p
      PROVE  p \in BroughtIn(from, part) <=>
               \E d \in UsedBy(m) : \E q \in Here(d, kinds, given) : p = <<program[d].name>> \o q
  <2>1. ASSUME p \in BroughtIn(from, part)
        PROVE  \E d \in UsedBy(m) : \E q \in Here(d, kinds, given) : p = <<program[d].name>> \o q
    <3>1. PICK name \in DOMAIN from : \E q \in DOMAIN Internal(from[name])[part] : p = <<name>> \o q
      BY <2>1, <1>a DEF BringsOnly
    <3>2. from[name] \in UsedBy(m) /\ program[from[name]].name = name
      BY <1>1 DEF UsedBy
    <3> QED BY <1>1, <3>1, <3>2
  <2>2. ASSUME NEW d \in UsedBy(m), NEW q \in Here(d, kinds, given), p = <<program[d].name>> \o q
        PROVE  p \in BroughtIn(from, part)
    <3>1. d \in Mods /\ program[d].name \in DOMAIN from
      BY <1>1 DEF UsedBy
    <3>2. from[program[d].name] = d
      BY <1>1, <1>2, <3>1
    <3>3. q \in DOMAIN Internal(from[program[d].name])[part]
      BY <3>1, <3>2
    <3> QED BY <2>2, <3>1, <3>3, <1>a, ZenonT(30) DEF Brings
  <2> QED BY <2>1, <2>2
<1>5. DOMAIN scope = Visible(m, kinds, given)
  <2>1. \A p : p \in Visible(m, kinds, given) <=>
          \/ p \in Here(m, kinds, given)
          \/ \E d \in UsedBy(m) : \E q \in Here(d, kinds, given) : p = <<program[d].name>> \o q
    BY DEF Visible
  <2> QED BY <1>3, <1>4, <2>1
<1>6. ASSUME NEW p \in BroughtIn(from, part) PROVE scope[p] = IdOf(p, m, part)
  <2>1. PICK name \in DOMAIN from : \E q \in DOMAIN Internal(from[name])[part] : p = <<name>> \o q
    BY <1>a DEF BringsOnly
  <2>2. PICK q \in DOMAIN Internal(from[name])[part] : p = <<name>> \o q
    BY <2>1
  <2>a. \A u : u = <<name>> \o q =>
          /\ u \in BroughtIn(from, part) /\ u[1] = name /\ Len(u) = 2 /\ Tail(u) = q
          /\ ImportOf(from)[u[1]][part][u] = Internal(from[name])[part][q]
    BY <1>a, ZenonT(30) DEF Brings
  <2>3. /\ p[1] = name /\ Len(p) = 2 /\ Tail(p) = q
        /\ ImportOf(from)[p[1]][part][p] = Internal(from[name])[part][q]
    BY <2>2, <2>a, ZenonT(30)
  <2>4. scope[p] = ImportOf(from)[p[1]][part][p]
    BY DEF Joined, Append2
  <2> DEFINE d == CHOOSE e \in Mods : program[e].name = p[1]
  <2>5. d = from[name]
    BY <1>1, <1>2, <2>3
  <2>6. IdOf(p, m, part) = Internal(d)[part][Tail(p)]
    BY <2>3 DEF IdOf
  <2> HIDE DEF d
  <2> QED BY <2>3, <2>4, <2>5, <2>6
<1>7. ASSUME NEW p \in DOMAIN scope, p \notin BroughtIn(from, part)
      PROVE  scope[p] = IdOf(p, m, part)
  <2>1. p \in DOMAIN Internal(m)[part] /\ scope[p] = Internal(m)[part][p]
    BY <1>7 DEF Joined, Append2
  <2>2. Len(p) = 1
    BY <2>1, InternalDeclared
  <2> QED BY <2>1, <2>2 DEF IdOf
<1> QED BY <1>5, <1>6, <1>7

LEMMA ScopesAreVisible ==
  ASSUME SInv
  PROVE  ScopesVisible
<1> SUFFICES ASSUME pass \notin {"raw", "usings"}, ~Clashes(program), NEW m \in Mods
             PROVE  /\ DOMAIN scopes[m].types = VisibleTypes(m) /\ DOMAIN scopes[m].fns = VisibleFns(m)
                    /\ \A part \in {"types", "fns"} :
                         \A p \in DOMAIN scopes[m][part] : scopes[m][part][p] = IdOf(p, m, part)
  BY DEF ScopesVisible
<1>1. DeclsRead /\ pass # "raw" /\ Followed(m)
  BY DEF SInv, UsesFollowed
<1>2. PICK from : /\ Denoting(m, from)
                  /\ scopes[m] = [types |-> Joined(m, from, "types"), fns |-> Joined(m, from, "fns")]
  BY <1>1 DEF Followed
<1>3. /\ \A d \in Mods : DOMAIN Internal(d)["types"] = Here(d, TypeKinds, DOMAIN StdScope.types)
      /\ \A d \in Mods : DOMAIN Internal(d)["fns"] = Here(d, FnKinds, {})
  BY <1>1, OwnScope
<1>4. /\ DOMAIN scopes[m]["types"] = VisibleTypes(m)
      /\ \A p \in DOMAIN scopes[m]["types"] : scopes[m]["types"][p] = IdOf(p, m, "types")
  <2>1. scopes[m]["types"] = Joined(m, from, "types")
    BY <1>2
  <2> QED BY <1>1, <1>2, <1>3, <2>1, PartVisible DEF VisibleTypes
<1>5. /\ DOMAIN scopes[m]["fns"] = VisibleFns(m)
      /\ \A p \in DOMAIN scopes[m]["fns"] : scopes[m]["fns"][p] = IdOf(p, m, "fns")
  <2>1. scopes[m]["fns"] = Joined(m, from, "fns")
    BY <1>2
  <2> QED BY <1>1, <1>2, <1>3, <2>1, PartVisible DEF VisibleFns
<1> QED BY <1>4, <1>5

\* For any program without clashing names, whatever order the hash maps give
\* the modules and their use declarations, the scopes of scope_raw_data_internal
\* and map_usings hold just the paths the text makes visible, each with the id
\* of the declaration it names.
THEOREM ScopesAreOfText == Spec => []ScopesVisible
<1>1. SInv /\ [Next]_vars => SInv'
  BY ScopesNext
<1>2. SInv => ScopesVisible
  BY ScopesAreVisible
<1> QED BY ScopesInit, <1>1, <1>2, PTL DEF Spec

-----------------------------------------------------------------------------
(* The verdict and the anonymous functions.  Whatever a pass has gone over *)
(* has passed its checks, an error is a flaw of the text, and the          *)
(* functions found so far are at different places of the text, at all      *)
(* those next to an analysed one.                                          *)

\* The anonymous functions in the body of a declared one, the storage they
\* are kept in, and whether the body has been read.
Mine(x) == {f \in DOMAIN parents : parents[f] = Fn(x).id}
Kept == IF pass \in Late THEN anonFns ELSE buffer
Begun(x) == pass \in Late \/ (pass = "fns" /\ x \notin todo)

\* What the passes check of the text of a function.
Fine(t, m) == Typed(t, m) /\ Resolves(t, m) /\ t.graph /\ t.body = "ok"
Entered(x) == Typed(Fn(x).text, x[1]) /\ (Fn(x).builtin \/ Fn(x).text.graph)
Analyzed(x) ==
  /\ finished[Fn(x).id] = Fn(x).text
  /\ Fn(x).builtin \/ (Resolves(Fn(x).text, x[1]) /\ Fn(x).text.body = "ok")

TypesChecked ==
  /\ pass = "types" => \A x \in Items("types") \ todo : Typed(Ty(x).text, x[1])
  /\ pass \in {"fns"} \cup Late => \A x \in Items("types") : Typed(Ty(x).text, x[1])
FnsChecked ==
  /\ pass = "fns" => \A x \in Items("fns") \ todo : Entered(x)
  /\ pass \in Late => \A x \in Items("fns") : Entered(x)
  /\ pass = "analyze" => \A x \in Items("fns") \ todo : Analyzed(x)
  /\ pass = "anonymous" => \A x \in Items("fns") : Analyzed(x)

\* An anonymous function goes with the module and the function it is in.
AnonsMine ==
  /\ pass = "fns" => \A x \in Items("fns") \ todo : Anons(x) \subseteq Mine(x)
  /\ pass = "analyze" => \A x \in todo : Anons(x) \subseteq Mine(x)
InModule(f, m) ==
  /\ f \in DOMAIN unresolved => unresolved[f] = m
  /\ f \in DOMAIN resolving => resolving[f] = m
  /\ f \in DOMAIN unresolved \cup DOMAIN resolving => Typed(Kept[f], m)
  /\ f \in DOMAIN finished => finished[f] = Kept[f] /\ Fine(Kept[f], m)
  /\ \A k : <<f, k>> \in owners <=> f \in DOMAIN finished /\ k = m
AnonsChecked ==
  /\ \A x \in Items("fns") : \A f \in Mine(x) : InModule(f, x[1])
  /\ \A f, k : <<f, k>> \in owners => f \in DOMAIN parents

\* The places of the functions found so far: one function at a place, and one
\* at each place next to that of a function whose body has been read.
Inner(p, i) == Append(p, i)
Opened(begun, done, pl, p) == (p = <<>> /\ begun) \/ \E f \in DOMAIN pl \cap done : pl[f] = p
Placing(tree, kept, begun, done, pl) ==
  /\ \A f \in DOMAIN pl : pl[f] \in DOMAIN tree \ {<<>>} /\ kept[f] = tree[pl[f]]
  /\ \A f, g \in DOMAIN pl : pl[f] = pl[g] => f = g
  /\ \A p \in DOMAIN tree : \A i \in DOMAIN tree[p].anons :
       (\E g \in DOMAIN pl : pl[g] = Inner(p, i)) <=> Opened(begun, done, pl, p)
Found(x) ==
  \E pl : /\ DOMAIN pl = Mine(x)
          /\ Placing(Nested[Fn(x).text], Kept, Begun(x), DOMAIN finished, pl)
AllFound == \A x \in Items("fns") : ~Fn(x).builtin => Found(x)

Refused ==
  /\ outcome \notin {"running", "ok"} => ~Acceptable
  /\ outcome = "crash" => Crashing
Ends == outcome = "ok" => pass = "anonymous" /\ None(unresolved) /\ None(resolving)
NamesApart == pass \in Late => ~SameName

CInv ==
  /\ SInv
  /\ Refused /\ Ends /\ NamesApart
  /\ TypesChecked /\ FnsChecked
  /\ AnonsMine /\ AnonsChecked /\ AllFound

-----------------------------------------------------------------------------
(* The places of a text.                                                   *)

LEMMA Appends ==
  ASSUME NEW p \in Seq(Nat), NEW q \in Seq(Nat), NEW i, NEW j
  PROVE  /\ Append(p, i) = Append(q, j) => p = q /\ i = j
         /\ Append(p, i) # <<>>
         /\ Len(p) \in Nat /\ Len(Append(p, i)) = Len(p) + 1
<1>1. PICK S : S = Nat \cup {i, j}
  OBVIOUS
<1>2. i \in S /\ j \in S /\ Nat \subseteq S
  BY <1>1
<1>3. p \in Seq(S) /\ q \in Seq(S)
  BY <1>2, SeqMonotonic
<1>4. Append(p, i) = Append(q, j) <=> p = q /\ i = j
  BY <1>2, <1>3, AppendInjective
<1>5. Len(p) \in Nat /\ Append(p, i) # <<>> /\ Len(Append(p, i)) = Len(p) + 1
  BY <1>2, <1>3, AppendProperties, LenProperties
<1> QED BY <1>4, <1>5

LEMMA InnerApart ==
  \A p, q \in Seq(Nat) : \A i, j : Inner(p, i) = Inner(q, j) => p = q /\ i = j
<1> TAKE p, q \in Seq(Nat)
<1> TAKE i, j
<1> QED BY Appends, ZenonT(60) DEF Inner

LEMMA InnerLonger ==
  \A p \in Seq(Nat) : \A i : Inner(p, i) # <<>> /\ Len(p) \in Nat /\ Len(Inner(p, i)) = Len(p) + 1
BY Appends DEF Inner

Grows(tree) ==
  /\ \A p \in DOMAIN tree : p \in Seq(Nat)
  /\ \A p \in DOMAIN tree : \A i \in DOMAIN tree[p].anons :
       Inner(p, i) \in DOMAIN tree /\ tree[Inner(p, i)] = tree[p].anons[i]
  /\ \A p \in DOMAIN tree :
       p = <<>> \/ \E q \in DOMAIN tree : \E i \in DOMAIN tree[q].anons : p = Inner(q, i)
LEMMA Trees ==
  ASSUME NEW t \in Texts, NEW tree, tree = Nested[t]
  PROVE  Grows(tree) /\ <<>> \in DOMAIN tree /\ tree[<<>>] = t
<1>0. IsNesting(t, tree)
  BY NestedAssumption
<1>1. /\ DOMAIN tree =
           {<<>>} \cup UNION {{Inner(p, i) : i \in DOMAIN tree[p].anons} : p \in DOMAIN tree}
      /\ DOMAIN tree \subseteq Seq(Nat)
      /\ tree[<<>>] = t
      /\ \A p \in DOMAIN tree : \A i \in DOMAIN tree[p].anons :
           tree[Inner(p, i)] = tree[p].anons[i]
  BY <1>0, Zenon DEF IsNesting, Inner
<1>2. \A p : p \in DOMAIN tree <=>
        p = <<>> \/ \E q \in DOMAIN tree : \E i \in DOMAIN tree[q].anons : p = Inner(q, i)
  <2> DEFINE Beside(q) == {Inner(q, i) : i \in DOMAIN tree[q].anons}
  <2>1. DOMAIN tree = {<<>>} \cup UNION {Beside(q) : q \in DOMAIN tree}
    BY <1>1, Zenon
  <2>2. \A q, p : p \in Beside(q) <=> \E i \in DOMAIN tree[q].anons : p = Inner(q, i)
    BY Zenon
  <2> HIDE DEF Beside
  <2>3. \A p : p \in DOMAIN tree <=> p = <<>> \/ \E q \in DOMAIN tree : p \in Beside(q)
    BY <2>1
  <2>4. ASSUME NEW p
        PROVE  p \in DOMAIN tree <=>
                 p = <<>> \/ \E q \in DOMAIN tree : \E i \in DOMAIN tree[q].anons : p = Inner(q, i)
    <3>1. p \in DOMAIN tree <=> p = <<>> \/ \E q \in DOMAIN tree : p \in Beside(q)
      BY <2>3
    <3>2. \A q : p \in Beside(q) <=> \E i \in DOMAIN tree[q].anons : p = Inner(q, i)
      BY <2>2
    <3> QED BY <3>1, <3>2, Zenon
  <2> QED BY <2>4, Zenon
<1>3. tree[<<>>] = t /\ \A p \in DOMAIN tree : p \in Seq(Nat)
  BY <1>1
<1>4. \A p \in DOMAIN tree : \A i \in DOMAIN tree[p].anons : tree[Inner(p, i)] = tree[p].anons[i]
  BY <1>1, Zenon
<1>5. Grows(tree)
  BY <1>2, <1>3, <1>4, ZenonT(60) DEF Grows
<1> QED BY <1>2, <1>3, <1>5

\* The anonymous functions of a body whose place is not open yet are at the
\* places next to it.
Spread(pl, ids, base, first) ==
  [f \in DOMAIN pl \cup ids |-> IF f \in DOMAIN pl THEN pl[f] ELSE Inner(base, f - first + 1)]
Spreading(tree, kept, begun, done, pl, base, first, ids, kept2, begun2, done2, q) ==
  /\ Grows(tree) /\ Placing(tree, kept, begun, done, pl)
  /\ base \in DOMAIN tree /\ tree[base] \in Texts /\ ~Opened(begun, done, pl, base)
  /\ first \in Nat /\ ids = DOMAIN Generated(tree[base], first)
  /\ \A a \in ids : a \notin DOMAIN pl
  /\ \A f \in DOMAIN pl : kept2[f] = kept[f]
  /\ \A a \in ids : kept2[a] = Generated(tree[base], first)[a]
  /\ q = Spread(pl, ids, base, first)
  /\ \A p : Opened(begun2, done2, q, p) <=> Opened(begun, done, pl, p) \/ p = base
LEMMA Spreads ==
  ASSUME NEW tree, NEW kept, NEW begun, NEW done, NEW pl, NEW base, NEW first, NEW ids,
         NEW kept2, NEW begun2, NEW done2, NEW q,
         Spreading(tree, kept, begun, done, pl, base, first, ids, kept2, begun2, done2, q)
  PROVE  Placing(tree, kept2, begun2, done2, q)
<1>0. /\ Grows(tree) /\ Placing(tree, kept, begun, done, pl)
      /\ base \in DOMAIN tree /\ tree[base] \in Texts /\ ~Opened(begun, done, pl, base)
      /\ first \in Nat /\ ids = DOMAIN Generated(tree[base], first)
      /\ \A a \in ids : a \notin DOMAIN pl
      /\ \A f \in DOMAIN pl : kept2[f] = kept[f]
      /\ \A a \in ids : kept2[a] = Generated(tree[base], first)[a]
      /\ q = Spread(pl, ids, base, first)
      /\ \A p : Opened(begun2, done2, q, p) <=> Opened(begun, done, pl, p) \/ p = base
  BY DEF Spreading
<1> USE <1>0
<1> DEFINE n == Len(tree[base].anons)
<1>1. /\ n \in Nat /\ DOMAIN tree[base].anons = 1 .. n
      /\ ids = first .. first + n - 1
      /\ \A a \in ids : kept2[a] = tree[base].anons[a - first + 1]
  <2>1. tree[base].anons \in Seq(Texts)
    BY TextsAssumption DEF IsText
  <2>2. n \in Nat /\ DOMAIN tree[base].anons = 1 .. n
    BY <2>1, LenProperties
  <2>3. ids = first .. first + n - 1
    BY DEF Generated
  <2>4. \A a \in ids : kept2[a] = tree[base].anons[a - first + 1]
    BY DEF Generated
  <2> QED BY <2>2, <2>3, <2>4
<1>2. \A a \in ids : a \in Int /\ a - first + 1 \in DOMAIN tree[base].anons
  BY <1>1
<1>3. \A i \in DOMAIN tree[base].anons : i \in Int /\ first + i - 1 \in ids /\ (first + i - 1) - first + 1 = i
  BY <1>1
<1> HIDE DEF n
<1>4. /\ \A f \in DOMAIN pl : q[f] = pl[f]
      /\ \A a \in ids : q[a] = Inner(base, a - first + 1)
      /\ DOMAIN q = DOMAIN pl \cup ids
  BY DEF Spread
<1>5. \A a \in ids : /\ q[a] \in DOMAIN tree \ {<<>>} /\ kept2[a] = tree[q[a]]
  <2> TAKE a \in ids
  <2>1. PICK i : i = a - first + 1
    OBVIOUS
  <2>2. Inner(base, i) \in DOMAIN tree /\ tree[Inner(base, i)] = tree[base].anons[i]
    BY <1>2, <2>1, <1>0 DEF Grows
  <2>3. Inner(base, i) # <<>>
    BY InnerLonger, <1>0 DEF Grows
  <2> QED BY <1>1, <1>4, <2>1, <2>2, <2>3
<1>6. \A f \in DOMAIN q : q[f] \in DOMAIN tree \ {<<>>} /\ kept2[f] = tree[q[f]]
  BY <1>4, <1>5 DEF Placing
<1>7. ASSUME NEW f \in DOMAIN pl, NEW a \in ids PROVE q[f] # q[a]
  <2>1. a - first + 1 \in DOMAIN tree[base].anons
    BY <1>2
  <2>2. pl[f] # Inner(base, a - first + 1)
    BY <2>1 DEF Placing
  <2> QED BY <1>4, <2>2
<1>8. ASSUME NEW a \in ids, NEW b \in ids, q[a] = q[b] PROVE a = b
  <2>1. base \in Seq(Nat)
    BY <1>0 DEF Grows
  <2>2. PICK i, j : i = a - first + 1 /\ j = b - first + 1
    OBVIOUS
  <2>3. Inner(base, i) = Inner(base, j)
    BY <1>4, <1>8, <2>2
  <2>4. i = j
    BY <2>1, <2>3, InnerApart
  <2> QED BY <1>2, <2>2, <2>4
<1>9. ASSUME NEW f \in DOMAIN q, NEW g \in DOMAIN q, q[f] = q[g] PROVE f = g
  <2>1. CASE f \in DOMAIN pl /\ g \in DOMAIN pl
    BY <1>4, <1>9, <2>1 DEF Placing
  <2> QED BY <1>4, <1>7, <1>8, <1>9, <2>1
<1>10. ASSUME NEW p \in DOMAIN tree, NEW i \in DOMAIN tree[p].anons
       PROVE  (\E g \in DOMAIN q : q[g] = Inner(p, i)) <=> Opened(begun2, done2, q, p)
  <2>1. p \in Seq(Nat) /\ base \in Seq(Nat)
    BY <1>0 DEF Grows
  <2>2. ASSUME NEW g \in DOMAIN q, q[g] = Inner(p, i) PROVE Opened(begun2, done2, q, p)
    <3>1. CASE g \in DOMAIN pl
      <4>1. Opened(begun, done, pl, p)
        BY <1>4, <2>2, <3>1 DEF Placing
      <4> QED BY <4>1
    <3>2. CASE g \in ids
      <4>1. PICK j : j = g - first + 1
        OBVIOUS
      <4>2. Inner(p, i) = Inner(base, j)
        BY <1>4, <2>2, <3>2, <4>1
      <4>3. p = base /\ i = j
        BY <2>1, <4>2, InnerApart
      <4> QED BY <4>3
    <3> QED BY <1>4, <3>1, <3>2
  <2>3. ASSUME Opened(begun2, done2, q, p) PROVE \E g \in DOMAIN q : q[g] = Inner(p, i)
    <3>1. CASE Opened(begun, done, pl, p)
      <4>1. PICK g \in DOMAIN pl : pl[g] = Inner(p, i)
        BY <3>1 DEF Placing
      <4> QED BY <1>4, <4>1
    <3>2. CASE p = base
      <4>1. PICK g : g = first + i - 1
        OBVIOUS
      <4>2. g \in ids /\ g - first + 1 = i
        BY <1>3, <3>2, <4>1
      <4> QED BY <1>4, <3>2, <4>2
    <3> QED BY <2>3, <3>1, <3>2
  <2> QED BY <2>2, <2>3
<1> QED BY <1>6, <1>9, <1>10 DEF Placing

\* When all that are found are read, every place of the text has one.
Covers(tree, pl) == \A p \in DOMAIN tree \ {<<>>} : \E g \in DOMAIN pl : pl[g] = p
LEMMA AllPlaced ==
  ASSUME NEW tree, Grows(tree),
         NEW kept, NEW done, NEW pl, Placing(tree, kept, TRUE, done, pl), DOMAIN pl \subseteq done
  PROVE  Covers(tree, pl)
<1> DEFINE Bare == {p \in DOMAIN tree \ {<<>>} : ~ \E g \in DOMAIN pl : pl[g] = p}
           Lens == {Len(p) : p \in Bare}
           R == {ss \in Nat \X Nat : ss[1] < ss[2]}
<1> SUFFICES ASSUME Bare # {} PROVE FALSE
  BY DEF Covers
<1>1. \A p \in DOMAIN tree : p \in Seq(Nat) /\ Len(p) \in Nat
  BY InnerLonger DEF Grows
<1>2. Lens \subseteq Nat /\ Lens # {}
  BY <1>1
<1>3. IsWellFoundedOn(R, Nat)
  BY NatLessThanWellFounded, Zenon DEF OpToRel
<1>4. PICK n \in Lens : \A k \in Lens : <<k, n>> \notin R
  <2> HIDE DEF R, Lens
  <2> QED BY <1>2, <1>3, WFMin
<1>5. PICK p \in Bare : n = Len(p)
  BY <1>4
<1>a. p \in DOMAIN tree /\ p # <<>>
  BY <1>5
<1>6. PICK q \in DOMAIN tree : \E i \in DOMAIN tree[q].anons : p = Inner(q, i)
  <2> HIDE DEF Bare
  <2> QED BY <1>a DEF Grows
<1>7. PICK i \in DOMAIN tree[q].anons : p = Inner(q, i)
  BY <1>6
<1>8. Len(p) = Len(q) + 1
  BY <1>1, <1>7, InnerLonger
<1>9. q \notin Bare
  <2>1. Len(q) \in Nat /\ n \in Nat /\ Len(q) < n
    BY <1>1, <1>2, <1>5, <1>8
  <2> QED BY <1>4, <2>1
<1>10. Opened(TRUE, done, pl, q)
  BY <1>6, <1>9 DEF Opened
<1>11. \E g \in DOMAIN pl : pl[g] = p
  BY <1>7, <1>10 DEF Placing
<1> QED BY <1>5, <1>11

-----------------------------------------------------------------------------
(* Errors are flaws of the text.                                           *)

LEMMA TextStays ==
  ASSUME program' = program
  PROVE  /\ Acceptable' <=> Acceptable
         /\ SameName' <=> SameName
         /\ Crashing' <=> Crashing
<1>1. Mods' = Mods /\ \A m : DeclsOf(m)' = DeclsOf(m)
  BY DEF Mods, DeclsOf
<1>2. \A m, kinds : Chosen(m, kinds)' = Chosen(m, kinds)
  BY <1>1 DEF Chosen
<1>3. \A m, kinds : /\ NamesOf(m, kinds)' = NamesOf(m, kinds)
                    /\ NoDuplicates(m, kinds)' <=> NoDuplicates(m, kinds)
  BY <1>1, <1>2 DEF NamesOf, NoDuplicates
<1>4. \A m, kinds, given : Here(m, kinds, given)' = Here(m, kinds, given)
  BY <1>3 DEF Here
<1>5. \A m : UsedBy(m)' = UsedBy(m)
  BY <1>1, <1>3 DEF UsedBy
<1>6. \A m, kinds, given : Visible(m, kinds, given)' = Visible(m, kinds, given)
  BY <1>4, <1>5, SMTT(60) DEF Visible
<1>7. \A m : VisibleTypes(m)' = VisibleTypes(m) /\ VisibleFns(m)' = VisibleFns(m)
  BY <1>6 DEF VisibleTypes, VisibleFns, StdScope
<1>8. \A m, t : Flawless(t, m)' <=> Flawless(t, m)
  BY <1>7 DEF Flawless
<1>9. \A m, d : Sound(m, d)' <=> Sound(m, d)
  BY <1>7, <1>8 DEF Sound
<1>10. Clashes(program)' <=> Clashes(program)
  BY DEF Clashes
<1>11. Acceptable' <=> Acceptable
  BY <1>1, <1>3, <1>9, <1>10 DEF Acceptable
<1>12. SameName' <=> SameName
  BY <1>1 DEF SameName
<1>13. Crashing' <=> Crashing
  BY <1>1 DEF Crashing
<1> QED BY <1>11, <1>12, <1>13

\* The declaration a function, or a type, was read from.
LEMMA DeclOfFn ==
  ASSUME SInv, pass # "raw", NEW x \in Items("fns")
  PROVE  /\ x[1] \in Mods
         /\ \E i \in DOMAIN DeclsOf(x[1]) :
              /\ DeclsOf(x[1])[i].kind = IF Fn(x).builtin THEN "builtin" ELSE "fn"
              /\ DeclsOf(x[1])[i].text = Fn(x).text
<1>1. PICK m \in Mods : \E n \in DOMAIN raw[m].fns : x = <<m, n>>
  BY Placed
<1>2. PICK n \in DOMAIN raw[m].fns : x = <<m, n>>
  BY <1>1
<1>3. x[1] = m /\ Fn(x) = raw[m].fns[n]
  BY <1>2 DEF Fn
<1> DEFINE ds == DeclsOf(m)
           f == raw[m].fns
<1>4. Recorded(ds, ReadOf(m), FnKinds, f) /\ BuiltinsMarked(ds, ReadOf(m), f)
  BY DEF SInv, DeclsRead, ModuleRead
<1> HIDE DEF ds, f
<1>5. PICK i \in Of(ds, ReadOf(m), FnKinds) : ds[i].name = n
  BY <1>2, <1>4 DEF Recorded, f
<1>6. f[n].text = ds[i].text /\ f[n].builtin = (ds[i].kind = "builtin") /\ ds[i].kind \in FnKinds
  BY <1>4, <1>5 DEF Recorded, BuiltinsMarked, Of
<1>7. i \in DOMAIN ds
  BY <1>5 DEF Of, ReadOf, ds
<1>8. ds[i].kind = IF f[n].builtin THEN "builtin" ELSE "fn"
  BY <1>6 DEF FnKinds
<1> QED BY <1>3, <1>6, <1>7, <1>8 DEF ds, f

LEMMA DeclOfType ==
  ASSUME SInv, pass # "raw", NEW x \in Items("types")
  PROVE  /\ x[1] \in Mods
         /\ \E i \in DOMAIN DeclsOf(x[1]) : /\ DeclsOf(x[1])[i].kind \in TypeKinds
                                            /\ DeclsOf(x[1])[i].text = Ty(x).text
<1>1. PICK m \in Mods : \E n \in DOMAIN raw[m].types : x = <<m, n>>
  BY TypesPlaced
<1>2. PICK n \in DOMAIN raw[m].types : x = <<m, n>>
  BY <1>1
<1>3. x[1] = m /\ Ty(x) = raw[m].types[n]
  BY <1>2 DEF Ty
<1> DEFINE ds == DeclsOf(m)
           f == raw[m].types
<1>4. Recorded(ds, ReadOf(m), TypeKinds, f)
  BY DEF SInv, DeclsRead, ModuleRead
<1> HIDE DEF ds, f
<1>5. PICK i \in Of(ds, ReadOf(m), TypeKinds) : ds[i].name = n
  BY <1>2, <1>4 DEF Recorded, f
<1>6. f[n].text = ds[i].text /\ ds[i].kind \in TypeKinds
  BY <1>4, <1>5 DEF Recorded, Of
<1>7. i \in DOMAIN ds
  BY <1>5 DEF Of, ReadOf, ds
<1> QED BY <1>3, <1>6, <1>7 DEF ds, f

\* What the scopes make of a text is what the program makes of it.
LEMMA ScopedText ==
  ASSUME SInv, pass \notin {"raw", "usings"}, ~Clashes(program), NEW m \in Mods, NEW t
  PROVE  /\ Typed(t, m) <=> t.types \subseteq VisibleTypes(m) /\ t.form = "ok"
         /\ Fine(t, m) <=> Flawless(t, m)
<1>1. DOMAIN scopes[m].types = VisibleTypes(m) /\ DOMAIN scopes[m].fns = VisibleFns(m)
  BY ScopesAreVisible DEF ScopesVisible
<1> QED BY <1>1 DEF Typed, Fine, Resolves, Flawless

LEMMA BadType ==
  ASSUME SInv, pass \notin {"raw", "usings"}, NEW x \in Items("types"), ~Typed(Ty(x).text, x[1])
  PROVE  ~Acceptable /\ (Ty(x).text.form = "panic" => Crashing)
<1>1. pass # "raw"
  OBVIOUS
<1>2. PICK i \in DOMAIN DeclsOf(x[1]) : /\ DeclsOf(x[1])[i].kind \in TypeKinds
                                        /\ DeclsOf(x[1])[i].text = Ty(x).text
  BY <1>1, DeclOfType
<1>3. x[1] \in Mods
  BY <1>1, DeclOfType
<1>4. ASSUME Acceptable PROVE FALSE
  <2>1. ~Clashes(program) /\ Ty(x).text.types \subseteq VisibleTypes(x[1]) /\ Ty(x).text.form = "ok"
    BY <1>2, <1>3, <1>4 DEF Acceptable, Sound
  <2> QED BY <1>3, <2>1, ScopedText
<1>5. Ty(x).text.form = "panic" => Crashing
  BY <1>2, <1>3 DEF Crashing
<1> QED BY <1>4, <1>5

LEMMA BadSignature ==
  ASSUME SInv, pass \notin {"raw", "usings"}, NEW x \in Items("fns"), ~Typed(Fn(x).text, x[1])
  PROVE  ~Acceptable /\ (Fn(x).text.form = "panic" => Crashing)
<1>1. pass # "raw"
  OBVIOUS
<1>2. PICK i \in DOMAIN DeclsOf(x[1]) :
        /\ DeclsOf(x[1])[i].kind = IF Fn(x).builtin THEN "builtin" ELSE "fn"
        /\ DeclsOf(x[1])[i].text = Fn(x).text
  BY <1>1, DeclOfFn
<1>3. x[1] \in Mods
  BY <1>1, DeclOfFn
<1>4. DeclsOf(x[1])[i].kind \in FnKinds
  BY <1>2 DEF FnKinds
<1>5. ASSUME Acceptable PROVE FALSE
  <2>1. ~Clashes(program) /\ Fn(x).text.types \subseteq VisibleTypes(x[1]) /\ Fn(x).text.form = "ok"
    BY <1>2, <1>3, <1>4, <1>5 DEF Acceptable, Sound
  <2> QED BY <1>3, <2>1, ScopedText
<1>6. Fn(x).text.form = "panic" => Crashing
  BY <1>2, <1>3, <1>4 DEF Crashing
<1> QED BY <1>5, <1>6

\* A text at which reading it, or checking its body, panics.
Panics(t) == t.form = "panic" \/ t.body = "panic"

LEMMA BadBody ==
  ASSUME SInv, pass \notin {"raw", "usings"}, NEW x \in Items("fns"), ~Fn(x).builtin,
         NEW p \in DOMAIN Nested[Fn(x).text], ~Fine(Nested[Fn(x).text][p], x[1])
  PROVE  ~Acceptable /\ (Panics(Nested[Fn(x).text][p]) => Crashing)
<1>1. pass # "raw"
  OBVIOUS
<1>2. PICK i \in DOMAIN DeclsOf(x[1]) :
        /\ DeclsOf(x[1])[i].kind = IF Fn(x).builtin THEN "builtin" ELSE "fn"
        /\ DeclsOf(x[1])[i].text = Fn(x).text
  BY <1>1, DeclOfFn
<1>3. x[1] \in Mods
  BY <1>1, DeclOfFn
<1>4. ASSUME Acceptable PROVE FALSE
  <2>1. ~Clashes(program) /\ Flawless(Nested[Fn(x).text][p], x[1])
    BY <1>2, <1>3, <1>4 DEF Acceptable, Sound
  <2> QED BY <1>3, <2>1, ScopedText
<1>5. Panics(Nested[Fn(x).text][p]) => Crashing
  BY <1>2, <1>3 DEF Crashing, Panics
<1> QED BY <1>4, <1>5

\* Reading ends in an error on a flaw only.
LEMMA ReadingRefuses ==
  ASSUME SInv, ReadType \/ ReadFn \/ ReadUse \/ ReadEnd
  PROVE  \/ outcome' \notin {"running", "ok", "crash"} /\ ~Acceptable
            /\ \E how : End(how)
         \/ outcome' = "running" /\ UNCHANGED <<pass, scopes, todo, fnMap, buffer, anonFns>>
            /\ UNCHANGED <<parents, unresolved, resolving, finished, owners>>
<1> DEFINE m == at[1]
           k == at[2]
<1>1. RawOK /\ at \in Nat \X Nat /\ Cursor
  BY DEF SInv, PInv, IInv, UsesRead, DeclsRead
<1>2. ASSUME NEW kinds, Reads(kinds), NEW f, Recorded(DeclsOf(m), ReadOf(m), kinds, f),
             Decl.name \in DOMAIN f
      PROVE  ~Acceptable \/ kinds \notin {TypeKinds, FnKinds}
  <2>1. m \in Mods /\ k \in DOMAIN DeclsOf(m) /\ Decl = DeclsOf(m)[k] /\ Decl.kind \in kinds /\ pass = "raw"
    BY <1>1, <1>2, DeclRead DEF DeclsOf
  <2>2. PICK i \in Of(DeclsOf(m), ReadOf(m), kinds) : DeclsOf(m)[i].name = Decl.name
    BY <1>2 DEF Recorded
  <2>3. i \in DOMAIN DeclsOf(m) /\ i < k /\ DeclsOf(m)[i].kind \in kinds
    <3>1. i \in ReadOf(m) /\ DeclsOf(m)[i].kind \in kinds
      BY <2>2 DEF Of
    <3>2. ~(m < at[1])
      BY <1>1, <2>1, ModuleNumbers
    <3> QED BY <2>1, <3>1, <3>2 DEF ReadOf
  <2>4. i # k
    <3>1. k \in Nat
      BY <1>1
    <3> QED BY <2>3, <3>1
  <2>5. ~NoDuplicates(m, kinds)
    BY <2>1, <2>2, <2>3, <2>4 DEF NoDuplicates, Chosen
  <2> QED BY <2>1, <2>5 DEF Acceptable
<1>3. CASE ReadType
  <2>1. Reads(TypeKinds) /\ m \in Mods
    BY <1>3, <1>1, DeclRead DEF ReadType, TypeKinds
  <2>2. \/ Decl.name \in DOMAIN raw[m].types /\ End("DuplicateTypes")
        \/ \E r, ids : Reserve(r, ids)
    BY <1>3 DEF ReadType
  <2>3. Recorded(DeclsOf(m), ReadOf(m), TypeKinds, raw[m].types)
    BY <2>1 DEF SInv, DeclsRead, ModuleRead
  <2>4. CASE Decl.name \in DOMAIN raw[m].types /\ End("DuplicateTypes")
    <3>1. outcome' = "DuplicateTypes"
      BY <2>4 DEF End
    <3> QED BY <1>2, <2>1, <2>3, <2>4, <3>1
  <2>5. ASSUME NEW r, NEW ids, Reserve(r, ids)
        PROVE  outcome' = "running" /\ UNCHANGED <<pass, scopes, todo, fnMap, buffer, anonFns>>
               /\ UNCHANGED <<parents, unresolved, resolving, finished, owners>>
    BY <2>1, <2>5 DEF Reserve, Reads, Reading, named, universe, ready, worklist
  <2> QED BY <2>2, <2>4, <2>5
<1>4. CASE ReadFn
  <2>1. Reads(FnKinds) /\ m \in Mods
    BY <1>4, <1>1, DeclRead DEF ReadFn, FnKinds
  <2>2. \/ Decl.name \in DOMAIN raw[m].fns /\ End("DuplicateFns")
        \/ \E r, ids : Reserve(r, ids)
    BY <1>4 DEF ReadFn
  <2>3. Recorded(DeclsOf(m), ReadOf(m), FnKinds, raw[m].fns)
    BY <2>1 DEF SInv, DeclsRead, ModuleRead
  <2>4. CASE Decl.name \in DOMAIN raw[m].fns /\ End("DuplicateFns")
    <3>1. outcome' = "DuplicateFns"
      BY <2>4 DEF End
    <3> QED BY <1>2, <2>1, <2>3, <2>4, <3>1
  <2>5. ASSUME NEW r, NEW ids, Reserve(r, ids)
        PROVE  outcome' = "running" /\ UNCHANGED <<pass, scopes, todo, fnMap, buffer, anonFns>>
               /\ UNCHANGED <<parents, unresolved, resolving, finished, owners>>
    BY <2>1, <2>5 DEF Reserve, Reads, Reading, named, universe, ready, worklist
  <2> QED BY <2>2, <2>4, <2>5
<1>5. CASE ReadUse
  BY <1>5 DEF ReadUse, Reserve, Reads, Reading, named, universe, ready, worklist
<1>6. CASE ReadEnd
  <2>1. CASE Source.name = NoName /\ End("MissingModName")
    <3>1. outcome' = "MissingModName"
      BY <2>1 DEF End
    <3>2. m \in Mods /\ program[m].name = NoName
      BY <1>6, <2>1 DEF ReadEnd, Reading, Source
    <3>3. ~Acceptable
      BY <3>2 DEF Acceptable
    <3> QED BY <2>1, <3>1, <3>3
  <2>2. CASE UNCHANGED <<program, raw, pass, outcome, nextId, named, todo, universe, ready, worklist>>
    BY <1>6, <2>2 DEF ReadEnd, Reading, named, universe, ready, worklist
  <2> QED BY <1>6, <2>1, <2>2 DEF ReadEnd
<1> QED BY <1>3, <1>4, <1>5, <1>6

-----------------------------------------------------------------------------
(* The passes before any function is generated, and steps that end it all. *)

\* No function is found in a body that has not been read.
LEMMA NothingFound ==
  ASSUME NEW tree, NEW kept, NEW done, NEW S, S = {}
  PROVE  \E pl : DOMAIN pl = S /\ Placing(tree, kept, FALSE, done, pl)
<1>1. PICK pl : pl = Empty
  OBVIOUS
<1>2. DOMAIN pl = {}
  BY <1>1 DEF Empty
<1>3. Placing(tree, kept, FALSE, done, pl)
  BY <1>2 DEF Placing, Opened
<1> QED BY <1>2, <1>3

LEMMA EarlyChecks ==
  ASSUME CInv, SInv', pass \in Early, pass' \in Early, owners' = owners,
         TypesChecked', Refused', outcome' # "ok"
  PROVE  CInv'
<1>1. /\ pass' \notin Late /\ pass' # "fns" /\ DOMAIN parents' = {}
      /\ \A f, k : <<f, k>> \notin owners'
  BY DEF CInv, AnonsChecked, SInv, PInv, IInv, Reserving, None, Early, Late
<1>2. \A x : Mine(x)' = {}
  BY <1>1 DEF Mine
<1>3. AllFound'
  <2>1. ASSUME NEW x PROVE Found(x)'
    <3>1. Begun(x)' = FALSE
      BY <1>1 DEF Begun
    <3>2. \E pl : DOMAIN pl = Mine(x)'
                  /\ Placing(Nested[Fn(x).text]', Kept', FALSE, DOMAIN finished', pl)
      BY <1>2, NothingFound
    <3> QED BY <3>1, <3>2 DEF Found
  <2> QED BY <2>1 DEF AllFound
<1>4. Ends' /\ NamesApart' /\ FnsChecked' /\ AnonsMine' /\ AnonsChecked'
  BY <1>1, <1>2 DEF Ends, NamesApart, FnsChecked, AnonsMine, AnonsChecked, Late
<1> QED BY <1>3, <1>4 DEF CInv

LEMMA ChecksInit == Init => CInv
<1> SUFFICES ASSUME Init PROVE CInv
  OBVIOUS
<1>1. SInv /\ pass = "raw" /\ outcome = "running" /\ parents = Empty
  BY ScopesInit DEF Init
<1>2. DOMAIN parents = {} /\ pass \notin Late /\ pass # "fns" /\ owners = {}
  BY <1>1 DEF Init, Empty, Late
<1>3. \A x : Mine(x) = {}
  BY <1>2 DEF Mine
<1>4. AllFound
  <2>1. ASSUME NEW x PROVE Found(x)
    <3>1. Begun(x) = FALSE
      BY <1>2 DEF Begun
    <3>2. \E pl : DOMAIN pl = Mine(x)
                  /\ Placing(Nested[Fn(x).text], Kept, FALSE, DOMAIN finished, pl)
      BY <1>3, NothingFound
    <3> QED BY <3>1, <3>2 DEF Found
  <2> QED BY <2>1 DEF AllFound
<1>5. Refused /\ Ends /\ NamesApart /\ TypesChecked /\ FnsChecked /\ AnonsMine /\ AnonsChecked
  BY <1>1, <1>2, <1>3
     DEF Refused, Ends, NamesApart, TypesChecked, FnsChecked, AnonsMine, AnonsChecked, Late
<1> QED BY <1>1, <1>4, <1>5 DEF CInv

\* A step that ends the run, or does nothing.
LEMMA EndChecks ==
  ASSUME CInv, SInv', NEW how, End(how),
         how \notin {"running", "ok"} => ~Acceptable,
         how = "crash" => Crashing,
         how = "ok" => pass = "anonymous" /\ None(unresolved) /\ None(resolving)
  PROVE  CInv'
<1>1. /\ UNCHANGED <<program, at, raw, pass, scopes, todo, fnMap, buffer, anonFns>>
      /\ UNCHANGED <<parents, unresolved, resolving, finished, owners>> /\ outcome' = how
  BY DEF End, declared, named, universe, ready, worklist
<1>2. /\ \A x : Fn(x)' = Fn(x) /\ Ty(x)' = Ty(x) /\ Anons(x)' = Anons(x)
      /\ \A part : Items(part)' = Items(part)
  BY <1>1 DEF Fn, Ty, Anons, Items, Mods
<1>3. /\ \A t, m : Typed(t, m)' <=> Typed(t, m)
      /\ \A t, m : Resolves(t, m)' <=> Resolves(t, m)
      /\ \A t, m : Fine(t, m)' <=> Fine(t, m)
  BY <1>1 DEF Typed, Resolves, Fine
<1>4. \A x : /\ Mine(x)' = Mine(x) /\ Begun(x)' = Begun(x)
             /\ Entered(x)' <=> Entered(x)
             /\ Analyzed(x)' <=> Analyzed(x)
  BY <1>1, <1>2, <1>3 DEF Mine, Begun, Entered, Analyzed
<1>5. Kept' = Kept
  BY <1>1 DEF Kept
<1>6. \A f, m : InModule(f, m)' <=> InModule(f, m)
  BY <1>1, <1>3, <1>5 DEF InModule
<1>7. \A x : Found(x)' <=> Found(x)
  BY <1>1, <1>2, <1>4, <1>5 DEF Found
<1>8. AllFound' /\ AnonsChecked'
  BY <1>1, <1>2, <1>4, <1>6, <1>7 DEF CInv, AllFound, AnonsChecked
<1>9. TypesChecked' /\ FnsChecked' /\ AnonsMine'
  BY <1>1, <1>2, <1>3, <1>4 DEF CInv, TypesChecked, FnsChecked, AnonsMine
<1>10. (Acceptable' <=> Acceptable) /\ (SameName' <=> SameName) /\ (Crashing' <=> Crashing)
  BY <1>1, TextStays
<1>11. Refused' /\ Ends' /\ NamesApart'
  BY <1>1, <1>10 DEF CInv, Refused, Ends, NamesApart, None
<1> QED BY <1>8, <1>9, <1>11 DEF CInv

\* A panic is the sign of clashing names, which are a flaw.
LEMMA PanicRefuses ==
  ASSUME CInv, SInv', End("panic")
  PROVE  CInv'
<1>1. program' = program /\ outcome' = "panic"
  BY DEF End, declared
<1>2. Clashes(program)
  BY <1>1 DEF SInv, PanicsOnlyOnClash
<1> QED BY <1>2, EndChecks DEF Acceptable

\* A text that cannot be typed ends the run as its fault asks for.
LEMMA UntypableEnds ==
  ASSUME NEW t, NEW m, Untypable(t, m)
  PROVE  /\ ~Typed(t, m)
         /\ \/ End("UnknownType") \/ End("TypeError")
            \/ t.form = "panic" /\ End("crash")
BY DEF Untypable, Typed

LEMMA ReadingChecks ==
  ASSUME CInv, SInv', ReadType \/ ReadFn \/ ReadUse \/ ReadEnd
  PROVE  CInv'
<1>1. pass = "raw" /\ SInv
  BY DEF CInv, ReadType, ReadFn, ReadUse, ReadEnd, Reads, Reading
<1>2. CASE outcome' \notin {"running", "ok", "crash"} /\ ~Acceptable /\ \E how : End(how)
  <2>1. PICK how : End(how)
    BY <1>2
  <2>2. outcome' = how
    BY <2>1 DEF End
  <2> QED BY <1>2, <2>1, <2>2, EndChecks
<1>3. CASE outcome' = "running" /\ pass' = pass /\ owners' = owners
  <2>1. TypesChecked' /\ Refused'
    BY <1>1, <1>3 DEF TypesChecked, Refused, Late
  <2> QED BY <1>1, <1>3, <2>1, EarlyChecks DEF Early
<1> QED BY <1>1, <1>2, <1>3, ReadingRefuses

LEMMA ScopingChecks ==
  ASSUME CInv, SInv', ScopeInternal \/ EnterTypes \/ \E m \in Mods : MapUsings(m)
  PROVE  CInv'
<1>a. pass \in Early /\ (ScopeInternal \/ EnterTypes => owners' = owners)
  BY DEF ScopeInternal, EnterTypes, MapUsings, Early, worklist
<1>1. CASE ScopeInternal
  <2>1. pass' = "usings" /\ outcome' = "running" /\ owners' = owners
    BY <1>1, <1>a DEF ScopeInternal, Enter
  <2>2. TypesChecked' /\ Refused'
    BY <2>1 DEF TypesChecked, Refused, Late
  <2> QED BY <1>a, <2>1, <2>2, EarlyChecks DEF Early
<1>2. CASE EnterTypes
  <2>1. pass' = "types" /\ outcome' = "running" /\ owners' = owners /\ todo' = Items("types") /\ UNCHANGED <<program, raw>>
    BY <1>2, <1>a DEF EnterTypes, Enter, declared
  <2>2. Items("types")' = todo'
    BY <2>1, TypesUnmoved
  <2>3. TypesChecked' /\ Refused'
    BY <2>1, <2>2 DEF TypesChecked, Refused, Late
  <2> QED BY <1>a, <2>1, <2>3, EarlyChecks DEF Early
<1>3. ASSUME NEW m \in Mods, MapUsings(m) PROVE CInv'
  <2>1. pass = "usings" /\ outcome = "running" /\ SInv
    BY <1>3 DEF MapUsings, CInv
  <2>2. CASE End("panic")
    BY <2>2, PanicRefuses
  <2>3. CASE (\E i \in DOMAIN raw[m].uses : Unresolved(m, i)) /\ End("UnresolvedUses")
    <3>1. PICK i \in DOMAIN raw[m].uses : Unresolved(m, i)
      BY <2>3
    <3>2. \A d \in Mods : program[d].name # raw[m].uses[i]
      BY <3>1 DEF Unresolved, Denotes
    <3>3. raw[m].uses[i] \in NamesOf(m, {"use"})
      BY <2>1, NamesRecorded DEF SInv
    <3>4. ~Acceptable
      BY <3>2, <3>3 DEF Acceptable
    <3> QED BY <2>3, <3>4, EndChecks
  <2>4. CASE UNCHANGED <<pass, outcome, owners>>
    <3>1. TypesChecked' /\ Refused'
      BY <2>1, <2>4 DEF TypesChecked, Refused, Late
    <3> QED BY <2>1, <2>4, <3>1, EarlyChecks DEF Early
  <2> QED BY <1>3, <2>2, <2>3, <2>4 DEF MapUsings, worklist
<1> QED BY <1>1, <1>2, <1>3

LEMMA TypesPass ==
  ASSUME CInv, SInv', NEW x \in todo, MapType(x)
  PROVE  CInv'
<1>1. /\ pass = "types" /\ outcome = "running" /\ SInv /\ x \in Items("types")
      /\ Ty(x) = raw[x[1]].types[x[2]]
  BY DEF MapType, CInv, SInv, PInv, Constructors, Ty
<1>2. CASE End("panic")
  BY <1>2, PanicRefuses
<1>3. CASE Untypable(Ty(x).text, x[1])
  <2>1. ~Acceptable /\ (Ty(x).text.form = "panic" => Crashing)
    BY <1>1, <1>3, UntypableEnds, BadType
  <2>2. \/ End("UnknownType") \/ End("TypeError")
        \/ Ty(x).text.form = "panic" /\ End("crash")
    BY <1>3, UntypableEnds
  <2> QED BY <2>1, <2>2, EndChecks
<1>4. CASE /\ Typed(Ty(x).text, x[1]) /\ todo' = todo \ {x}
           /\ UNCHANGED <<program, raw, pass, outcome, scopes, owners>>
  <2>1. Items("types")' = Items("types") /\ \A y : Ty(y)' = Ty(y)
    BY <1>4, TypesUnmoved
  <2>2. \A t, m : Typed(t, m)' <=> Typed(t, m)
    BY <1>4 DEF Typed
  <2>3. \A y \in Items("types") \ todo' : Typed(Ty(y).text, y[1])
    BY <1>1, <1>4 DEF CInv, TypesChecked
  <2>4. TypesChecked' /\ Refused'
    BY <1>1, <1>4, <2>1, <2>2, <2>3 DEF TypesChecked, Refused, Late
  <2> QED BY <1>1, <1>4, <2>4, EarlyChecks DEF Early
<1> QED BY <1>1, <1>2, <1>3, <1>4 DEF MapType, declared, named, worklist

-----------------------------------------------------------------------------
(* The functions.                                                          *)

\* Steps that find no function in a body keep those that are found.
LEMMA FoundStays ==
  ASSUME NEW x, Found(x), Mine(x)' = Mine(x), Fn(x)' = Fn(x), Begun(x)' = Begun(x),
         \A f \in Mine(x) : Kept'[f] = Kept[f],
         \A f \in Mine(x) : f \in DOMAIN finished' <=> f \in DOMAIN finished
  PROVE  Found(x)'
<1> DEFINE tree == Nested[Fn(x).text]
<1>1. PICK pl : DOMAIN pl = Mine(x) /\ Placing(tree, Kept, Begun(x), DOMAIN finished, pl)
  BY DEF Found
<1>2. \A p : Opened(Begun(x), DOMAIN finished', pl, p) <=> Opened(Begun(x), DOMAIN finished, pl, p)
  BY <1>1 DEF Opened
<1> HIDE DEF tree
<1>3. Placing(tree, Kept', Begun(x), DOMAIN finished', pl)
  BY <1>1, <1>2 DEF Placing
<1> QED BY <1>1, <1>3 DEF Found, tree

LEMMA EnterFnsChecks ==
  ASSUME CInv, SInv', EnterFns
  PROVE  CInv'
<1>1. /\ pass = "types" /\ pass' = "fns" /\ outcome' = "running" /\ todo = {} /\ todo' = Items("fns")
      /\ UNCHANGED <<program, raw, scopes, parents, owners>> /\ SInv
  BY DEF EnterFns, Enter, declared, named, worklist, CInv
<1>2. /\ Items("fns")' = Items("fns") /\ Items("types")' = Items("types")
      /\ \A y : Ty(y)' = Ty(y)
      /\ \A t, m : Typed(t, m)' <=> Typed(t, m)
  BY <1>1, Unmoved, TypesUnmoved DEF Typed
<1>3. DOMAIN parents' = {} /\ DOMAIN parents = {}
  BY <1>1 DEF SInv, PInv, IInv, Reserving, None
<1>4. \A x : Mine(x)' = {}
  BY <1>3 DEF Mine
<1>5. AllFound'
  <2>1. ASSUME NEW x \in Items("fns") PROVE Found(x)'
    <3>1. Begun(x)' = FALSE
      BY <1>1 DEF Begun, Late
    <3>2. \E pl : DOMAIN pl = Mine(x)'
                  /\ Placing(Nested[Fn(x).text]', Kept', FALSE, DOMAIN finished', pl)
      BY <1>4, NothingFound
    <3> QED BY <3>1, <3>2 DEF Found
  <2> QED BY <1>2, <2>1 DEF AllFound
<1>6. AnonsChecked'
  BY <1>1, <1>3, <1>4 DEF CInv, AnonsChecked
<1>7. TypesChecked' /\ FnsChecked' /\ AnonsMine' /\ Refused' /\ Ends' /\ NamesApart'
  BY <1>1, <1>2 DEF CInv, TypesChecked, FnsChecked, AnonsMine, Refused, Ends, NamesApart, Late
<1> QED BY <1>5, <1>6, <1>7 DEF CInv

\* A function that is generated has its anonymous functions beside it.
LEMMA FnGenerated ==
  ASSUME CInv, SInv', NEW x \in todo, pass = "fns", pass' = "fns", outcome' = "running",
         todo' = todo \ {x}, UNCHANGED <<program, raw, scopes, finished, owners>>,
         Entered(x),
         NEW fn, fnMap' = Put(fnMap, Fn(x).id, fn),
         NEW first \in Nat, NEW texts, fn.anons = DOMAIN texts,
         IF Fn(x).builtin THEN texts = Empty ELSE texts = Generated(Fn(x).text, first),
         DOMAIN parents' = DOMAIN parents \cup DOMAIN texts,
         \A a \in DOMAIN texts : parents'[a] = Fn(x).id /\ buffer'[a] = texts[a],
         \A a \in DOMAIN parents : parents'[a] = parents[a] /\ buffer'[a] = buffer[a],
         \A a \in DOMAIN texts : a \notin DOMAIN parents
  PROVE  CInv'
<1> DEFINE ids == DOMAIN texts
           d == Fn(x)
<1>1. /\ SInv /\ x \in Items("fns") /\ todo \subseteq Items("fns")
      /\ DOMAIN finished = {} /\ DOMAIN unresolved = {} /\ DOMAIN resolving = {}
      /\ DOMAIN finished' = {} /\ DOMAIN unresolved' = {} /\ DOMAIN resolving' = {}
      /\ DOMAIN buffer = DOMAIN parents
      /\ \A y, z \in Items("fns") : Fn(y).id = Fn(z).id => y = z
      /\ d.text \in Texts
  BY DEF CInv, SInv, PInv, IInv, RawOK, Generating, None, Stored
<1>2. /\ Items("fns")' = Items("fns") /\ Items("types")' = Items("types")
      /\ \A y : Fn(y)' = Fn(y) /\ Ty(y)' = Ty(y)
      /\ \A t, m : Typed(t, m)' <=> Typed(t, m)
  BY Unmoved, TypesUnmoved DEF Typed
<1>3. /\ DOMAIN parents' = DOMAIN parents \cup ids
      /\ \A a \in ids : parents'[a] = d.id
      /\ \A a \in DOMAIN parents : parents'[a] = parents[a]
      /\ \A a \in ids : buffer'[a] = texts[a]
      /\ \A a \in DOMAIN parents : buffer'[a] = buffer[a]
  OBVIOUS
<1>4. /\ Kept = buffer /\ Kept' = buffer'
      /\ \A y \in Items("fns") : y # x => Begun(y)' = Begun(y)
      /\ Begun(x) = FALSE /\ Begun(x)' = TRUE
  BY <1>1 DEF Kept, Begun, Late
<1>5. \A y \in Items("fns") : y # x => Mine(y)' = Mine(y)
  <2> TAKE y \in Items("fns")
  <2> HAVE y # x
  <2>1. Fn(y).id # d.id
    BY <1>1
  <2> QED BY <1>2, <1>3, <2>1 DEF Mine
<1>6. Mine(x)' = Mine(x) \cup ids
  BY <1>2, <1>3 DEF Mine
<1> HIDE DEF ids, d
<1>7. AllFound'
  <2>1. ASSUME NEW y \in Items("fns"), ~Fn(y).builtin, y # x PROVE Found(y)'
    <3>1. Found(y)
      BY <2>1 DEF CInv, AllFound
    <3>2. \A f \in Mine(y) : f \in DOMAIN parents
      BY DEF Mine
    <3>3. \A f \in Mine(y) : Kept'[f] = Kept[f]
      BY <1>3, <1>4, <3>2
    <3> QED BY <1>1, <1>2, <1>4, <1>5, <2>1, <3>1, <3>3, FoundStays
  <2>2. ASSUME ~d.builtin PROVE Found(x)'
    <3>a. Found(x)
      BY <1>1, <2>2 DEF CInv, AllFound, d
    <3>b. PICK tree : tree = Nested[d.text]
      OBVIOUS
    <3>1. PICK pl : DOMAIN pl = Mine(x) /\ Placing(tree, Kept, FALSE, DOMAIN finished, pl)
      BY <1>4, <3>a, <3>b DEF Found, d
    <3>2. Grows(tree) /\ <<>> \in DOMAIN tree /\ tree[<<>>] = d.text /\ tree[<<>>] \in Texts
      BY <1>1, <3>b, Trees DEF d
    <3>3. PICK base : base = <<>>
      OBVIOUS
    <3>4. PICK q : q = Spread(pl, ids, base, first)
      OBVIOUS
    <3>5. /\ DOMAIN q = DOMAIN pl \cup ids
          /\ \A p : Opened(TRUE, DOMAIN finished', q, p) <=> Opened(FALSE, DOMAIN finished, pl, p) \/ p = base
          /\ ~Opened(FALSE, DOMAIN finished, pl, base)
      BY <1>1, <3>3, <3>4 DEF Opened, Spread
    <3>6. /\ ids = DOMAIN Generated(tree[base], first)
          /\ \A a \in ids : Kept'[a] = Generated(tree[base], first)[a]
      BY <1>3, <1>4, <2>2, <3>2, <3>3 DEF ids, d
    <3>7. /\ \A a \in ids : a \notin DOMAIN pl
          /\ \A f \in DOMAIN pl : Kept'[f] = Kept[f]
      <4>1. \A f \in Mine(x) : f \in DOMAIN parents
        BY DEF Mine
      <4> QED BY <1>3, <1>4, <3>1, <4>1 DEF ids
    <3>8. Spreading(tree, Kept, FALSE, DOMAIN finished, pl, base, first, ids,
                    Kept', TRUE, DOMAIN finished', q)
      BY <3>1, <3>2, <3>3, <3>4, <3>5, <3>6, <3>7 DEF Spreading
    <3>9. Placing(tree, Kept', TRUE, DOMAIN finished', q)
      BY <3>8, Spreads
    <3>10. Nested[Fn(x).text]' = tree /\ DOMAIN q = Mine(x)'
      BY <1>2, <1>6, <3>1, <3>5, <3>b DEF d
    <3> QED BY <1>4, <3>9, <3>10 DEF Found
  <2> QED BY <1>2, <2>1, <2>2 DEF AllFound, d
<1>8. AnonsChecked'
  <2>1. \A f, k : <<f, k>> \notin owners'
    <3>1. \A f, k : <<f, k>> \in owners => f \in DOMAIN parents
      BY DEF CInv, AnonsChecked
    <3>2. ASSUME NEW f \in DOMAIN parents, NEW k PROVE <<f, k>> \notin owners
      <4>1. PICK y \in Items("fns") : parents[f] = Fn(y).id
        BY <1>1 DEF SInv, PInv, Stored
      <4>2. f \in Mine(y)
        BY <4>1 DEF Mine
      <4> QED BY <1>1, <4>2 DEF CInv, AnonsChecked, InModule
    <3> QED BY <3>1, <3>2
  <2> QED BY <1>1, <2>1 DEF AnonsChecked, InModule
<1>9. FnsChecked'
  <2>1. \A y : Entered(y)' <=> Entered(y)
    BY <1>2 DEF Entered
  <2>2. \A y \in Items("fns") \ todo' : Entered(y)
    BY DEF CInv, FnsChecked
  <2> QED BY <1>2, <2>1, <2>2 DEF FnsChecked, Late
<1>10. AnonsMine'
  <2>1. Anons(x)' = ids
    BY <1>2 DEF Anons, Put, ids, d
  <2>2. ASSUME NEW y \in Items("fns") \ todo PROVE Anons(y)' \subseteq Mine(y)'
    <3>1. y # x /\ Fn(y).id # Fn(x).id /\ Fn(y).id \in DOMAIN fnMap
      BY <1>1 DEF SInv, PInv, IInv, Generating
    <3>2. Anons(y)' = Anons(y)
      BY <1>2, <3>1 DEF Anons, Put
    <3> QED BY <1>5, <3>1, <3>2 DEF CInv, AnonsMine
  <2>3. \A y \in Items("fns") \ todo' : Anons(y)' \subseteq Mine(y)'
    BY <1>6, <2>1, <2>2
  <2> QED BY <1>2, <2>3 DEF AnonsMine
<1>11. TypesChecked' /\ Refused' /\ Ends' /\ NamesApart'
  BY <1>2 DEF CInv, TypesChecked, Refused, Ends, NamesApart, Late
<1> QED BY <1>7, <1>8, <1>9, <1>10, <1>11 DEF CInv

LEMMA GenerateChecks ==
  ASSUME CInv, SInv', NEW x \in todo, GenerateFn(x) \/ GenerateBuiltin(x)
  PROVE  CInv'
<1>1. /\ outcome = "running" /\ pass = "fns" /\ nextId \in Nat /\ SInv
      /\ x \in Items("fns") /\ Fn(x).text \in Texts /\ Fn(x) = raw[x[1]].fns[x[2]]
  BY DEF GenerateFn, GenerateBuiltin, CInv, SInv, PInv, IInv, RawOK, Generating, Fn
<1>2. CASE End("panic")
  BY <1>2, PanicRefuses
<1>3. CASE Untypable(Fn(x).text, x[1])
  <2>1. ~Acceptable /\ (Fn(x).text.form = "panic" => Crashing)
    BY <1>1, <1>3, UntypableEnds, BadSignature
  <2>2. \/ End("UnknownType") \/ End("TypeError")
        \/ Fn(x).text.form = "panic" /\ End("crash")
    BY <1>3, UntypableEnds
  <2> QED BY <2>1, <2>2, EndChecks
<1>4. CASE ~Fn(x).builtin /\ ~Fn(x).text.graph /\ End("ControlFlowError")
  <2>1. <<>> \in DOMAIN Nested[Fn(x).text] /\ Nested[Fn(x).text][<<>>] = Fn(x).text
    BY <1>1, Trees
  <2>2. ~Fine(Nested[Fn(x).text][<<>>], x[1])
    BY <1>4, <2>1 DEF Fine
  <2>3. ~Acceptable
    BY <1>1, <1>4, <2>1, <2>2, BadBody
  <2> QED BY <1>4, <2>3, EndChecks
<1>5. CASE GenerateBuiltin(x) /\ ~End("panic") /\ ~Untypable(Fn(x).text, x[1])
  <2> DEFINE fn == [text |-> Fn(x).text, mod |-> x[1], anons |-> {}]
  <2>1. /\ Fn(x).builtin /\ pass' = "fns" /\ todo' = todo \ {x} /\ outcome' = "running"
        /\ UNCHANGED <<program, raw, scopes, buffer, parents, finished, owners>>
        /\ fnMap' = Put(fnMap, Fn(x).id, fn) /\ Typed(Fn(x).text, x[1])
    BY <1>1, <1>5 DEF GenerateBuiltin, Mapped, declared, named, worklist
  <2>2. PICK texts : texts = Empty
    OBVIOUS
  <2>3. DOMAIN texts = {} /\ fn.anons = DOMAIN texts
    BY <2>2 DEF Empty
  <2>4. /\ DOMAIN parents' = DOMAIN parents \cup DOMAIN texts
        /\ \A a \in DOMAIN texts : parents'[a] = Fn(x).id /\ buffer'[a] = texts[a]
        /\ \A a \in DOMAIN parents : parents'[a] = parents[a] /\ buffer'[a] = buffer[a]
        /\ \A a \in DOMAIN texts : a \notin DOMAIN parents
    BY <2>1, <2>3
  <2>5. Entered(x)
    BY <2>1 DEF Entered
  <2> HIDE DEF fn
  <2> QED BY <1>1, <2>1, <2>2, <2>3, <2>4, <2>5, FnGenerated
<1>6. CASE /\ GenerateFn(x) /\ ~End("panic") /\ ~Untypable(Fn(x).text, x[1])
           /\ ~(~Fn(x).text.graph /\ End("ControlFlowError"))
  <2> DEFINE texts == Generated(Fn(x).text, nextId)
             fn == [text |-> Fn(x).text, mod |-> x[1], anons |-> DOMAIN texts]
  <2>1. /\ ~Fn(x).builtin /\ pass' = "fns" /\ todo' = todo \ {x} /\ outcome' = "running"
        /\ UNCHANGED <<program, raw, scopes, finished, owners>>
        /\ fnMap' = Put(fnMap, Fn(x).id, fn)
        /\ Typed(Fn(x).text, x[1]) /\ Fn(x).text.graph
        /\ buffer' = Append2(buffer, texts)
        /\ parents' = Append2(parents, ToAll(DOMAIN texts, Fn(x).id))
        /\ DOMAIN buffer = DOMAIN parents
    <3> HIDE DEF texts
    <3>1. texts = Generated(Fn(x).text, nextId)
      BY DEF texts
    <3>2. DOMAIN buffer = DOMAIN parents
      BY <1>1 DEF SInv, PInv, Stored
    <3> QED BY <1>1, <1>6, <3>1, <3>2 DEF GenerateFn, Mapped, declared, named
  <2>2. \A a \in DOMAIN texts : a \notin DOMAIN parents
    <3>1. PInv /\ nextId <= nextId
      BY <1>1 DEF SInv
    <3> QED BY <1>1, <3>1, NewIds
  <2>3. Entered(x) /\ fn.anons = DOMAIN texts
    BY <2>1 DEF Entered
  <2>4. texts = Generated(Fn(x).text, nextId)
    OBVIOUS
  <2> HIDE DEF texts, fn
  <2>5. /\ DOMAIN parents' = DOMAIN parents \cup DOMAIN texts
        /\ \A a \in DOMAIN texts : parents'[a] = Fn(x).id /\ buffer'[a] = texts[a]
        /\ \A a \in DOMAIN parents : parents'[a] = parents[a] /\ buffer'[a] = buffer[a]
    BY <2>1, <2>2 DEF Append2, ToAll
  <2>6. PICK first \in Nat : first = nextId
    BY <1>1
  <2>7. IF Fn(x).builtin THEN texts = Empty ELSE texts = Generated(Fn(x).text, first)
    BY <2>1, <2>4, <2>6
  <2>8. pass = "fns" /\ UNCHANGED <<program, raw, scopes, finished, owners>>
    BY <1>1, <2>1
  <2> QED BY <2>1, <2>2, <2>3, <2>5, <2>7, <2>8, FnGenerated
<1>7. GenerateFn(x) => ~Fn(x).builtin
  BY <1>1 DEF GenerateFn
<1> QED BY <1>2, <1>3, <1>4, <1>5, <1>6, <1>7

-----------------------------------------------------------------------------
(* The analysis of the declared functions.                                 *)

\* A flaw of a body, of a function found in one, or of one next to it.
LEMMA BadOwn ==
  ASSUME SInv, pass \in Late, NEW x \in Items("fns"), ~Fn(x).builtin, ~Fine(Fn(x).text, x[1])
  PROVE  ~Acceptable /\ (Panics(Fn(x).text) => Crashing)
<1>1. Fn(x).text \in Texts /\ pass \notin {"raw", "usings"}
  BY DEF SInv, PInv, IInv, RawOK, Late
<1>2. <<>> \in DOMAIN Nested[Fn(x).text] /\ Nested[Fn(x).text][<<>>] = Fn(x).text
  BY <1>1, Trees
<1> QED BY <1>1, <1>2, BadBody

LEMMA BadMine ==
  ASSUME SInv, pass \in Late, NEW x \in Items("fns"), ~Fn(x).builtin, Found(x),
         NEW f \in Mine(x), ~Fine(Kept[f], x[1])
  PROVE  ~Acceptable /\ (Panics(Kept[f]) => Crashing)
<1>1. PICK pl : /\ DOMAIN pl = Mine(x)
                /\ Placing(Nested[Fn(x).text], Kept, Begun(x), DOMAIN finished, pl)
  BY DEF Found
<1>2. pl[f] \in DOMAIN Nested[Fn(x).text] /\ Kept[f] = Nested[Fn(x).text][pl[f]]
  BY <1>1 DEF Placing
<1>3. pass \notin {"raw", "usings"}
  BY DEF Late
<1> QED BY <1>2, <1>3, BadBody

LEMMA BadNested ==
  ASSUME SInv, pass \in Late, NEW x \in Items("fns"), ~Fn(x).builtin, Found(x),
         NEW f \in Mine(x), NEW i \in DOMAIN Kept[f].anons, ~Fine(Kept[f].anons[i], x[1])
  PROVE  ~Acceptable /\ (Panics(Kept[f].anons[i]) => Crashing)
<1>1. PICK pl : /\ DOMAIN pl = Mine(x)
                /\ Placing(Nested[Fn(x).text], Kept, Begun(x), DOMAIN finished, pl)
  BY DEF Found
<1>2. pl[f] \in DOMAIN Nested[Fn(x).text] /\ Kept[f] = Nested[Fn(x).text][pl[f]]
  BY <1>1 DEF Placing
<1>3. pass \notin {"raw", "usings"} /\ Fn(x).text \in Texts
  BY DEF Late, SInv, PInv, IInv, RawOK
<1>4. Grows(Nested[Fn(x).text])
  BY <1>3, Trees
<1>5. /\ Inner(pl[f], i) \in DOMAIN Nested[Fn(x).text]
      /\ Nested[Fn(x).text][Inner(pl[f], i)] = Kept[f].anons[i]
  BY <1>2, <1>4 DEF Grows
<1> QED BY <1>3, <1>5, BadBody

\* What holds of the functions while the tables stay as they are.
LEMMA TablesStay ==
  ASSUME UNCHANGED <<program, raw, scopes>>
  PROVE  /\ Items("fns")' = Items("fns") /\ Items("types")' = Items("types")
         /\ \A y : Fn(y)' = Fn(y) /\ Ty(y)' = Ty(y)
         /\ \A t, m : /\ Typed(t, m)' <=> Typed(t, m)
                      /\ Resolves(t, m)' <=> Resolves(t, m)
                      /\ Fine(t, m)' <=> Fine(t, m)
         /\ \A y : Entered(y)' <=> Entered(y)
         /\ SameName' <=> SameName
<1>1. /\ Items("fns")' = Items("fns") /\ Items("types")' = Items("types")
      /\ \A y : Fn(y)' = Fn(y) /\ Ty(y)' = Ty(y)
  BY Unmoved, TypesUnmoved
<1>2. \A t, m : Typed(t, m)' <=> Typed(t, m)
  BY DEF Typed
<1>3. \A t, m : Resolves(t, m)' <=> Resolves(t, m)
  BY DEF Resolves
<1>4. \A t, m : Fine(t, m)' <=> Fine(t, m)
  BY <1>2, <1>3 DEF Fine
<1>5. \A y : Entered(y)' <=> Entered(y)
  BY <1>1, <1>2 DEF Entered
<1>6. SameName' <=> SameName
  BY TextStays
<1> QED BY <1>1, <1>2, <1>3, <1>4, <1>5, <1>6

LEMMA EnterAnalysisChecks ==
  ASSUME CInv, SInv', EnterAnalysis
  PROVE  CInv'
<1>1. pass = "fns" /\ todo = {} /\ outcome = "running" /\ SInv
  BY DEF EnterAnalysis, CInv
<1>2. CASE End("panic")
  BY <1>2, PanicRefuses
<1>3. CASE ~End("panic")
  <2>1. /\ ~SameName /\ pass' = "analyze" /\ todo' = Items("fns") /\ outcome' = "running"
        /\ anonFns' = buffer /\ UNCHANGED <<program, raw, scopes, fnMap>>
        /\ UNCHANGED <<parents, unresolved, resolving, finished, owners>>
    BY <1>1, <1>3 DEF EnterAnalysis, Enter, declared, named, worklist
  <2>2. /\ Items("fns")' = Items("fns") /\ Items("types")' = Items("types")
        /\ \A y : Fn(y)' = Fn(y) /\ Ty(y)' = Ty(y)
        /\ \A t, m : (Typed(t, m)' <=> Typed(t, m)) /\ (Fine(t, m)' <=> Fine(t, m))
        /\ \A y : Entered(y)' <=> Entered(y)
        /\ SameName' <=> SameName
    BY <2>1, TablesStay
  <2>3. Kept = buffer /\ Kept' = buffer
    BY <1>1, <2>1 DEF Kept, Late
  <2>4. \A y : Mine(y)' = Mine(y) /\ Anons(y)' = Anons(y)
    BY <2>1, <2>2 DEF Mine, Anons
  <2>5. \A f, m : InModule(f, m)' <=> InModule(f, m)
    BY <2>1, <2>2, <2>3 DEF InModule
  <2>6. AllFound'
    <3>1. ASSUME NEW y \in Items("fns"), ~Fn(y).builtin PROVE Found(y)'
      <4>1. Begun(y)' = TRUE /\ Begun(y) = TRUE
        BY <1>1, <2>1 DEF Begun, Late
      <4>2. Found(y)
        BY <3>1 DEF CInv, AllFound
      <4> QED BY <2>1, <2>2, <2>3, <2>4, <4>1, <4>2, FoundStays
    <3> QED BY <2>2, <3>1 DEF AllFound
  <2>7. AnonsChecked'
    BY <2>1, <2>2, <2>4, <2>5 DEF CInv, AnonsChecked
  <2>8. FnsChecked'
    BY <1>1, <2>1, <2>2 DEF CInv, FnsChecked, Late
  <2>9. AnonsMine'
    BY <1>1, <2>1, <2>2, <2>4 DEF CInv, AnonsMine
  <2>10. TypesChecked' /\ Refused' /\ Ends' /\ NamesApart'
    BY <1>1, <2>1, <2>2 DEF CInv, TypesChecked, Refused, Ends, NamesApart, Late
  <2> QED BY <2>6, <2>7, <2>8, <2>9, <2>10 DEF CInv
<1> QED BY <1>2, <1>3

\* A declared function that is analysed hands its anonymous ones to the rounds.
LEMMA FnAnalyzed ==
  ASSUME CInv, SInv', pass = "analyze", pass' = "analyze", outcome' = "running",
         NEW x \in todo, todo' = todo \ {x},
         UNCHANGED <<program, raw, scopes, anonFns>>, UNCHANGED <<parents, resolving, owners>>,
         finished' = Put(finished, Fn(x).id, Fn(x).text),
         \A y \in todo : y # x => fnMap'[Fn(y).id] = fnMap[Fn(y).id],
         Fn(x).builtin \/ (Resolves(Fn(x).text, x[1]) /\ Fn(x).text.body = "ok"),
         \A f \in DOMAIN unresolved' :
           \/ f \in DOMAIN unresolved /\ unresolved'[f] = unresolved[f]
           \/ f \in Mine(x) /\ unresolved'[f] = x[1] /\ Typed(Kept[f], x[1])
  PROVE  CInv'
<1>1. /\ SInv /\ x \in Items("fns") /\ todo \subseteq Items("fns")
      /\ DOMAIN finished = {Fn(y).id : y \in Items("fns") \ todo}
      /\ \A y, z \in Items("fns") : Fn(y).id = Fn(z).id => y = z
  BY DEF CInv, SInv, PInv, IInv, RawOK, Analyzing
<1>2. /\ Items("fns")' = Items("fns") /\ Items("types")' = Items("types")
      /\ \A y : Fn(y)' = Fn(y) /\ Ty(y)' = Ty(y)
      /\ \A t, m : /\ Typed(t, m)' <=> Typed(t, m)
                   /\ Resolves(t, m)' <=> Resolves(t, m)
                   /\ Fine(t, m)' <=> Fine(t, m)
      /\ \A y : Entered(y)' <=> Entered(y)
      /\ SameName' <=> SameName
  BY TablesStay
<1>3. /\ DOMAIN finished' = DOMAIN finished \cup {Fn(x).id} /\ finished'[Fn(x).id] = Fn(x).text
      /\ \A i \in DOMAIN finished : i # Fn(x).id => finished'[i] = finished[i]
  BY DEF Put
<1>4. \A f \in DOMAIN parents : f # Fn(x).id
  BY <1>1, FnPlace DEF SInv, PInv, IInv, AnonsOK
<1>5. \A y : Mine(y)' = Mine(y) /\ \A f \in Mine(y) : f \in DOMAIN parents /\ parents[f] = Fn(y).id
  BY <1>2 DEF Mine
<1>6. Kept' = Kept /\ \A y : Begun(y)' = TRUE /\ Begun(y) = TRUE
  BY DEF Kept, Begun, Late
<1>7. AllFound'
  <2>1. ASSUME NEW y \in Items("fns"), ~Fn(y).builtin PROVE Found(y)'
    <3>1. Found(y)
      BY <2>1 DEF CInv, AllFound
    <3>2. \A f \in Mine(y) : f \in DOMAIN finished' <=> f \in DOMAIN finished
      BY <1>3, <1>4, <1>5
    <3> QED BY <1>2, <1>5, <1>6, <3>1, <3>2, FoundStays
  <2> QED BY <1>2, <2>1 DEF AllFound
<1>8. AnonsChecked'
  <2>1. ASSUME NEW y \in Items("fns"), NEW f \in Mine(y) PROVE InModule(f, y[1])'
    <3>1. InModule(f, y[1])
      BY DEF CInv, AnonsChecked
    <3>2. f \in Mine(x) => y = x
      BY <1>1, <1>5
    <3>3. f \in DOMAIN unresolved' => unresolved'[f] = y[1] /\ Typed(Kept[f], y[1])
      BY <3>1, <3>2 DEF InModule
    <3>4. f \in DOMAIN resolving' => resolving'[f] = y[1] /\ Typed(Kept[f], y[1])
      BY <3>1 DEF InModule
    <3>5. /\ f \in DOMAIN finished' <=> f \in DOMAIN finished
          /\ f \in DOMAIN finished => finished'[f] = finished[f]
      BY <1>3, <1>4, <1>5
    <3> QED BY <1>2, <1>6, <3>1, <3>3, <3>4, <3>5 DEF InModule
  <2> QED BY <1>2, <1>5, <2>1 DEF CInv, AnonsChecked
<1>9. FnsChecked'
  <2>1. ASSUME NEW y \in Items("fns") \ todo' PROVE Analyzed(y)'
    <3>1. CASE y = x
      BY <1>2, <1>3, <3>1 DEF Analyzed
    <3>2. CASE y # x
      <4>1. Analyzed(y) /\ Fn(y).id \in DOMAIN finished /\ Fn(y).id # Fn(x).id
        BY <1>1, <3>2 DEF CInv, FnsChecked
      <4> QED BY <1>2, <1>3, <4>1 DEF Analyzed
    <3> QED BY <3>1, <3>2
  <2> QED BY <1>2, <2>1 DEF CInv, FnsChecked, Late
<1>10. AnonsMine'
  <2>1. \A y \in todo' : Anons(y)' = Anons(y)
    BY <1>2 DEF Anons
  <2> QED BY <1>5, <2>1 DEF CInv, AnonsMine
<1>11. TypesChecked' /\ Refused' /\ Ends' /\ NamesApart'
  BY <1>2 DEF CInv, TypesChecked, Refused, Ends, NamesApart, Late
<1> QED BY <1>7, <1>8, <1>9, <1>10, <1>11 DEF CInv

LEMMA AnalyzeChecks ==
  ASSUME CInv, SInv', NEW x \in todo, AnalyzeFn(x) \/ FinishBuiltin(x)
  PROVE  CInv'
<1>1. /\ outcome = "running" /\ pass = "analyze" /\ SInv /\ pass \in Late /\ Kept = anonFns
      /\ x \in Items("fns") /\ todo \subseteq Items("fns") /\ Fn(x) = raw[x[1]].fns[x[2]]
      /\ Fn(x).id \in DOMAIN fnMap /\ Anons(x) \subseteq Mine(x) /\ Anons(x) \subseteq DOMAIN anonFns
  BY DEF AnalyzeFn, FinishBuiltin, CInv, SInv, PInv, IInv, Analyzing, Stored, AnonsMine, Fn, Late, Kept
<1>2. \A y \in todo : y # x => Fn(y).id # Fn(x).id /\ Fn(y).id \in DOMAIN fnMap
  BY <1>1 DEF SInv, PInv, IInv, RawOK, Analyzing
<1>3. CASE End("panic")
  BY <1>3, PanicRefuses
<1>4. CASE FinishBuiltin(x)
  <2>1. /\ Fn(x).builtin /\ pass' = "analyze" /\ todo' = todo \ {x} /\ outcome' = "running"
        /\ UNCHANGED <<program, raw, scopes, anonFns, fnMap, unresolved>>
        /\ UNCHANGED <<parents, resolving, owners>>
        /\ finished' = Put(finished, Fn(x).id, Fn(x).text)
    BY <1>1, <1>4 DEF FinishBuiltin, declared, named, universe, ready
  <2> QED BY <1>1, <2>1, FnAnalyzed
<1>5. CASE AnalyzeFn(x) /\ ~End("panic")
  <2>a. PICK anons : anons = [a \in Anons(x) \cap DOMAIN anonFns |-> anonFns[a]]
    OBVIOUS
  <2>b. PICK new : new = ToAll(Anons(x), x[1])
    OBVIOUS
  <2>1. /\ ~Fn(x).builtin /\ Found(x)
        /\ DOMAIN anons = Anons(x) /\ \A a \in Anons(x) : anons[a] = Kept[a]
        /\ DOMAIN new = Anons(x) /\ \A a \in Anons(x) : new[a] = x[1]
    BY <1>1, <1>5, <2>a, <2>b DEF AnalyzeFn, CInv, AllFound, ToAll
  <2>2. CASE Rejected(Fn(x).text, x[1], anons)
    <3>1. CASE ~Resolves(Fn(x).text, x[1]) /\ End("UnknownFn")
      <4>1. ~Fine(Fn(x).text, x[1])
        BY <3>1 DEF Fine
      <4> QED BY <1>1, <2>1, <3>1, <4>1, BadOwn, EndChecks
    <3>2. CASE Fn(x).text.body = "error" /\ End("TypeError")
      <4>1. ~Fine(Fn(x).text, x[1])
        BY <3>2 DEF Fine
      <4> QED BY <1>1, <2>1, <3>2, <4>1, BadOwn, EndChecks
    <3>3. CASE Fn(x).text.body = "panic" /\ End("crash")
      <4>1. ~Fine(Fn(x).text, x[1]) /\ Panics(Fn(x).text)
        BY <3>3 DEF Fine, Panics
      <4> QED BY <1>1, <2>1, <3>3, <4>1, BadOwn, EndChecks
    <3>4. ASSUME NEW a \in DOMAIN anons, Untypable(anons[a], x[1]) PROVE CInv'
      <4>1. a \in Mine(x) /\ anons[a] = Kept[a]
        BY <1>1, <2>1
      <4>2. ~Fine(Kept[a], x[1])
        BY <3>4, <4>1, UntypableEnds DEF Fine
      <4>3. ~Acceptable /\ (anons[a].form = "panic" => Crashing)
        BY <1>1, <2>1, <4>1, <4>2, BadMine DEF Panics
      <4>4. \/ End("UnknownType") \/ End("TypeError")
            \/ anons[a].form = "panic" /\ End("crash")
        BY <3>4, UntypableEnds
      <4> QED BY <4>3, <4>4, EndChecks
    <3> QED BY <2>2, <3>1, <3>2, <3>3, <3>4 DEF Rejected
  <2>3. CASE ~Rejected(Fn(x).text, x[1], anons)
    <3>1. /\ pass' = "analyze" /\ todo' = todo \ {x} /\ outcome' = "running"
          /\ UNCHANGED <<program, raw, scopes, anonFns>>
          /\ UNCHANGED <<parents, resolving, owners>>
          /\ fnMap' = Without(fnMap, Fn(x).id)
          /\ unresolved' = Append2(unresolved, new)
          /\ finished' = Put(finished, Fn(x).id, Fn(x).text)
          /\ Accepted(Fn(x).text, x[1], anons)
      <4>1. /\ anons = [a \in fnMap[Fn(x).id].anons \cap DOMAIN anonFns |-> anonFns[a]]
            /\ new = ToAll(fnMap[Fn(x).id].anons, x[1])
        BY <2>a, <2>b DEF Anons
      <4> QED BY <1>1, <1>5, <2>3, <4>1 DEF AnalyzeFn, declared, named, universe
    <3>2. /\ Resolves(Fn(x).text, x[1]) /\ Fn(x).text.body = "ok"
          /\ \A a \in Anons(x) : Typed(Kept[a], x[1])
      BY <2>1, <3>1 DEF Accepted, Annotated
    <3>3. \A y \in todo : y # x => fnMap'[Fn(y).id] = fnMap[Fn(y).id]
      BY <1>2, <3>1 DEF Without
    <3>4. \A f \in DOMAIN unresolved' :
            \/ f \in DOMAIN unresolved /\ unresolved'[f] = unresolved[f]
            \/ f \in Mine(x) /\ unresolved'[f] = x[1] /\ Typed(Kept[f], x[1])
      BY <1>1, <2>1, <3>1, <3>2 DEF Append2
    <3> QED BY <1>1, <3>1, <3>2, <3>3, <3>4, FnAnalyzed
  <2> QED BY <2>2, <2>3
<1> QED BY <1>3, <1>4, <1>5


-----------------------------------------------------------------------------
(* The rounds over the anonymous functions.                                *)

LEMMA EnterAnonymousChecks ==
  ASSUME CInv, SInv', EnterAnonymous
  PROVE  CInv'
<1>1. /\ pass = "analyze" /\ pass' = "anonymous" /\ todo = {} /\ outcome' = "running"
      /\ UNCHANGED <<program, raw, scopes, fnMap, buffer, anonFns>>
      /\ UNCHANGED <<parents, unresolved, resolving, finished, owners>>
  BY DEF EnterAnonymous, Enter, declared, named, universe, ready, worklist
<1>2. /\ Items("fns")' = Items("fns") /\ Items("types")' = Items("types")
      /\ \A y : Fn(y)' = Fn(y) /\ Ty(y)' = Ty(y)
      /\ \A t, m : /\ Typed(t, m)' <=> Typed(t, m)
                   /\ Resolves(t, m)' <=> Resolves(t, m)
                   /\ Fine(t, m)' <=> Fine(t, m)
      /\ \A y : Entered(y)' <=> Entered(y)
      /\ SameName' <=> SameName
  BY <1>1, TablesStay
<1>3. /\ \A y : Mine(y)' = Mine(y) /\ (Analyzed(y)' <=> Analyzed(y))
      /\ Kept' = Kept /\ \A y : Begun(y)' = Begun(y)
  BY <1>1, <1>2 DEF Mine, Kept, Begun, Late, Analyzed
<1>4. \A f, m : InModule(f, m)' <=> InModule(f, m)
  BY <1>1, <1>2, <1>3 DEF InModule
<1>5. AllFound'
  <2>1. ASSUME NEW y \in Items("fns"), ~Fn(y).builtin PROVE Found(y)'
    <3>1. Found(y)
      BY <2>1 DEF CInv, AllFound
    <3> QED BY <1>1, <1>2, <1>3, <3>1, FoundStays
  <2> QED BY <1>2, <2>1 DEF AllFound
<1>6. AnonsChecked' /\ AnonsMine'
  BY <1>1, <1>2, <1>3, <1>4 DEF CInv, AnonsChecked, AnonsMine
<1>7. FnsChecked'
  BY <1>1, <1>2, <1>3 DEF CInv, FnsChecked, Late
<1>8. TypesChecked' /\ Refused' /\ Ends' /\ NamesApart'
  BY <1>1, <1>2 DEF CInv, TypesChecked, Refused, Ends, NamesApart, Late
<1> QED BY <1>5, <1>6, <1>7, <1>8 DEF CInv

LEMMA StartRoundChecks ==
  ASSUME CInv, SInv', StartRound
  PROVE  CInv'
<1>1. /\ pass = "anonymous" /\ pass' = "anonymous" /\ outcome' = "running" /\ DOMAIN resolving = {}
      /\ UNCHANGED <<program, raw, scopes, anonFns, parents, finished, owners>>
      /\ resolving' = unresolved /\ DOMAIN unresolved' = {}
  BY DEF StartRound, RoundOver, declared, named, universe, Empty
<1>2. /\ Items("fns")' = Items("fns") /\ Items("types")' = Items("types")
      /\ \A y : Fn(y)' = Fn(y) /\ Ty(y)' = Ty(y)
      /\ \A t, m : /\ Typed(t, m)' <=> Typed(t, m)
                   /\ Resolves(t, m)' <=> Resolves(t, m)
                   /\ Fine(t, m)' <=> Fine(t, m)
      /\ \A y : Entered(y)' <=> Entered(y)
      /\ SameName' <=> SameName
  BY <1>1, TablesStay
<1>3. /\ \A y : Mine(y)' = Mine(y) /\ (Analyzed(y)' <=> Analyzed(y))
      /\ Kept' = Kept /\ \A y : Begun(y)' = Begun(y)
  BY <1>1, <1>2 DEF Mine, Kept, Begun, Late, Analyzed
<1>4. \A f, m : InModule(f, m) => InModule(f, m)'
  BY <1>1, <1>2, <1>3 DEF InModule
<1>5. AllFound'
  <2>1. ASSUME NEW y \in Items("fns"), ~Fn(y).builtin PROVE Found(y)'
    <3>1. Found(y)
      BY <2>1 DEF CInv, AllFound
    <3> QED BY <1>1, <1>2, <1>3, <3>1, FoundStays
  <2> QED BY <1>2, <2>1 DEF AllFound
<1>6. AnonsChecked' /\ AnonsMine'
  BY <1>1, <1>2, <1>3, <1>4 DEF CInv, AnonsChecked, AnonsMine
<1>7. FnsChecked'
  BY <1>1, <1>2, <1>3 DEF CInv, FnsChecked, Late
<1>8. TypesChecked' /\ Refused' /\ Ends' /\ NamesApart'
  BY <1>1, <1>2 DEF CInv, TypesChecked, Refused, Ends, NamesApart, Late
<1> QED BY <1>5, <1>6, <1>7, <1>8 DEF CInv

\* An anonymous function that is analysed hands those nested in it to the
\* next round; they are at the places next to its own.
LEMMA AnonResolved ==
  ASSUME CInv, SInv', pass = "anonymous", pass' = "anonymous", outcome' = "running",
         UNCHANGED <<program, raw, scopes>>,
         NEW f \in DOMAIN resolving, NEW x \in Items("fns"), ~Fn(x).builtin, f \in Mine(x),
         NEW t, t = Kept[f], Fine(t, x[1]),
         NEW first \in Nat, nextId <= first, NEW nested, nested = Generated(t, first),
         \A a \in DOMAIN nested : Typed(nested[a], x[1]),
         parents' = Append2(parents, ToAll(DOMAIN nested, Fn(x).id)),
         anonFns' = Append2(anonFns, nested),
         unresolved' = Append2(unresolved, ToAll(DOMAIN nested, x[1])),
         resolving' = Without(resolving, f),
         finished' = Put(finished, f, t),
         owners' = owners \cup {<<f, x[1]>>}
  PROVE  CInv'
<1> DEFINE ids == DOMAIN nested
           m == x[1]
<1>1. /\ SInv /\ Kept = anonFns /\ Kept' = anonFns' /\ DOMAIN anonFns = DOMAIN parents /\ t \in Texts
      /\ \A y, z \in Items("fns") : Fn(y).id = Fn(z).id => y = z
      /\ DOMAIN unresolved \subseteq DOMAIN parents /\ DOMAIN resolving \subseteq DOMAIN parents
      /\ f \in DOMAIN parents /\ parents[f] = Fn(x).id
      /\ f \notin DOMAIN finished /\ f \notin DOMAIN unresolved
      /\ \A y : Begun(y) = TRUE /\ Begun(y)' = TRUE
  BY DEF CInv, SInv, PInv, IInv, RawOK, AnonsOK, Resolving, Stored, Kept, Late, Mine, Begun
<1>2. /\ Items("fns")' = Items("fns") /\ Items("types")' = Items("types")
      /\ \A y : Fn(y)' = Fn(y) /\ Ty(y)' = Ty(y)
      /\ \A u, k : /\ Typed(u, k)' <=> Typed(u, k)
                   /\ Resolves(u, k)' <=> Resolves(u, k)
                   /\ Fine(u, k)' <=> Fine(u, k)
      /\ \A y : Entered(y)' <=> Entered(y)
      /\ SameName' <=> SameName
  BY TablesStay
<1>3. \A a \in ids : a \notin DOMAIN parents /\ a \notin DOMAIN finished /\ a # f
  <2>1. \A a \in ids : a \in Nat /\ first <= a
    BY <1>1, GeneratedIds
  <2>2. \A a \in DOMAIN parents \cup DOMAIN finished : a \in Nat /\ a < nextId
    <3>1. \A a \in Declared : a \in Nat /\ a < nextId
      BY <1>1, Placed DEF SInv, PInv, IInv, RawOK
    <3>2. \A a \in DOMAIN parents : a \in Nat /\ a < nextId
      BY <1>1 DEF SInv, PInv, IInv, AnonsOK
    <3> QED BY <1>1, <3>1, <3>2 DEF SInv, PInv, IInv, Resolving
  <2>3. nextId \in Nat
    BY <1>1 DEF SInv, PInv, IInv, RawOK
  <2>4. \A a \in Nat : first <= a => ~(a < nextId)
    BY <2>3
  <2> QED BY <1>1, <2>1, <2>2, <2>4
<1>4. /\ DOMAIN parents' = DOMAIN parents \cup ids
      /\ \A a \in ids : parents'[a] = Fn(x).id
      /\ \A a \in DOMAIN parents : parents'[a] = parents[a]
  BY <1>3 DEF Append2, ToAll
<1>5. /\ \A a \in ids : Kept'[a] = nested[a]
      /\ \A a \in DOMAIN parents : Kept'[a] = Kept[a]
  BY <1>1, <1>3 DEF Append2
<1>6. /\ DOMAIN unresolved' = DOMAIN unresolved \cup ids
      /\ \A a \in ids : unresolved'[a] = m
      /\ \A a \in DOMAIN unresolved : unresolved'[a] = unresolved[a]
      /\ DOMAIN resolving' = DOMAIN resolving \ {f}
      /\ \A a \in DOMAIN resolving' : resolving'[a] = resolving[a]
  BY <1>1, <1>3 DEF Append2, ToAll, Without
<1>7. /\ DOMAIN finished' = DOMAIN finished \cup {f} /\ finished'[f] = t
      /\ \A i \in DOMAIN finished : i # f => finished'[i] = finished[i]
  BY DEF Put
<1>8. /\ \A y : \A a \in Mine(y) : a \in DOMAIN parents /\ parents[a] = Fn(y).id
      /\ \A y \in Items("fns") : y # x => Mine(y)' = Mine(y)
      /\ Mine(x)' = Mine(x) \cup ids
  <2>1. \A y : \A a \in Mine(y) : a \in DOMAIN parents /\ parents[a] = Fn(y).id
    BY DEF Mine
  <2>2. Mine(x)' = Mine(x) \cup ids
    BY <1>2, <1>4 DEF Mine
  <2>3. ASSUME NEW y \in Items("fns"), y # x PROVE Mine(y)' = Mine(y)
    <3>1. Fn(y).id # Fn(x).id
      BY <1>1, <2>3
    <3> QED BY <1>2, <1>4, <3>1 DEF Mine
  <2> QED BY <2>1, <2>2, <2>3
<1>9. nested = Generated(t, first) /\ ids = DOMAIN nested
  OBVIOUS
<1>10. \A a \in ids : Typed(nested[a], m)
  OBVIOUS
<1>11. \A a, k : <<a, k>> \in owners' <=> <<a, k>> \in owners \/ (a = f /\ k = m)
  OBVIOUS
<1> HIDE DEF ids
<1>12. AllFound'
  <2>1. ASSUME NEW y \in Items("fns"), ~Fn(y).builtin, y # x PROVE Found(y)'
    <3>1. Found(y)
      BY <2>1 DEF CInv, AllFound
    <3>2. \A a \in Mine(y) : Kept'[a] = Kept[a]
      BY <1>5, <1>8
    <3>3. \A a \in Mine(y) : a # f
      BY <1>1, <1>8, <2>1
    <3>4. \A a \in Mine(y) : a \in DOMAIN finished' <=> a \in DOMAIN finished
      BY <1>7, <3>3
    <3> QED BY <1>1, <1>2, <1>8, <2>1, <3>1, <3>2, <3>4, FoundStays
  <2>2. Found(x)'
    <3>a. Found(x)
      BY DEF CInv, AllFound
    <3>b. PICK tree : tree = Nested[Fn(x).text]
      OBVIOUS
    <3>1. PICK pl : DOMAIN pl = Mine(x) /\ Placing(tree, Kept, TRUE, DOMAIN finished, pl)
      BY <1>1, <3>a, <3>b DEF Found
    <3>2. Grows(tree)
      BY <1>1, <3>b, Trees DEF SInv, PInv, IInv, RawOK
    <3>3. PICK base : base = pl[f]
      OBVIOUS
    <3>4. PICK q : q = Spread(pl, ids, base, first)
      OBVIOUS
    <3>5. /\ DOMAIN q = DOMAIN pl \cup ids /\ \A a \in DOMAIN pl : q[a] = pl[a]
          /\ base \in DOMAIN tree /\ base # <<>> /\ tree[base] = t
      BY <3>1, <3>3, <3>4 DEF Placing, Spread
    <3>6. /\ \A a \in ids : a \notin DOMAIN pl
          /\ \A a \in DOMAIN pl : Kept'[a] = Kept[a]
      BY <1>3, <1>5, <1>8, <3>1
    <3>7. ~Opened(TRUE, DOMAIN finished, pl, base)
      <4>1. ASSUME NEW g \in DOMAIN pl \cap DOMAIN finished PROVE pl[g] # base
        BY <1>1, <3>1, <3>3 DEF Placing
      <4> QED BY <3>5, <4>1 DEF Opened
    <3>8. \A p : Opened(TRUE, DOMAIN finished', q, p) <=> Opened(TRUE, DOMAIN finished, pl, p) \/ p = base
      <4>1. \A a : a \in DOMAIN q \cap DOMAIN finished' <=> a \in DOMAIN pl \cap DOMAIN finished \/ a = f
        BY <1>3, <1>7, <3>1, <3>5
      <4>2. q[f] = base /\ f \in DOMAIN pl
        BY <3>1, <3>3, <3>5
      <4>3. ASSUME NEW p
            PROVE  (\E a \in DOMAIN q \cap DOMAIN finished' : q[a] = p)
                     <=> (\E a \in DOMAIN pl \cap DOMAIN finished : pl[a] = p) \/ p = base
        BY <3>5, <4>1, <4>2
      <4> QED BY <4>3 DEF Opened
    <3>c. /\ tree[base] \in Texts /\ ids = DOMAIN Generated(tree[base], first)
          /\ \A a \in ids : Kept'[a] = Generated(tree[base], first)[a]
      BY <1>1, <1>5, <1>9, <3>5
    <3>9. Spreading(tree, Kept, TRUE, DOMAIN finished, pl, base, first, ids,
                    Kept', TRUE, DOMAIN finished', q)
      BY <3>1, <3>2, <3>4, <3>5, <3>6, <3>7, <3>8, <3>c DEF Spreading
    <3>10. Placing(tree, Kept', TRUE, DOMAIN finished', q)
      BY <3>9, Spreads
    <3>11. Nested[Fn(x).text]' = tree /\ DOMAIN q = Mine(x)'
      BY <1>2, <1>8, <3>1, <3>5, <3>b
    <3> QED BY <1>1, <3>10, <3>11 DEF Found
  <2> QED BY <1>2, <2>1, <2>2 DEF AllFound
<1>13. AnonsChecked'
  <2>1. ASSUME NEW a \in ids PROVE InModule(a, m)'
    <3>1. \A k : <<a, k>> \notin owners'
      BY <1>3, <1>11 DEF CInv, AnonsChecked
    <3>2. a \notin DOMAIN finished' /\ a \notin DOMAIN resolving'
      BY <1>1, <1>3, <1>6, <1>7
    <3>3. unresolved'[a] = m /\ Typed(Kept[a], m)'
      BY <1>2, <1>5, <1>6, <1>10
    <3> QED BY <3>1, <3>2, <3>3 DEF InModule
  <2>2. InModule(f, m)'
    <3>1. InModule(f, m)
      BY DEF CInv, AnonsChecked
    <3>2. f \notin DOMAIN unresolved' /\ f \notin DOMAIN resolving' /\ f \in DOMAIN finished'
      BY <1>1, <1>3, <1>6, <1>7
    <3>3. finished'[f] = Kept'[f] /\ Fine(Kept[f], m)'
      BY <1>1, <1>2, <1>5, <1>7
    <3>4. \A k : <<f, k>> \in owners' <=> k = m
      BY <1>1, <1>11, <3>1 DEF InModule
    <3> QED BY <3>2, <3>3, <3>4 DEF InModule
  <2>3. ASSUME NEW y \in Items("fns"), NEW a \in Mine(y), a # f PROVE InModule(a, y[1])'
    <3>1. InModule(a, y[1]) /\ a \in DOMAIN parents /\ Kept'[a] = Kept[a] /\ a \notin ids
      BY <1>3, <1>5, <1>8 DEF CInv, AnonsChecked
    <3>2. /\ a \in DOMAIN unresolved' <=> a \in DOMAIN unresolved
          /\ a \in DOMAIN unresolved => unresolved'[a] = unresolved[a]
          /\ a \in DOMAIN resolving' <=> a \in DOMAIN resolving
          /\ a \in DOMAIN resolving' => resolving'[a] = resolving[a]
      BY <1>6, <2>3, <3>1
    <3>3. /\ a \in DOMAIN finished' <=> a \in DOMAIN finished
          /\ a \in DOMAIN finished => finished'[a] = finished[a]
      BY <1>7, <2>3
    <3>4. \A k : <<a, k>> \in owners' <=> <<a, k>> \in owners
      BY <1>11, <2>3
    <3> QED BY <1>2, <3>1, <3>2, <3>3, <3>4 DEF InModule
  <2>4. ASSUME NEW y \in Items("fns"), NEW a \in Mine(y)' PROVE InModule(a, y[1])'
    <3>1. a \in Mine(y) \/ (y = x /\ a \in ids)
      BY <1>8
    <3>2. a = f /\ a \in Mine(y) => y = x
      BY <1>1, <1>8
    <3> QED BY <2>1, <2>2, <2>3, <3>1, <3>2
  <2>5. \A a, k : <<a, k>> \in owners' => a \in DOMAIN parents'
    BY <1>1, <1>4, <1>11 DEF CInv, AnonsChecked
  <2> QED BY <1>2, <2>4, <2>5 DEF AnonsChecked
<1>14. FnsChecked'
  <2>1. ASSUME NEW y \in Items("fns") PROVE Analyzed(y)'
    <3>1. Fn(y).id \notin DOMAIN parents /\ Fn(y).id \in Declared
      BY <1>1, FnPlace DEF SInv, PInv, IInv, AnonsOK
    <3>2. Fn(y).id \in DOMAIN finished
      BY <1>1, <3>1 DEF SInv, PInv, IInv, Resolving
    <3>3. finished'[Fn(y).id] = finished[Fn(y).id]
      BY <1>1, <1>7, <3>1, <3>2
    <3> QED BY <1>2, <3>3 DEF CInv, FnsChecked, Analyzed
  <2> QED BY <1>2, <2>1 DEF CInv, FnsChecked, Late
<1>15. TypesChecked' /\ AnonsMine' /\ Refused' /\ Ends' /\ NamesApart'
  BY <1>2 DEF CInv, TypesChecked, AnonsMine, Refused, Ends, NamesApart, Late
<1> QED BY <1>12, <1>13, <1>14, <1>15 DEF CInv


LEMMA ResolveChecks ==
  ASSUME CInv, SInv', NEW f \in DOMAIN resolving, ResolveAnonymousFn(f)
  PROVE  CInv'
<1>1. /\ outcome = "running" /\ pass = "anonymous" /\ SInv /\ pass \in Late
      /\ Kept = anonFns /\ nextId \in Nat
  BY DEF ResolveAnonymousFn, CInv, SInv, PInv, IInv, RawOK, Late, Kept
<1>2. f \in DOMAIN anonFns /\ f \in DOMAIN parents /\ anonFns[f] \in Texts
  BY <1>1, RoundExpects DEF SInv
<1>3. PICK x \in Items("fns") : ~Fn(x).builtin /\ parents[f] = Fn(x).id
  BY <1>1, <1>2 DEF SInv, PInv, Stored
<1>4. f \in Mine(x) /\ Found(x) /\ resolving[f] = x[1] /\ Typed(anonFns[f], x[1])
  BY <1>1, <1>2, <1>3 DEF Mine, CInv, AllFound, AnonsChecked, InModule
<1>5. PICK t : t = anonFns[f]
  OBVIOUS
<1>6. PICK first \in Nat : first = nextId + 1
  BY <1>1
<1>7. PICK nested : nested = Generated(t, first)
  OBVIOUS
<1>8. CASE End("panic")
  BY <1>8, PanicRefuses
<1>9. CASE ~t.graph /\ End("ControlFlowError")
  <2>1. ~Fine(Kept[f], x[1])
    BY <1>1, <1>5, <1>9 DEF Fine
  <2>2. ~Acceptable
    BY <1>1, <1>3, <1>4, <2>1, BadMine
  <2> QED BY <1>9, <2>2, EndChecks
<1>10. CASE Rejected(t, x[1], nested)
  <2>1. CASE ~Resolves(t, x[1]) /\ End("UnknownFn")
    <3>1. ~Fine(Kept[f], x[1])
      BY <1>1, <1>5, <2>1 DEF Fine
    <3> QED BY <1>1, <1>3, <1>4, <2>1, <3>1, BadMine, EndChecks
  <2>2. CASE t.body = "error" /\ End("TypeError")
    <3>1. ~Fine(Kept[f], x[1])
      BY <1>1, <1>5, <2>2 DEF Fine
    <3> QED BY <1>1, <1>3, <1>4, <2>2, <3>1, BadMine, EndChecks
  <2>3. CASE t.body = "panic" /\ End("crash")
    <3>1. ~Fine(Kept[f], x[1]) /\ Panics(Kept[f])
      BY <1>1, <1>5, <2>3 DEF Fine, Panics
    <3> QED BY <1>1, <1>3, <1>4, <2>3, <3>1, BadMine, EndChecks
  <2>4. ASSUME NEW a \in DOMAIN nested, Untypable(nested[a], x[1]) PROVE CInv'
    <3>1. PICK i : i = a - first + 1
      OBVIOUS
    <3>2. t.anons \in Seq(Texts)
      BY <1>2, <1>5, TextsAssumption DEF IsText
    <3>3. i \in DOMAIN t.anons /\ nested[a] = t.anons[i]
      BY <1>7, <2>4, <3>1, <3>2 DEF Generated
    <3>4. /\ i \in DOMAIN Kept[f].anons /\ nested[a] = Kept[f].anons[i]
          /\ ~Fine(Kept[f].anons[i], x[1])
      BY <1>1, <1>5, <2>4, <3>3, UntypableEnds DEF Fine
    <3>5. ~Acceptable /\ (nested[a].form = "panic" => Crashing)
      BY <1>1, <1>3, <1>4, <3>4, BadNested DEF Panics
    <3>6. \/ End("UnknownType") \/ End("TypeError")
          \/ nested[a].form = "panic" /\ End("crash")
      BY <2>4, UntypableEnds
    <3> QED BY <3>5, <3>6, EndChecks
  <2> QED BY <1>10, <2>1, <2>2, <2>3, <2>4 DEF Rejected
<1>11. CASE ~End("panic") /\ ~(~t.graph /\ End("ControlFlowError")) /\ ~Rejected(t, x[1], nested)
  <2>1. /\ t.graph /\ Accepted(t, x[1], nested)
        /\ pass' = "anonymous" /\ outcome' = "running" /\ UNCHANGED <<program, raw, scopes>>
        /\ parents' = Append2(parents, ToAll(DOMAIN nested, Fn(x).id))
        /\ anonFns' = Append2(anonFns, nested)
        /\ unresolved' = Append2(unresolved, ToAll(DOMAIN nested, x[1]))
        /\ resolving' = Without(resolving, f)
        /\ finished' = Put(finished, f, t)
        /\ owners' = owners \cup {<<f, x[1]>>}
    BY <1>1, <1>2, <1>3, <1>4, <1>5, <1>6, <1>7, <1>11 DEF ResolveAnonymousFn, declared, named
  <2>2. Fine(t, x[1]) /\ \A a \in DOMAIN nested : Typed(nested[a], x[1])
    BY <1>4, <1>5, <2>1 DEF Accepted, Annotated, Fine
  <2>3. nextId <= first /\ t = Kept[f]
    BY <1>1, <1>5, <1>6
  <2> QED BY <1>1, <1>3, <1>4, <1>7, <2>1, <2>2, <2>3, AnonResolved
<1> QED BY <1>8, <1>9, <1>10, <1>11

LEMMA FinishChecks ==
  ASSUME CInv, SInv', Finish
  PROVE  CInv'
<1>1. End("ok") /\ pass = "anonymous" /\ None(unresolved) /\ None(resolving)
  BY DEF Finish, End, RoundOver, None
<1> QED BY <1>1, EndChecks

LEMMA StutterChecks ==
  ASSUME CInv, SInv', UNCHANGED vars
  PROVE  CInv'
<1>1. End(outcome)
  BY DEF End, vars
<1> QED BY <1>1, EndChecks DEF CInv, Refused, Ends

LEMMA NextChecks ==
  ASSUME CInv, [Next]_vars
  PROVE  CInv'
<1>1. SInv'
  BY ScopesNext DEF CInv
<1>2. CASE ReadType \/ ReadFn \/ ReadUse \/ ReadEnd
  BY <1>1, <1>2, ReadingChecks
<1>3. CASE Passes
  BY <1>1, <1>3, ScopingChecks, EnterFnsChecks, EnterAnalysisChecks, EnterAnonymousChecks DEF Passes
<1>4. CASE \E m \in Mods : MapUsings(m)
  BY <1>1, <1>4, ScopingChecks
<1>5. ASSUME NEW x \in todo, Work(x) PROVE CInv'
  BY <1>1, <1>5, TypesPass, GenerateChecks, AnalyzeChecks DEF Work
<1>6. CASE StartRound
  BY <1>1, <1>6, StartRoundChecks
<1>7. ASSUME NEW f \in DOMAIN resolving, ResolveAnonymousFn(f) PROVE CInv'
  BY <1>1, <1>7, ResolveChecks
<1>8. CASE Finish
  BY <1>1, <1>8, FinishChecks
<1>9. CASE Ended \/ UNCHANGED vars
  BY <1>1, <1>9, StutterChecks DEF Ended
<1> QED BY <1>2, <1>3, <1>4, <1>5, <1>6, <1>7, <1>8, <1>9 DEF Next, Step

-----------------------------------------------------------------------------
(* The accepted programs.                                                  *)

\* When all is done each place of a body has one function, which is finished.
LEMMA AllDone ==
  ASSUME CInv, outcome = "ok", NEW x \in Items("fns"), ~Fn(x).builtin
  PROVE  \E pl : /\ DOMAIN pl = Mine(x) /\ Mine(x) \subseteq DOMAIN finished
                 /\ Placing(Nested[Fn(x).text], Kept, TRUE, DOMAIN finished, pl)
                 /\ Covers(Nested[Fn(x).text], pl)
<1>1. pass = "anonymous" /\ DOMAIN unresolved = {} /\ DOMAIN resolving = {} /\ SInv
  BY DEF CInv, Ends, None
<1>2. Mine(x) \subseteq DOMAIN finished
  BY <1>1 DEF SInv, PInv, IInv, Resolving, Mine
<1>3. Begun(x) = TRUE /\ Fn(x).text \in Texts
  BY <1>1 DEF Begun, Late, SInv, PInv, IInv, RawOK
<1>4. PICK tree : tree = Nested[Fn(x).text]
  OBVIOUS
<1>5. PICK pl : DOMAIN pl = Mine(x) /\ Placing(tree, Kept, TRUE, DOMAIN finished, pl)
  BY <1>3, <1>4 DEF CInv, AllFound, Found
<1>6. Covers(tree, pl)
  <2>1. Grows(tree) /\ DOMAIN pl \subseteq DOMAIN finished
    BY <1>2, <1>3, <1>4, <1>5, Trees
  <2> QED BY <1>5, <2>1, AllPlaced
<1> QED BY <1>2, <1>4, <1>5, <1>6

\* So every text in the body has passed the checks.
LEMMA BodyFine ==
  ASSUME CInv, outcome = "ok", NEW x \in Items("fns"), ~Fn(x).builtin,
         NEW p \in DOMAIN Nested[Fn(x).text]
  PROVE  Fine(Nested[Fn(x).text][p], x[1])
<1>1. pass = "anonymous" /\ SInv
  BY DEF CInv, Ends
<1>2. CASE p = <<>>
  <2>1. Nested[Fn(x).text][p] = Fn(x).text
    BY <1>1, <1>2, Trees DEF SInv, PInv, IInv, RawOK
  <2>2. Entered(x) /\ Analyzed(x)
    BY <1>1 DEF CInv, FnsChecked, Late
  <2> QED BY <2>1, <2>2 DEF Entered, Analyzed, Fine
<1>3. CASE p # <<>>
  <2> DEFINE tree == Nested[Fn(x).text]
  <2> HIDE DEF tree
  <2>2. PICK pl : /\ DOMAIN pl = Mine(x) /\ Mine(x) \subseteq DOMAIN finished
                  /\ Placing(tree, Kept, TRUE, DOMAIN finished, pl)
                  /\ Covers(tree, pl)
    BY AllDone DEF tree
  <2>3. PICK g \in DOMAIN pl : pl[g] = p
    BY <1>3, <2>2 DEF tree, Covers
  <2>1. g \in Mine(x) /\ g \in DOMAIN finished /\ Kept[g] = Nested[Fn(x).text][p]
    BY <2>2, <2>3 DEF Placing, tree
  <2> QED BY <2>1 DEF CInv, AnonsChecked, InModule
<1> QED BY <1>2, <1>3

LEMMA OkAcceptable ==
  ASSUME CInv, outcome = "ok"
  PROVE  Acceptable
<1>1. pass = "anonymous" /\ SInv /\ DeclsRead /\ pass \notin {"raw", "usings"} /\ RawOK
  BY DEF CInv, Ends, SInv, PInv, IInv
<1>2. ~SameName /\ \A m \in Mods : Followed(m)
  BY <1>1 DEF CInv, NamesApart, Late, SInv, UsesFollowed
<1>3. ASSUME NEW m \in Mods
      PROVE  /\ ReadOf(m) = DOMAIN DeclsOf(m) /\ program[m].name # NoName
             /\ Recorded(DeclsOf(m), ReadOf(m), TypeKinds, raw[m].types)
             /\ Recorded(DeclsOf(m), ReadOf(m), FnKinds, raw[m].fns)
             /\ BuiltinsMarked(DeclsOf(m), ReadOf(m), raw[m].fns)
             /\ UsesRecorded(DeclsOf(m), ReadOf(m), raw[m].uses)
  BY <1>1 DEF DeclsRead, ModuleRead, ReadOf
<1>4. \A m \in Mods : \A kinds : Of(DeclsOf(m), ReadOf(m), kinds) = Chosen(m, kinds)
  BY <1>3 DEF Of, Chosen
<1>5. ~Clashes(program)
  <2>1. \A m, n \in Mods : m # n => program[m].name # program[n].name
    BY <1>2 DEF SameName
  <2>2. ASSUME NEW m \in Mods, NEW i \in DOMAIN program[m].decls, NEW j \in DOMAIN program[m].decls,
               i # j, program[m].decls[i].kind = "use", program[m].decls[j].kind = "use",
               program[m].decls[i].name = program[m].decls[j].name
        PROVE  FALSE
    <3>1. i \in Chosen(m, {"use"}) /\ j \in Chosen(m, {"use"}) /\ DeclsOf(m) = program[m].decls
      BY <2>2 DEF Chosen, DeclsOf
    <3>2. \E a, b \in DOMAIN raw[m].uses : a # b /\ raw[m].uses[a] = raw[m].uses[b]
      BY <1>3, <1>4, <2>2, <3>1 DEF UsesRecorded
    <3> QED BY <1>2, <3>2 DEF Followed
  <2> QED BY <2>1, <2>2 DEF Clashes, Mods
<1>6. ASSUME NEW m \in Mods
      PROVE  NoDuplicates(m, TypeKinds) /\ NoDuplicates(m, FnKinds)
  BY <1>3, <1>4 DEF NoDuplicates, Recorded
<1>7. ASSUME NEW m \in Mods, NEW n \in NamesOf(m, {"use"})
      PROVE  n \in {program[d].name : d \in Mods}
  <2>1. PICK i \in DOMAIN raw[m].uses : raw[m].uses[i] = n
    BY <1>1, NamesRecorded
  <2>2. PICK from : Denoting(m, from)
    BY <1>2 DEF Followed
  <2>3. n \in DOMAIN from /\ from[n] \in Mods /\ program[from[n]].name = n
    BY <2>1, <2>2 DEF Denoting, Denotes
  <2> QED BY <2>3
<1>8. ASSUME NEW m \in Mods, NEW i \in DOMAIN DeclsOf(m) PROVE Sound(m, DeclsOf(m)[i])
  <2> DEFINE ds == DeclsOf(m)
             d == ds[i]
  <2> HIDE DEF ds
  <2>0. i \in DOMAIN ds
    BY DEF ds
  <2>1. CASE d.kind \in TypeKinds
    <3>1. i \in Of(ds, ReadOf(m), TypeKinds)
      BY <1>3, <2>0, <2>1 DEF Of, ds
    <3>2. d.name \in DOMAIN raw[m].types /\ raw[m].types[d.name].text = d.text
      BY <1>3, <3>1 DEF Recorded, ds
    <3>3. <<m, d.name>> \in Items("types") /\ Ty(<<m, d.name>>).text = d.text
      BY <3>2, TypesPlaced
    <3>4. Typed(d.text, m)
      BY <1>1, <3>3 DEF CInv, TypesChecked, Late
    <3>5. d.text.types \subseteq VisibleTypes(m) /\ d.text.form = "ok"
      BY <1>1, <1>5, <3>4, ScopedText
    <3> QED BY <2>1, <3>5 DEF Sound, TypeKinds, ds
  <2>2. CASE d.kind \in FnKinds
    <3>1. i \in Of(ds, ReadOf(m), FnKinds)
      BY <1>3, <2>0, <2>2 DEF Of, ds
    <3>2. /\ d.name \in DOMAIN raw[m].fns /\ raw[m].fns[d.name].text = d.text
          /\ raw[m].fns[d.name].builtin = (d.kind = "builtin")
      BY <1>3, <3>1 DEF Recorded, BuiltinsMarked, ds
    <3>3. PICK x : x = <<m, d.name>>
      OBVIOUS
    <3>4. x \in Items("fns") /\ Fn(x) = raw[m].fns[d.name] /\ x[1] = m
      BY <3>2, <3>3, Placed DEF Fn
    <3>5. Typed(d.text, m)
      BY <1>1, <3>2, <3>4 DEF CInv, FnsChecked, Late, Entered
    <3>6. d.text.types \subseteq VisibleTypes(m) /\ d.text.form = "ok"
      BY <1>1, <1>5, <3>5, ScopedText
    <3>7. ASSUME d.kind = "fn", NEW p \in DOMAIN Nested[d.text] PROVE Flawless(Nested[d.text][p], m)
      <4>1. Fine(Nested[d.text][p], m)
        BY <3>2, <3>4, <3>7, BodyFine
      <4> QED BY <1>1, <1>5, <4>1, ScopedText
    <3> QED BY <3>6, <3>7 DEF Sound, ds
  <2>3. CASE d.kind \notin TypeKinds \cup FnKinds
    BY <2>3 DEF Sound, FnKinds, ds
  <2> QED BY <2>1, <2>2, <2>3
<1>9. \A m \in Mods : NamesOf(m, {"use"}) \subseteq {program[d].name : d \in Mods}
  BY <1>7
<1> QED BY <1>3, <1>5, <1>6, <1>8, <1>9 DEF Acceptable

\* check_modules accepts a program exactly if its text has no flaw, whatever
\* the program and in whatever order its passes go over it.
THEOREM AcceptsTheSound == Spec => []AcceptsExactly
<1>1. CInv => AcceptsExactly
  <2> SUFFICES ASSUME CInv PROVE AcceptsExactly
    OBVIOUS
  <2>1. outcome = "ok" => Acceptable
    BY OkAcceptable
  <2>2. outcome \notin {"running", "ok"} => ~Acceptable
    BY DEF CInv, Refused
  <2> QED BY <2>1, <2>2 DEF AcceptsExactly
<1>2. CInv /\ [Next]_vars => CInv'
  BY NextChecks
<1> QED BY ChecksInit, <1>1, <1>2, PTL DEF Spec

\* A panic of check_modules, whatever the program and in whatever order its
\* passes go over it, is one of two.  It is that of a table, of a storage or of
\* an expect() of the passes, and then two modules share a name or a use
\* declaration is repeated: no storage of anonymous functions is written over or
\* asked for what it lacks, and no constructor is missing where one is expected.
\* Or it arose within one text, and then the program holds a text whose own
\* signature or body panics when it is read.
THEOREM PanicsAreExplained == Spec => []PanicsExplained
<1>1. CInv => PanicsExplained
  BY DEF CInv, SInv, Refused, PanicsOnlyOnClash, PanicsExplained
<1>2. CInv /\ [Next]_vars => CInv'
  BY NextChecks
<1> QED BY ChecksInit, <1>1, <1>2, PTL DEF Spec

-----------------------------------------------------------------------------
(* The functions of an accepted program.                                   *)

\* Sets of ids are counted by what they are mapped to, one to one.
Matched(A, B, h) ==
  /\ \A a \in A : h[a] \in B
  /\ \A a, b \in A : h[a] = h[b] => a = b
  /\ \A b \in B : \E a \in A : h[a] = b
LEMMA SameCount ==
  ASSUME NEW A, NEW n \in Nat, \A a \in A : a \in Nat /\ a < n, NEW B, NEW h, Matched(A, B, h)
  PROVE  Cardinality(A) = Cardinality(B)
<1>1. IsFiniteSet(A)
  <2>1. A \in SUBSET Nat /\ \A a \in A : a <= n
    OBVIOUS
  <2> QED BY <2>1, FS_BoundedSetOfNaturals
<1>2. PICK g : g = [a \in A |-> h[a]]
  OBVIOUS
<1>3. g \in Bijection(A, B)
  BY <1>2 DEF Matched, Bijection, Injection, Surjection, IsInjective
<1>4. ExistsBijection(A, B)
  BY <1>3 DEF ExistsBijection
<1> QED BY <1>1, <1>4, FS_Bijection

\* What EveryFunctionOnce says of one declared function: its own body, those of
\* the anonymous functions in it, and the places of its text.
LEMMA DoneOf ==
  ASSUME CInv, outcome = "ok", NEW x \in Items("fns")
  PROVE  /\ {Fn(x).id} \cup Mine(x) \subseteq DOMAIN finished
         /\ finished[Fn(x).id] = Fn(x).text
         /\ \A f \in Mine(x) : \A k : <<f, k>> \in owners <=> k = x[1]
         /\ Fn(x).id \notin Mine(x)
<1>1. pass = "anonymous" /\ DOMAIN unresolved = {} /\ DOMAIN resolving = {} /\ SInv
  BY DEF CInv, Ends, None
<1>2. Fn(x).id \in Declared
  BY FnPlace
<1>3. Mine(x) \subseteq DOMAIN finished /\ Fn(x).id \in DOMAIN finished
  BY <1>1, <1>2 DEF SInv, PInv, IInv, Resolving, Mine
<1>4. finished[Fn(x).id] = Fn(x).text
  BY <1>1 DEF CInv, FnsChecked, Analyzed
<1>5. \A f \in Mine(x) : \A k : <<f, k>> \in owners <=> k = x[1]
  BY <1>3 DEF CInv, AnonsChecked, InModule
<1>6. Fn(x).id \notin Mine(x)
  BY <1>1, <1>2 DEF SInv, PInv, IInv, AnonsOK, Mine
<1> QED BY <1>3, <1>4, <1>5, <1>6

LEMMA IdsBounded ==
  ASSUME IInv, NEW x \in Items("fns")
  PROVE  nextId \in Nat /\ \A a \in {Fn(x).id} \cup Mine(x) : a \in Nat /\ a < nextId
BY DEF IInv, RawOK, AnonsOK, Mine

Places(x) == IF Fn(x).builtin THEN {<<>>} ELSE DOMAIN Nested[Fn(x).text]
OfText(x, t, A, B) ==
  /\ A = {f \in {Fn(x).id} \cup Mine(x) : finished[f] = t}
  /\ B = {p \in Places(x) : Nested[Fn(x).text][p] = t}
LEMMA OncePerPlace ==
  ASSUME CInv, outcome = "ok", NEW x \in Items("fns"), NEW t, NEW A, NEW B, OfText(x, t, A, B)
  PROVE  Cardinality(A) = Cardinality(B)
<1> DEFINE d == Fn(x)
           tree == Nested[d.text]
<1>0. /\ A = {f \in {d.id} \cup Mine(x) : finished[f] = t}
      /\ B = {p \in Places(x) : tree[p] = t}
  BY DEF OfText
<1>1. /\ SInv /\ d.text \in Texts /\ nextId \in Nat
      /\ \A a \in A : a \in Nat /\ a < nextId
  BY <1>0, IdsBounded DEF CInv, SInv, PInv, IInv, RawOK
<1>2. <<>> \in DOMAIN tree /\ tree[<<>>] = d.text
  BY <1>1, Trees
<1>3. /\ finished[d.id] = d.text /\ d.id \notin Mine(x)
      /\ \A f \in Mine(x) : f \in DOMAIN finished
  BY DoneOf
<1> HIDE DEF d, tree
<1>4. ASSUME NEW h, Matched(A, B, h) PROVE Cardinality(A) = Cardinality(B)
  BY <1>1, <1>4, SameCount
<1>5. CASE d.builtin
  <2>1. Mine(x) = {}
    <3>1. \A f \in DOMAIN parents : parents[f] # d.id
      BY <1>1, <1>5 DEF SInv, PInv, IInv, RawOK, Stored, d
    <3> QED BY <3>1 DEF Mine, d
  <2>2. PICK h : h = [a \in {d.id} |-> <<>>]
    OBVIOUS
  <2>3. A = IF d.text = t THEN {d.id} ELSE {}
    BY <1>0, <1>3, <2>1 DEF d
  <2>4. B = IF d.text = t THEN {<<>>} ELSE {}
    BY <1>0, <1>2, <1>5 DEF d, tree, Places
  <2>5. Matched(A, B, h)
    BY <2>2, <2>3, <2>4 DEF Matched
  <2> QED BY <1>4, <2>5
<1>6. CASE ~d.builtin
  <2>1. PICK pl : /\ DOMAIN pl = Mine(x) /\ Placing(tree, Kept, TRUE, DOMAIN finished, pl)
                  /\ Covers(tree, pl)
    BY <1>6, AllDone DEF d, tree
  <2>2. \A f \in Mine(x) : finished[f] = tree[pl[f]] /\ pl[f] \in DOMAIN tree /\ pl[f] # <<>>
    <3>1. \A f \in Mine(x) : finished[f] = Kept[f]
      BY <1>3 DEF CInv, AnonsChecked, InModule
    <3> QED BY <2>1, <3>1 DEF Placing
  <2>3. \A f, g \in Mine(x) : pl[f] = pl[g] => f = g
    BY <2>1 DEF Placing
  <2>4. \A p \in DOMAIN tree : p # <<>> => \E f \in Mine(x) : pl[f] = p
    BY <2>1 DEF Covers
  <2>5. PICK h : h = [a \in {d.id} \cup Mine(x) |-> IF a = d.id THEN <<>> ELSE pl[a]]
    OBVIOUS
  <2>6. h[d.id] = <<>> /\ \A f \in Mine(x) : h[f] = pl[f]
    BY <1>3, <2>5
  <2>7. \A a : a \in A <=> (a = d.id \/ a \in Mine(x)) /\ finished[a] = t
    BY <1>0
  <2>8. \A p : p \in B <=> p \in DOMAIN tree /\ tree[p] = t
    BY <1>0, <1>6 DEF d, tree, Places
  <2>9. \A a \in A : h[a] \in B
    BY <1>2, <1>3, <2>2, <2>6, <2>7, <2>8
  <2>10. \A a, b \in A : h[a] = h[b] => a = b
    BY <2>2, <2>3, <2>6, <2>7
  <2>11. ASSUME NEW p \in B PROVE \E a \in A : h[a] = p
    <3>1. CASE p = <<>>
      BY <1>2, <1>3, <2>6, <2>7, <2>8, <3>1
    <3>2. CASE p # <<>>
      BY <2>2, <2>4, <2>6, <2>7, <2>8, <3>2
    <3> QED BY <3>1, <3>2
  <2>12. Matched(A, B, h)
    BY <2>9, <2>10, <2>11 DEF Matched
  <2> QED BY <1>4, <2>12
<1> QED BY <1>5, <1>6

\* In an accepted program every function has been analysed, and of the text of
\* each declared one every anonymous function at any depth, once for each place
\* it has there, and entered in the module of that text and no other.
THEOREM AnalyzesAll == Spec => []EveryFunctionOnce
<1>1. CInv => EveryFunctionOnce
  <2> SUFFICES ASSUME CInv, outcome = "ok", NEW m \in Mods, NEW n \in DOMAIN raw[m].fns
               PROVE  LET d == raw[m].fns[n]
                          tree == Nested[d.text]
                          places == IF d.builtin THEN {<<>>} ELSE DOMAIN tree
                          mine == {f \in DOMAIN parents : parents[f] = d.id}
                      IN  /\ {d.id} \cup mine \subseteq DOMAIN finished
                          /\ finished[d.id] = d.text
                          /\ \A f \in mine : {k \in Mods : <<f, k>> \in owners} = {m}
                          /\ \A t \in Texts : Cardinality({f \in {d.id} \cup mine : finished[f] = t})
                                                = Cardinality({p \in places : tree[p] = t})
    BY Zenon DEF EveryFunctionOnce
  <2>1. PICK x : x = <<m, n>>
    OBVIOUS
  <2>2. x \in Items("fns") /\ x[1] = m /\ Fn(x) = raw[m].fns[n]
    BY <2>1, Placed DEF Fn
  <2> DEFINE d == raw[m].fns[n]
             tree == Nested[d.text]
             places == IF d.builtin THEN {<<>>} ELSE DOMAIN tree
             mine == {f \in DOMAIN parents : parents[f] = d.id}
  <2>3. d = Fn(x) /\ mine = Mine(x)
    BY <2>2 DEF Mine
  <2> HIDE DEF d, mine
  <2>4. {d.id} \cup mine \subseteq DOMAIN finished /\ finished[d.id] = d.text
    BY <2>2, <2>3, DoneOf
  <2>5. ASSUME NEW f \in mine PROVE {k \in Mods : <<f, k>> \in owners} = {m}
    BY <2>2, <2>3, DoneOf
  <2>6. ASSUME NEW t \in Texts
        PROVE  Cardinality({f \in {d.id} \cup mine : finished[f] = t})
                 = Cardinality({p \in places : tree[p] = t})
    <3>1. PICK A, B : OfText(x, t, A, B)
      BY DEF OfText
    <3>2. Cardinality(A) = Cardinality(B)
      BY <2>2, <3>1, OncePerPlace
    <3>3. A = {f \in {d.id} \cup mine : finished[f] = t} /\ B = {p \in places : tree[p] = t}
      BY <2>3, <3>1 DEF OfText, Places
    <3> QED BY <3>2, <3>3
  <2> QED BY <2>4, <2>5, <2>6 DEF d, mine
<1>2. CInv /\ [Next]_vars => CInv'
  BY NextChecks
<1> QED BY ChecksInit, <1>1, <1>2, PTL DEF Spec


=============================================================================
