----------------------------- MODULE ModResolver -----------------------------
(***************************************************************************)
(* Module resolution, check_modules of mod_resolver.rs: the passes from    *)
(* the parsed modules to the analysed functions.  The declarations are     *)
(* read, the modules scoped, their use declarations followed, the types    *)
(* and functions given type constructors, the functions analysed, and the  *)
(* anonymous functions met on the way analysed round by round.             *)
(*                                                                         *)
(* The modules are read in their order.  Every later pass iterates over    *)
(* hash maps, in an order nobody chose: an action of it takes any item.    *)
(*                                                                         *)
(* The text of a function (or of a type) is kept as what the passes ask of *)
(* it: the types it names in its signature, the functions it names in its  *)
(* body, whether its graph can be built, the anonymous functions in its    *)
(* body in their order, and two verdicts, of the rest of its signature     *)
(* (annotations, where clauses, fields) and of the rest of its body (local *)
(* names, types, returns).  A verdict is given with the text: what decides *)
(* it is in ScopeResolver, Types and ReturnCheck.  A signature or a body   *)
(* may also panic where it is read, at a break or at a where clause that   *)
(* asks for a later one.                                                   *)
(***************************************************************************)
EXTENDS Naturals, Sequences, FiniteSets

CONSTANTS
  Names,     \* identifiers
  NoName,    \* the name of a module that declares none
  Texts,     \* [types, refs, form, graph, body, anons] of functions and types
  Programs   \* sequences of parsed modules, [name, decls]

Kinds == {"struct", "opaque", "fn", "builtin", "use"}
Paths == {<<n>> : n \in Names} \cup {<<m, n>> : m, n \in Names}
\* How the reading of a signature, or the checks of a body, can end.
Verdicts == {"ok", "error", "panic"}
IsText(t) ==
  /\ t.types \subseteq Paths /\ t.refs \subseteq Paths
  /\ t.form \in Verdicts /\ t.graph \in BOOLEAN /\ t.body \in Verdicts
  /\ t.anons \in Seq(Texts)
IsProgram(p) ==
  p \in Seq([name : Names \cup {NoName},
             decls : Seq([kind : Kinds, name : Names, text : Texts])])

ASSUME NamesAssumption == NoName \notin Names
ASSUME TextsAssumption == \A t \in Texts : IsText(t)
ASSUME ProgramsAssumption == \A p \in Programs : IsProgram(p)

VARIABLES
  program,     \* the parsed modules; a ModuleId is an index
  pass,        \* the pass that runs
  outcome,     \* "running", or how check_modules ended: accepted, an error,
               \* a "panic" of its own or a "crash", a panic within one text
  at,          \* raw_mod_data: the module and its declaration to be read
  nextId,      \* GlobalData::id_counter
  raw,         \* RawModData of each module: types, fns, uses
  scopes,      \* ScopedData of each module: paths of types and of functions
  deps,        \* dependency_map
  todo,        \* what the pass has still to iterate over
  typeCons,    \* the TypeIds with a constructor in the universe
  fnTypes,     \* the FnIds with a constructor in the universe
  fnMap,       \* fn_map: the functions ready to be analysed
  buffer,      \* anon_fns: those of the top-level functions
  anonFns,     \* anon_fn_map: the reserved anonymous functions
  parents,     \* anon_fn_parents
  unresolved,  \* unresolved_anon_fns: the module of each
  resolving,   \* the rest of the round, anon_fns_to_resolve
  finished,    \* the analysed functions
  owners       \* anon_ownership

declared == <<program, at, raw>>
named == <<scopes, deps>>
universe == <<typeCons, fnTypes, anonFns>>
ready == <<fnMap, buffer>>
worklist == <<parents, unresolved, resolving, finished, owners>>
vars == <<declared, pass, outcome, nextId, named, todo, universe, ready, worklist>>

-----------------------------------------------------------------------------
(* Maps.  AnonStorage::insert and append panic on a key that is there.     *)

Empty == [x \in {} |-> x]
Put(f, k, v) == [x \in DOMAIN f \cup {k} |-> IF x = k THEN v ELSE f[x]]
Append2(f, g) == [x \in DOMAIN f \cup DOMAIN g |-> IF x \in DOMAIN g THEN g[x] ELSE f[x]]
Clash(f, g) == DOMAIN f \cap DOMAIN g # {}
Without(f, k) == [x \in DOMAIN f \ {k} |-> f[x]]

Mods == DOMAIN program
StdTypes == <<"Unit", "int", "float", "String", "bool">>
StdScope == [types |-> [p \in {<<StdTypes[i]>> : i \in DOMAIN StdTypes} |->
                          (CHOOSE i \in DOMAIN StdTypes : p = <<StdTypes[i]>>) - 1],
             fns |-> Empty]
NoDecls == [types |-> Empty, fns |-> Empty, uses |-> <<>>]

\* A `?` or a panic ends the run, whatever the pass has done so far.
End(how) ==
  /\ outcome' = how
  /\ UNCHANGED <<declared, pass, nextId, named, todo, universe, ready, worklist>>

Init ==
  /\ program \in Programs
  /\ pass = "raw" /\ outcome = "running" /\ at = <<1, 1>>
  /\ nextId = Len(StdTypes)
  /\ raw = [m \in Mods |-> NoDecls]
  /\ scopes = [m \in Mods |-> StdScope] /\ deps = [m \in Mods |-> {}]
  /\ todo = {}
  /\ typeCons = 0 .. Len(StdTypes) - 1 /\ fnTypes = {} /\ anonFns = Empty
  /\ fnMap = Empty /\ buffer = Empty
  /\ parents = Empty /\ unresolved = Empty /\ resolving = Empty
  /\ finished = Empty /\ owners = {}

-----------------------------------------------------------------------------
(* raw_mod_data.                                                           *)

Reading == outcome = "running" /\ pass = "raw" /\ at[1] \in Mods
Source == program[at[1]]
Decl == Source.decls[at[2]]
Reads(kinds) == Reading /\ at[2] \in DOMAIN Source.decls /\ Decl.kind \in kinds

\* The id of the type, or of the function and its type, is taken first.
Reserve(r, ids) ==
  /\ raw' = [raw EXCEPT ![at[1]] = r]
  /\ nextId' = nextId + ids
  /\ at' = [at EXCEPT ![2] = @ + 1]
  /\ UNCHANGED <<program, pass, outcome, named, todo, universe, ready, worklist>>

ReadType ==
  /\ Reads({"struct", "opaque"})
  /\ LET r == raw[at[1]] IN
     \/ Decl.name \in DOMAIN r.types /\ End("DuplicateTypes")
     \/ /\ Decl.name \notin DOMAIN r.types
        /\ Reserve([r EXCEPT !.types = Put(@, Decl.name, [id |-> nextId, text |-> Decl.text])], 1)

\* Mutant: a function is not compared with the builtins, nor they with it.
ReadFnApart ==
  /\ Reads({"fn", "builtin"})
  /\ LET r == raw[at[1]]
         taken == {n \in DOMAIN r.fns : r.fns[n].builtin = (Decl.kind = "builtin")}
     IN
     \/ Decl.name \in taken /\ End("DuplicateFns")
     \/ /\ Decl.name \notin taken
        /\ Reserve([r EXCEPT !.fns = Put(@, Decl.name,
                      [id |-> nextId, type |-> nextId + 1, text |-> Decl.text,
                       builtin |-> Decl.kind = "builtin"])], 2)

ReadFn ==
  /\ Reads({"fn", "builtin"})
  /\ LET r == raw[at[1]] IN
     \/ Decl.name \in DOMAIN r.fns /\ End("DuplicateFns")
     \/ /\ Decl.name \notin DOMAIN r.fns
        /\ Reserve([r EXCEPT !.fns = Put(@, Decl.name,
                      [id |-> nextId, type |-> nextId + 1, text |-> Decl.text,
                       builtin |-> Decl.kind = "builtin"])], 2)

ReadUse ==
  /\ Reads({"use"})
  /\ LET r == raw[at[1]] IN Reserve([r EXCEPT !.uses = Append(@, Decl.name)], 0)

\* The name of a module is asked for when its declarations are read.
ReadEnd ==
  /\ Reading /\ at[2] \notin DOMAIN Source.decls
  /\ \/ Source.name = NoName /\ End("MissingModName")
     \/ /\ Source.name # NoName
        /\ at' = <<at[1] + 1, 1>>
        /\ UNCHANGED <<program, raw, pass, outcome, nextId, named, todo, universe, ready, worklist>>

-----------------------------------------------------------------------------
(* scope_raw_data_internal and map_usings.                                 *)

OwnPaths(f) == {<<n>> : n \in DOMAIN f}
Internal(m) ==
  [types |-> Append2(StdScope.types, [p \in OwnPaths(raw[m].types) |-> raw[m].types[p[1]].id]),
   fns |-> [p \in OwnPaths(raw[m].fns) |-> raw[m].fns[p[1]].id]]

Enter(next, items) == pass' = next /\ todo' = items
ScopeInternal ==
  /\ outcome = "running" /\ pass = "raw" /\ at[1] \notin Mods
  /\ scopes' = [m \in Mods |-> Internal(m)]
  /\ Enter("usings", Mods)
  /\ UNCHANGED <<declared, outcome, nextId, deps, universe, ready, worklist>>

\* The module a name denotes; any one of them when two share the name.
Denotes(name, m) == m \in Mods /\ program[m].name = name
Prefixed(name, f) == [p \in {<<name>> \o q : q \in DOMAIN f} |-> f[Tail(p)]]
\* Mutant: the scope that is being filled by other use declarations.
ImportsFilled(name, m) ==
  LET s == scopes[m] IN [types |-> Prefixed(name, s.types), fns |-> Prefixed(name, s.fns)]
\* The paths one import brings in are those of the imported module's own
\* scope, whatever that module imports, one level deep.
Imports(name, m) ==
  LET s == Internal(m) IN [types |-> Prefixed(name, s.types), fns |-> Prefixed(name, s.fns)]

Dependencies(from) == {from[name] : name \in DOMAIN from}

\* The scope a module has once its use declarations are followed in turn.
Imported(m, from) ==
  LET import == [name \in DOMAIN from |-> Imports(name, from[name])]
      Brought(part) == UNION {DOMAIN import[name][part] : name \in DOMAIN from}
      With(part) ==
        Append2(scopes[m][part], [p \in Brought(part) |-> import[p[1]][part][p]])
  IN  [types |-> With("types"), fns |-> With("fns")]

Unresolved(m, i) == \A d \in Mods : ~Denotes(raw[m].uses[i], d)
\* Every scope holds the standard types, so a second import of a name finds
\* the paths of the first.
Overwrites(m, i) == \E j \in 1 .. i - 1 : raw[m].uses[j] = raw[m].uses[i]

MapUsings(m) ==
  /\ outcome = "running" /\ pass = "usings" /\ m \in todo
  /\ LET uses == raw[m].uses
         Fails(i) == Unresolved(m, i) \/ Overwrites(m, i)
         First(i) == Fails(i) /\ \A j \in 1 .. i - 1 : ~Fails(j)
     IN
     \/ \E i \in DOMAIN uses : First(i) /\ Unresolved(m, i) /\ End("UnresolvedUses")
     \/ \E i \in DOMAIN uses : First(i) /\ ~Unresolved(m, i) /\ End("panic")
     \/ /\ \A i \in DOMAIN uses : ~Fails(i)
        /\ \E from \in [{uses[i] : i \in DOMAIN uses} -> Mods] :
             /\ \A name \in DOMAIN from : Denotes(name, from[name])
             /\ scopes' = [scopes EXCEPT ![m] = Imported(m, from)]
             /\ deps' = [deps EXCEPT ![m] = Dependencies(from)]
        /\ todo' = todo \ {m}
        /\ UNCHANGED <<declared, pass, outcome, nextId, universe, ready, worklist>>

-----------------------------------------------------------------------------
(* map_types and generate_analyzable_fns.                                  *)

Items(part) == UNION {{<<m, n>> : n \in DOMAIN raw[m][part]} : m \in Mods}

EnterTypes ==
  /\ outcome = "running" /\ pass = "usings" /\ todo = {}
  /\ Enter("types", Items("types"))
  /\ UNCHANGED <<declared, outcome, nextId, named, universe, ready, worklist>>

\* The signature of a text is read: type_from_ann finds every type that is
\* named, and the rest of it makes sense.
Typed(t, m) == t.types \subseteq DOMAIN scopes[m].types /\ t.form = "ok"
Untypable(t, m) ==
  \/ ~(t.types \subseteq DOMAIN scopes[m].types) /\ End("UnknownType")
  \/ t.form = "error" /\ End("TypeError")
  \/ t.form = "panic" /\ End("crash")

MapType(x) ==
  /\ outcome = "running" /\ pass = "types" /\ x \in todo
  /\ LET d == raw[x[1]].types[x[2]] IN
     \/ Untypable(d.text, x[1])
     \/ Typed(d.text, x[1]) /\ d.id \in typeCons /\ End("panic")
     \/ /\ Typed(d.text, x[1]) /\ d.id \notin typeCons
        /\ typeCons' = typeCons \cup {d.id}
        /\ todo' = todo \ {x}
        /\ UNCHANGED <<declared, pass, outcome, nextId, named, fnTypes, anonFns, ready, worklist>>

\* Mutant: functions are generated while types are missing.
EnterFnsEarly ==
  /\ outcome = "running" /\ pass = "types"
  /\ Enter("fns", Items("fns"))
  /\ UNCHANGED <<declared, outcome, nextId, named, universe, ready, worklist>>
EnterFns ==
  /\ outcome = "running" /\ pass = "types" /\ todo = {}
  /\ Enter("fns", Items("fns"))
  /\ UNCHANGED <<declared, outcome, nextId, named, universe, ready, worklist>>

\* CFG::generate gives each anonymous function of a body a new id.
Generated(t, first) == [id \in first .. first + Len(t.anons) - 1 |-> t.anons[id - first + 1]]
ToAll(ids, v) == [id \in ids |-> v]

\* The types a signature names have a constructor, as the substitution of
\* its parameters expects.
Constructed(t, m) == \A p \in t.types : scopes[m].types[p] \in typeCons

\* A function is entered once in the universe and in fn_map.
Fresh(d) == d.type \notin typeCons /\ d.id \notin fnTypes /\ d.id \notin DOMAIN fnMap
Mapped(d, fn) ==
  /\ typeCons' = typeCons \cup {d.type}
  /\ fnTypes' = fnTypes \cup {d.id}
  /\ fnMap' = Put(fnMap, d.id, fn)

GenerateBuiltin(x) ==
  /\ outcome = "running" /\ pass = "fns" /\ x \in todo /\ raw[x[1]].fns[x[2]].builtin
  /\ LET d == raw[x[1]].fns[x[2]] IN
     \/ Untypable(d.text, x[1])
     \/ Typed(d.text, x[1]) /\ ~Fresh(d) /\ End("panic")
     \/ /\ Typed(d.text, x[1]) /\ Fresh(d)
        /\ Mapped(d, [text |-> d.text, mod |-> x[1], anons |-> {}])
        /\ todo' = todo \ {x}
        /\ UNCHANGED <<declared, pass, outcome, nextId, named, anonFns, buffer, worklist>>

GenerateFn(x) ==
  /\ outcome = "running" /\ pass = "fns" /\ x \in todo /\ ~raw[x[1]].fns[x[2]].builtin
  /\ LET d == raw[x[1]].fns[x[2]]
         anons == Generated(d.text, nextId)
         clear == Fresh(d) /\ ~Clash(parents, anons) /\ ~Clash(buffer, anons)
     IN
     \/ Untypable(d.text, x[1])
     \/ /\ Typed(d.text, x[1])
        /\ \/ ~Constructed(d.text, x[1]) /\ End("panic")
           \/ Constructed(d.text, x[1]) /\ ~d.text.graph /\ End("ControlFlowError")
           \/ Constructed(d.text, x[1]) /\ d.text.graph /\ ~clear /\ End("panic")
           \/ /\ Constructed(d.text, x[1]) /\ d.text.graph /\ clear
              /\ nextId' = nextId + Len(d.text.anons)
              /\ parents' = Append2(parents, ToAll(DOMAIN anons, d.id))
              /\ buffer' = Append2(buffer, anons)
              /\ Mapped(d, [text |-> d.text, mod |-> x[1], anons |-> DOMAIN anons])
              /\ todo' = todo \ {x}
              /\ UNCHANGED <<declared, pass, outcome, named, anonFns,
                             unresolved, resolving, finished, owners>>

-----------------------------------------------------------------------------
(* collect_metadata and analyze_fns.                                       *)

\* The metadata maps the name of each module to its id, once.
SameName == \E m, n \in Mods : m # n /\ program[m].name = program[n].name
EnterAnalysis ==
  /\ outcome = "running" /\ pass = "fns" /\ todo = {}
  /\ \/ SameName /\ End("panic")
     \/ /\ ~SameName
        /\ Enter("analyze", Items("fns"))
        /\ anonFns' = buffer /\ buffer' = Empty
        /\ UNCHANGED <<declared, outcome, nextId, named, typeCons, fnTypes, fnMap, worklist>>

\* analyze_fn, of a function whose anonymous functions are the map given:
\* scope resolution finds the functions that are named, the type checker
\* the types of the anonymous ones, then the other checks.  What panics in a
\* body may do so before a name is missed.
Resolves(t, m) == t.refs \subseteq DOMAIN scopes[m].fns
Annotated(anons, m) == \A a \in DOMAIN anons : Typed(anons[a], m)
Accepted(t, m, anons) == Resolves(t, m) /\ Annotated(anons, m) /\ t.body = "ok"
Rejected(t, m, anons) ==
  \/ ~Resolves(t, m) /\ End("UnknownFn")
  \/ Resolves(t, m) /\ \E a \in DOMAIN anons : Untypable(anons[a], m)
  \/ Resolves(t, m) /\ t.body = "error" /\ End("TypeError")
  \/ t.body = "panic" /\ End("crash")
\* What its expect()s ask of the universe once the names are resolved.
Expected(t, m, anons) ==
  /\ \A p \in t.refs : scopes[m].fns[p] \in fnTypes
  /\ \A a \in DOMAIN anons : Constructed(anons[a], m)

AnalyzeFn(x) ==
  /\ outcome = "running" /\ pass = "analyze" /\ x \in todo
  /\ ~raw[x[1]].fns[x[2]].builtin
  /\ LET d == raw[x[1]].fns[x[2]]
         fn == fnMap[d.id]
         anons == [a \in fn.anons \cap DOMAIN anonFns |-> anonFns[a]]
         new == ToAll(fn.anons, x[1])
     IN
     \/ d.id \notin DOMAIN fnMap /\ End("panic")
     \/ d.id \in DOMAIN fnMap /\ Rejected(d.text, x[1], anons)
     \/ /\ d.id \in DOMAIN fnMap /\ Accepted(d.text, x[1], anons)
        /\ \/ /\ \/ ~Expected(d.text, x[1], anons) \/ ~(fn.anons \subseteq DOMAIN anonFns)
                 \/ Clash(unresolved, new)
              /\ End("panic")
           \/ /\ Expected(d.text, x[1], anons) /\ fn.anons \subseteq DOMAIN anonFns
              /\ ~Clash(unresolved, new)
              /\ fnMap' = Without(fnMap, d.id)
              /\ unresolved' = Append2(unresolved, new)
              /\ finished' = Put(finished, d.id, d.text)
              /\ todo' = todo \ {x}
              /\ UNCHANGED <<declared, pass, outcome, nextId, named, universe, buffer,
                             parents, resolving, owners>>

FinishBuiltin(x) ==
  /\ outcome = "running" /\ pass = "analyze" /\ x \in todo
  /\ raw[x[1]].fns[x[2]].builtin
  /\ LET d == raw[x[1]].fns[x[2]] IN finished' = Put(finished, d.id, d.text)
  /\ todo' = todo \ {x}
  /\ UNCHANGED <<declared, pass, outcome, nextId, named, universe, ready,
                 parents, unresolved, resolving, owners>>

-----------------------------------------------------------------------------
(* resolve_anonymous_fns.                                                  *)

EnterAnonymous ==
  /\ outcome = "running" /\ pass = "analyze" /\ todo = {}
  /\ Enter("anonymous", {})
  /\ UNCHANGED <<declared, outcome, nextId, named, universe, ready, worklist>>

RoundOver == outcome = "running" /\ pass = "anonymous" /\ DOMAIN resolving = {}
\* Mutant: the storage is replaced before the round takes what is in it.
StartRoundReplaced ==
  /\ RoundOver /\ DOMAIN unresolved # {}
  /\ resolving' = Empty /\ unresolved' = Empty
  /\ UNCHANGED <<declared, pass, outcome, nextId, named, todo, universe, ready,
                 parents, finished, owners>>
\* Mutant: the round goes over the reserved functions it was given, of which
\* there are none.
StartRoundReserved ==
  /\ RoundOver /\ DOMAIN unresolved # {}
  /\ resolving' = Empty /\ unresolved' = unresolved
  /\ UNCHANGED <<declared, pass, outcome, nextId, named, todo, universe, ready,
                 parents, finished, owners>>
StartRound ==
  /\ RoundOver /\ DOMAIN unresolved # {}
  /\ resolving' = unresolved /\ unresolved' = Empty
  /\ UNCHANGED <<declared, pass, outcome, nextId, named, todo, universe, ready,
                 parents, finished, owners>>

\* LocalData exists for the top-level functions that are not builtin.
HasLocals(f) == \E m \in Mods : \E n \in DOMAIN raw[m].fns :
                  raw[m].fns[n].id = f /\ ~raw[m].fns[n].builtin

\* The type id is taken first, then the ids of the functions nested in it.
ResolveAnonymousFn(f) ==
  /\ outcome = "running" /\ pass = "anonymous" /\ f \in DOMAIN resolving
  /\ \/ /\ ~(f \in DOMAIN anonFns /\ f \in DOMAIN parents)
        /\ End("panic")
     \/ /\ f \in DOMAIN anonFns /\ f \in DOMAIN parents
        /\ LET t == anonFns[f]
               m == resolving[f]
               type == nextId
               nested == Generated(t, nextId + 1)
               new == ToAll(DOMAIN nested, m)
               panics == \/ ~HasLocals(parents[f])
                         \/ Clash(parents, nested) \/ Clash(anonFns, nested)
                         \/ type \in typeCons \/ Clash(unresolved, new)
                         \/ ~Expected(t, m, nested)
           IN
           \/ ~t.graph /\ End("ControlFlowError")
           \/ t.graph /\ Rejected(t, m, nested)
           \/ t.graph /\ Accepted(t, m, nested) /\ panics /\ End("panic")
           \/ /\ t.graph /\ Accepted(t, m, nested) /\ ~panics
              /\ nextId' = nextId + 1 + Len(t.anons)
              /\ parents' = Append2(parents, ToAll(DOMAIN nested, parents[f]))
              /\ anonFns' = Append2(anonFns, nested)
              /\ typeCons' = typeCons \cup {type}
              /\ unresolved' = Append2(unresolved, new)
              /\ resolving' = Without(resolving, f)
              /\ finished' = Put(finished, f, t)
              /\ owners' = owners \cup {<<f, m>>}
              /\ UNCHANGED <<declared, pass, outcome, named, todo, fnTypes, ready>>

\* Mutant: one round is enough.
FinishAfterRound ==
  /\ RoundOver /\ owners # {}
  /\ outcome' = "ok"
  /\ UNCHANGED <<declared, pass, nextId, named, todo, universe, ready, worklist>>
\* The owned functions are entered in their modules, and the parameters of
\* every finished function in the metadata.
Finish ==
  /\ RoundOver /\ DOMAIN unresolved = {}
  /\ outcome' = "ok"
  /\ UNCHANGED <<declared, pass, nextId, named, todo, universe, ready, worklist>>

-----------------------------------------------------------------------------
Passes == ScopeInternal \/ EnterTypes \/ EnterFns \/ EnterAnalysis \/ EnterAnonymous
Work(x) == MapType(x) \/ GenerateFn(x) \/ GenerateBuiltin(x) \/ AnalyzeFn(x) \/ FinishBuiltin(x)
Step ==
  \/ ReadType \/ ReadFn \/ ReadUse \/ ReadEnd
  \/ Passes
  \/ \E m \in Mods : MapUsings(m)
  \/ \E x \in todo : Work(x)
  \/ StartRound
  \/ \E f \in DOMAIN resolving : ResolveAnonymousFn(f)
  \/ Finish
Ended == outcome # "running" /\ UNCHANGED vars
Next == Step \/ Ended

Spec == Init /\ [][Next]_vars

\* check_modules is one loop after the other: a pass that can go on does.
FairSpec == Spec /\ WF_vars(Step)

-----------------------------------------------------------------------------
(* Properties.                                                             *)

\* A panic of the tables, the storages and the expect()s needs a module that
\* uses another twice, or two modules of one name (PanicsExplained, in
\* Acceptance, says this and where any other panic comes from).
Clashes(p) ==
  \/ \E m, n \in DOMAIN p : m # n /\ p[m].name = p[n].name
  \/ \E m \in DOMAIN p : \E i, j \in DOMAIN p[m].decls :
       /\ i # j /\ p[m].decls[i].kind = "use" /\ p[m].decls[j].kind = "use"
       /\ p[m].decls[i].name = p[m].decls[j].name
PanicsOnlyOnClash == outcome = "panic" => Clashes(program)

\* Each function is analysed once and no program accepted before all are:
\* the declared functions and those found in the bodies of analysed ones.
Declared == UNION {{raw[m].fns[n].id : n \in DOMAIN raw[m].fns} : m \in Mods}
W == INSTANCE Worklist WITH
       known <- Declared \cup DOMAIN parents, done <- DOMAIN finished, accepted <- outcome = "ok"
ImplementsWorklist == W!Spec
=============================================================================
