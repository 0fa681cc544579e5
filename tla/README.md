# SMPL in TLA+

A verification development of SMPL: the language front end in `smpl/`, its byte
code, and the interpreter (the AVM) in `smpli/`. Paths below are relative to the
root of the repository; `src/` in `PROJECT.json` stands for that root.

## 1. The system

A host hands source modules to the analyzer, gets back a program, makes an
`AVM` of it with its own builtins, and spawns executors, each of them a future
the host polls.

    source -> tokens -> parser -> AST
      -> modules resolved (mod_resolver): names, types, use declarations
      -> per function: control flow graph -> scopes resolved -> types checked
         -> return check; anonymous functions join the worklist
      -> per function: graph traversed by the first pass -> second pass
         (frames inlined, relative jumps) -> third pass (continue) -> byte code
      -> AVM: compiled functions + mapped builtins -> Executor (a future)

| component | state it keeps | operations | interacts by | what is hard |
|---|---|---|---|---|
| executor (`smpli/src/executor.rs`, `env.rs`) | running activation, call stack, one return register, awaited builtin, finished flag | one step per instruction, push and pop of activations, await of a builtin | polled by the host; calls builtins, which the host resolves | answers of calls pass through one shared register; pointer moves before pushes; errors and panics at every step |
| values (`value.rs`) | shared cells behind arrays and structs | clone, reference clone, select, replace | read and written by executor and builtins | aliasing, index errors, integer width |
| AVM (`vm.rs`) | metadata, compiled functions, mapped builtins | new, map_builtin, query_module, spawn_executor | shared by reference with every executor | order of mapping and spawning |
| builtins (`builtins/*.rs`) | none of their own | vec, option, str, math, convert, log, err | called by the executor with owned arguments | index ranges, two cells updated one after the other |
| byte code generator (`code_gen/byte_gen`) | frames and states of the first pass; none in the others | callbacks of the traversal; inlining; jumps | reads the graph through the traversal; the executor relies on the shape of its code | relative offsets through nested layouts, markers in the sequence |
| control flow graph (`control_flow.rs`) | graph under construction, loop of the context | generate, successors of each node kind | read by all traversals and the return check | empty blocks, stacked else-if, dead code after jumps |
| traversals (`*_cfg_traversal.rs`) | the recursion's loops | traverse, visit_node | call back a passenger per node | nesting, bounds, telling the right merge or foot |
| return check (`return_trace.rs`) | worklist, traced nodes | check_returns_form | refuses functions before byte code | every path, nothing but real paths |
| scope resolution (`resolve_scope.rs`) | stack of scopes of names and types | enter, exit, declare, look up | passenger of the unique traversal | shadowing against a flat run-time environment |
| module resolution (`mod_resolver.rs`, `analysis_context.rs`) | raw modules, universe, worklist of anonymous functions | the passes in their order | feeds everything above | order of modules, unresolved uses, termination |
| types (`type_*.rs`, `abstract_type.rs`) | typing contexts | equality, subtyping by width, substitution | type checker, module resolution | recursive types, variance |
| parser (`parser/`) | token stream | tokens, expressions by precedence, declarations | AST | precedence, lookahead |
| expression flow (`expr_flow.rs`) | temporaries of an expression | flatten | byte code generator | evaluation order |
| metadata, features | tables per program | collectors | AVM | none of its own |

### What makes them correct

* executor: a call is answered once, by its own callee, and its caller is
  untouched in between; well-formed code never meets an internal error; a
  polled executor settles or waits for the host.
* generator: the code does what the source says, and has the shape the executor
  relies on.
* graph, traversal and first pass: every statement is visited once, in the
  frame of its own block; no assertion or unreachable case is met.
* return check: no function that passes can fall off its end; none is refused
  that has a return on every path and no dead code.
* scopes: every variable denotes the declaration the source text says.
* modules: the result does not depend on the order of the modules; every
  unresolved use is reported; the worklist empties.
* types: equality is an equivalence, subtyping a preorder, both terminate.

## 2. The modules

| module | models |
|---|---|
| `Executor` | `executor.rs`, `env.rs`, and what `AVM::new` and `spawn_executor` give it |
| `Calls` | abstract: what the executor promises of calls |
| `CodeFlow` | where control goes in byte code, and what the executor needs of it (`CodeOK`) |
| `CallDiscipline` | the same of a program (`WellFormed`), the executor's invariants, and the mapping to `Calls` |
| `ExecutorProofs` | the theorems about them |
| `Values` | the operations the instructions compute and the paths into values |
| `Libraries` | the builtins of vec and option, assert, ipow |
| `ExprFlow` | expression trees taken apart into temporaries |
| `ByteGen` | the first pass of the byte code generator, and the generator, as operators |
| `Parts` | what the passes of the generator hand on |
| `Inlining` | its second and third pass, and what they rely on |
| `InliningProofs` | the theorems about those |
| `Structured` | reference: the meaning of statements and of expression trees, without byte code |
| `FlowGraph` | the accessors of a control flow graph, and the loops of `visit_node` over it |
| `Cfg` | the builder of the graph |
| `ReturnCheck` | the return check, and the shape of graphs it relies on |
| `ReturnProofs` | the theorems about it |
| `Traverse` | the linear traversal and the unique one, for any passenger |
| `Walks` | the state of a traversal, and graphs of nested paths |
| `TraverseProofs` | lemmas about a traversal of such a graph, whoever the passenger is |
| `FirstPass`, `ScopeResolver` | the first pass, and scope resolution, as passengers |
| `Resolving` | the traversal with scope resolution on board, graphs that follow a text, and what names denote |
| `ScopeProofs` | the theorems about scope resolution |
| `Layouts` | where the nodes of a built graph lie, for the instances |
| `Compiling` | a function from its graph to its byte code: the traversal with the first pass on board, what holds of the two, the return check and the later passes |
| `CompiledProofs` | the theorems about the first pass, and about a function compiled |
| `ModResolver` | `check_modules`, pass by pass |
| `Worklist` | abstract: what the analysis of functions promises |
| `Acceptance` | reference: what is to be accepted, visible and analysed, read off the text of a program |
| `ModResolverProofs` | the theorems about module resolution |
| `Tokenizer` | `tokens.rs` with its one token of lookahead |
| `TokenizerProofs` | the theorems about it |
| `Parser` | `parser.rs` and `expr_parser.rs`, production by production |
| `Types` | constructors, annotations, substitution, equality and subtyping |
| `Programs`, `EvalTests` | notation for functions, and those of the tests |
| `MCExecutor`, `MCByteGen`, `MCTraverse`, `MCResolve`, `MCModResolver`, `MCTokenizer`, `MCParser`, `MCTypes` | the bounded instances |

They meet as the code does. `MCTraverse` composes `Cfg` and `Compiling`, which is
`Traverse` with `FirstPass`, `ReturnCheck`, `Inlining` and `CodeFlow`; `MCByteGen` composes `ExprFlow`, `ByteGen`,
`Executor` and `Libraries` and compares with `Structured`; `GathersStatements` is
the bridge: the frames the traversal gathers are those `ByteGen!FirstPass` reads
off the statements directly. `MCResolve` composes `Cfg` and `Resolving`, which
is `Traverse` with `ScopeResolver`. Both take the layouts of their graphs from `Layouts`. What `ModResolver` asks of a function (does its graph build, does
it pass the checks, which anonymous functions has it) is answered by those; what
it asks of a type by `Types`. `Tokenizer` ends where `Parser` begins: a token is
its text.

**Executor.** `top`, `stack`, `returnRegister` are the fields of `Executor`;
`future` holds the arguments a builtin's future owns while it is awaited;
`status`, `result` and `error` are what the host sees of the future. An action is
one iteration of `execute()`: `step` with the instruction it executes and the
`ExecuteAction` it ends in, so `FnCall` moves the caller's pointer and pushes the
callee in one step, and `Return` pops. `Compute` stands for every instruction that
reads arguments, computes and stores; `StartBuiltin` and `ResolveBuiltin` are the two
sides of the await. An error ends the run as `failed`, an unwrap of `None` or a
panic of the arithmetic as `panicked`. The program is a variable that never
changes, so one run covers many programs and the proofs hold for each.

**Libraries.** A builtin's outcome is a value, an `Err` or a panic of the host. It
owns its arguments and answers with a value of its own, so the cells it shares
in between are not observable and values stand for themselves. `EvalTests` has one
function for each library call of interest, at both ends of its range.

**ExprFlow and ByteGen.** `Flatten` draws the ids of the temporaries in the order of
`flatten_expr`; an index in a path is an expression of its own. `Op` stands for the
unary and binary operators, structures and arrays, which differ only in the
instruction. The first pass makes frames of statements.

**Inlining.** The second pass is a recursive function over the marks of the frames, as
`flatten` recurses over what is nested: a mark for a loop or a branch in a frame
is replaced by its frames, inlined in turn, with relative jumps between them.
`ThirdPass` has no break: the traversal panics on one before (`mcbreak`).

**Cfg and Traverse.** Nodes are numbered in the order `add_node` is called.
Where an accessor panics its operator is `Nowhere`, and the traversal has
status `panicked`. `visits` is the recursion of `visit_node`: each element is one of
its bounded loops. Ids of loops and branches are those of the statements; the
code draws them from counters. The two traversals differ in what they lend their
passenger, not in the order of the callbacks, so one module stands for both.
Where the traversal and its passengers only hand something on it is a constant:
the source of graphs (`CfgOf`), the code of a block, a return or a condition
(`BlockCode`, `ReturnCode`, `CondCode`, `CondResult`), which the instances take from `ByteGen`. So
`Traverse`, `FirstPass`, `Compiling` and `Resolving` have no recursion over syntax, and what is
proved of them holds for any statements.

**ReturnCheck.** `Trace(g)[k]` is the worklist after k rounds: `nodeStack` and `traced` are
those of `check_returns_form`, and `verdict` is its result once there is one. The
rounds are as many as nodes, as in the code; `ReturnTrace` is `unreachable` if they end
with nothing decided, and `panic` stands for a `CFG::previous` of a node that has not
one way in.

**ScopeResolver.** `scopes` is the stack of `ScopedData`, with the variables and the
functions by name; `bound` gathers what the code writes into the syntax tree
(`set_id`, `set_root_var`, `set_fn_id`), under a key for the temporary or the path;
`anon` is the storage of scopes for anonymous functions. `outcome` is `failed` where a
name is unknown and `panicked` where an id would be set twice. `Tmps` lists the temporaries
of an expression in the order `resolve_expr_scope` comes to them, and `Each` stops at the
first error, as `?` does. Ids of variables come from one counter for a function
and the anonymous functions in it (`LocalData`, handed on at `mod_resolver.rs:433`).

**Resolving.** What a function says is given apart from its graph: its declarations,
names and anonymous functions, each at a place (`Decls`, `Names`, `Anons`), a place being the
blocks around it with the index of the statement in each. `Denoted` says what a name at a place
denotes, from those alone; no scope appears in it. `Where` puts each node of the graph
at a place, and `TextFollowed` says that the graph is of that text: control
goes from place to place as it goes from node to node (`PlacesFollow`), and the nodes hold what the text
says at their places (`SaidBy`). `OwnOnly` says that variables of the function around have ids
of their own. TLC evaluates both in `mcresolve`, where the text is read off the statements
and the places off the edges. Names in the index of the root of a path that
is read are not among `Names`, as the code does not look there (`mcindexed`).

**ModResolver.** A function or a type is its text: the types and functions it
names, whether its graph builds, how the rest of its signature (`form`) and of its body
(`body`) come out, well or with an error or a panic, and the anonymous functions in it.
`pass` says which loop of `check_modules` runs, `todo` what it has still to iterate over, and the other variables are its maps, named after them.
Modules are read in order (`at`); every later pass iterates over a hash map, so its
action takes any item. `buffer`, `anonFns`, `parents`, `unresolved` and `resolving` are the
storages through which an anonymous function travels from the body it stands in
to its own analysis; an insertion of what is already there is the panic it is in
the code. Ids come from one counter. `Worklist` knows none of this: functions
become known, each is analysed once, and the program is accepted when none is
left.

**Tokenizer.** `pos` is the cursor, `wanted` says that `Tokenizer::next` runs, `next` is
the result that waits in `BufferedTokenizer` and `taken` what the parser was
given. There is one action for each rule, whose guard says what the rules before
it leave to it, and `Take` for the parser. Of a character its class is kept and
whether it takes more than one byte, which the ends of slices get wrong.

**Parser.** One operator for each production, from a place in the tokens to a tree
and the place behind it, to an error or to a panic. `cut` ends the text at
any token, so every look ahead is also made at the end of the input. Seven
operators stand for all, one of each precedence and two of some.

**Types.** The actions enter the constructors of declarations (`Declare`), then those
of a function's signature, then relate what its parameter has with what is
expected of it at a return or a local variable. Substitution, fusing of width
constraints, equality and the two subtyping relations are operators, whose
recursion ends in `overflow` at `MaxDepth`. A `HashMap` is iterated in an order the
program comes with.

## 3. What is checked

| run | distinct states | question | answer |
|---|---|---|---|
| `mcexecutor` | 1664 | does the executor keep its types and the discipline of calls, give the results of the tests, stop with the error or panic each program should, and settle, on test programs, library calls and malformed code? | yes |
| `mcbytegen` | 17434 | does compiled code end as its source, with the same value, error or panic, is it well formed, and does the executor implement `Calls` on it? | yes |
| `mccontinue` | | is a continue compiled to a jump to the loop's condition? | no: forward, see below |
| `mcscopes` | | are variables of inner blocks their own at run time? | no: the environment is flat |
| `mctraverse` | 90044 | are graphs traversed completely, once, without a panic but at break; does the first pass gather the statements; is the return check exact; does accepted code stay inside? | yes |
| `mcbreak` | | is a break traversed? | no: the traversal panics |
| `mcresolve` | 45029 | does every name denote the nearest declaration the text has for it, or is the function refused for a name that has none; do anonymous functions get the scope of their place and none of its variables? | yes |
| `mcindexed` | | does scope resolution fill in every id? | no: not in the index of a root that is read |
| `mcmodresolver` | 18161 | are exactly the right programs accepted, in every order of the hash maps; are scopes what the text says; is every function analysed once; where does each panic come from? | yes |
| `mctokenizer` | 123335 | are tokens the longest lexemes, is nothing lost, do spans ascend, which texts panic? | yes |
| `mcparser` | 433542 | is a printed tree read back, does an expression get the tree of `grammar.bnf`, is nothing dropped, is every prefix refused? | yes, with the exceptions the properties name |
| `mctypes` | 66391 | is acceptance structural subtyping, equality mutual subtyping, the order irrelevant but for mentions in where clauses; which programs crash? | yes, with the exceptions the properties name |

**Bounds, and why they are enough.**

* `mcexecutor` has two SMPL functions and two builtins, one of them unmapped: a
  call needs a caller and a callee, recursion of depth 3 puts more than one caller
  on the stack, and the third kind of callee is the one that may not be there.
  Integers are -8..63 in place of 64 bits, so overflow does occur (`multiply`);
  `MaxIP` is 1000, beyond any code here but within reach of the malformed jumps: by
  one below 0, past the end, by one beyond the largest pointer and as far as an offset can be.
* `mcbytegen` compiles functions of one variable x with conditions x < 2: loops of
  zero, one and two rounds, every pair of a loop or a branch in sequence and in
  each other, and a third loop around; offsets are sums over direct children, so
  two levels under a loop show each sum with each kind of child. Its expression
  trees pair every two of the parts that give a value, an error or a panic, as
  operands, arguments, array and index, and links of a chain of three: an order
  other than from left to right changes which of them is seen. `Fuel` = 6 bounds
  the reference's rounds and calls; no terminating case needs as many, and a case
  that exhausts it counts as divergent and must not complete.
* `mctraverse` has 3555 functions: all pairs and all nestings of branches (one or
  two conditions, with and without else) and loops, with empty blocks, blocks that
  return, dead code after a return or continue, and else-if chains of three. Their
  expressions are calls, so that a call stands wherever an expression can; what the
  theorems about inlining ask of frames is checked on all that are accepted.
* `mcresolve` has functions of a parameter x and names y and f, the latter also a
  function of the module: every pair out of ten declarations, uses and
  assignments, one after the other, by themselves and in every kind of block
  between a declaration and a use, and four of them before, in and after a block
  inside a block. A name can thus be declared at three depths, before, after and
  in its own initial value, and shadow a parameter or a function. Blocks are also
  left by a continue or a break, in a loop or in a branch of one. The functions
  without inner blocks are also put in the scope of a variable y, as anonymous
  functions are.
* `mcmodresolver` has 825 programs: every pair of kinds of declarations with one
  name, every name and use of three modules in every direction, use of a module
  that is missing, that is the module itself or that has a name twice, anonymous
  functions two deep beside each other, and a fault in each place a pass can find
  one: a name that is missing, a signature or a body that is refused or panics, declared or
  anonymous, at each depth. All orders of the hash maps are explored. The clashes need two
  declarations, visibility through a use needs two modules, and that a use is not
  transitive needs the third.
* `mctokenizer` has all texts of up to three characters of any of 21 classes, and
  longer ones of the classes whose rules look further (numbers, comments, strings,
  names): no rule decides on more than two characters, and the fourth and fifth
  show where one stops. `IntMax` = 98 puts overflow at two digits.
* `mcparser` has all expressions of four tokens out of the kinds of tokens,
  expressions of up to four operators of every two precedences, and a statement,
  type and declaration of every form, cut off at every token.
* `mctypes` has some twenty annotations of each sort, any one against any other, and
  twelve where clauses on a function and on a struct: each parameter mentions the
  other, itself or none, before or behind, so each clause is understood in both
  orders of two names, in one or in none.
  `MaxDepth` = 6: no type that does not contain itself nests as deep, so overflow
  is reached exactly where the code never stops.

**Fairness.** `Executor!FairSpec` is weak fairness of `Step`: the host polls a
spawned executor until it is ready (`execute_sync` blocks on it). `ResolveBuiltin` is
not fair, as when a host's future is ready is up to the host; so `Settles` says that
a running executor settles or is left awaiting. `EndsAsSource` uses the same.
`ModResolver!FairSpec` is weak fairness of its steps: `check_modules` is one loop
after the other in one thread, and `Settles` that none of them, the rounds of
anonymous functions above all, runs for ever.

**Mutants.** Each property has a mutant in the module it is about, an operator
marked `Mutant:`, that stands for a plausible bug and breaks the property.

### Disagreements found

With a run:

* `third_pass.rs:48`: the jump of a continue is `index - loop_begin_index`, positive
  and counting the markers, so it goes forward (`mccontinue`).
* `first_pass.rs:377`: scopes leave no trace in the byte code, and variables are
  stored by name, so an inner declaration overwrites the outer variable
  (`mcscopes`), in a language `README.md` calls lexically scoped.
* `control_flow.rs:295`: `after_break` has no result for a break with one successor,
  the only kind the builder makes (`mcbreak`).
* `resolve_scope.rs:137`: the index expression of the root of a path that is read is
  not resolved, so the type checker unwraps a missing id in `a[i].x` (`mcindexed`).

Named as exceptions in the properties of passing runs:

* `tokens.rs:387`: a name or comment that ends the text in a letter of several bytes
  makes a slice panic, and `tokens.rs:620` so does an integer that does not fit
  (`PanicsKnown`).
* `expr_parser.rs:142`: every operator is left associative, so `a < a < a` is read as
  `(a < a) < a`; `grammar.bnf:36` lets a relational operator have operands of `math-expr`
  only and derives no such chain. The other levels of the grammar are left recursive and
  the parser agrees with them. Of a chain of relational operators, which the
  grammar does not derive, `MatchesGrammar` says that it is accepted, as if that level were
  left recursive too; `PrintsBack` prints the parentheses the grammar asks for.
* `parser.rs:1643`: a statement that begins with an identifier and is no assignment,
  call or path loses that identifier (`PrintsBack`).
* `mod_resolver.rs:652`, `:715`: two modules of one name, and a module used twice,
  panic (`PanicsExplained`).
* `abstract_type.rs:449`: a struct that contains itself, also within an opaque
  type, overflows the stack (`CrashesKnown`).
* `analysis_helpers.rs:170`: a parameter whose annotation hands the function's own
  type variable to a constructor that constrains it panics; so does the
  annotation of a local variable whose arguments do not fit (`CrashesKnown`).
* `type_resolver.rs:222`: parameters of functions are contravariant one level deep
  only; any value is taken for a type variable without constraints; where a function
  on such a variable is expected a function on any type is taken (`type_resolver.rs:658`),
  but not the other way round (`SubtypesExact` states what is done).
* `type_cons_gen.rs:345`: a constraint that mentions a type parameter is understood only
  if the hash map gives the constraint of the parameter mentioned first. So
  `struct S(type T, U) where T: {x: int}, U: {p: T}` is accepted in some runs of the
  compiler and refused in others (`OrderIrrelevant` says of each order what it does,
  `SubtypesExact` of the program). A function with one is refused in all orders, or panics if the
  mention is a base (`CrashesKnown`).
* `abstract_type.rs:1265`: `fuse_field_width_constraints` drops the fields inside the
  first constraint when two constraints share a field.
* `vec.rs:107`: `insert` panics outside its range where `remove` is an error, and `get`
  with a negative index is an error too where past the end it is none; `math.rs:186`:
  `ipow` refuses the exponent its message calls the largest allowed (`AsTested`).
* `env.rs:67`: a user's variable named like a temporary, `_tmp5`, shares its place, and so
  does one named like the function an expression makes, `_fn2`: `SameOutcome` says of four
  such programs how each ends, which is not as its source means (`Captured`).

## 4. What is proved

The theorems hold for every value of the constants, under the assumptions the
modules state. TLC checked every invariant below on the instances first.

**`ExecutorProofs`**: any functions, builtins, names, values, operations and
programs, under the assumptions of `Executor` (function values, booleans and Unit
are values, `NoVal` is not; names of functions are names; functions and builtins
are apart; programs have their type).

* `TypeCorrect`: `Spec => []TypeOK`.
* `CallsDisciplined`: `Spec => [](CallersWait /\ RegisterIsAnswer /\ PointerInFlow)`, and the
  last two by themselves, `RegisterAnswers` and `PointerStays`.
* `NoMachineFaults`: `Spec => []NoMachineFault`.
* `ExecutorImplementsCalls`: from a well-formed program, every behaviour of the
  executor is one of `Calls`.

The inductive invariant is `Discipline`. `RegisterIsAnswer` alone is not inductive:
a pop fills the register for whatever the caller does next, so one needs
`CallersWait` (the caller is at a `TakeReturn`), which needs `PointerInFlow` (the
call itself was reached, so `CodeOK` says what follows it). The hypothesis is
`WellFormed(prog)`: reachable code stays inside the function and each `FnCall` is
followed by the only way to its `TakeReturn`. That the compiler establishes it, from
the graph on, is proved in `CompiledProofs`; of the code of expressions, made by
recursive operators, it is checked, by `GeneratesWellFormed`. The discipline is stated as implications from `WellFormed`, so
the theorems are also about malformed programs, of which they say the types
only; `ProgramFixed` carries the hypothesis from state to state. The refinement
follows step by step: `BeginStep`, `InvokeStep`, `YieldStep` and `StopAborts` map the
ways a step can end, with `locals` in the mapping so that "the caller is untouched"
covers its whole frame.

**`ModResolverProofs`**: any names, texts and programs that have their type.

* `ResolverImplementsWorklist`: every behaviour of `ModResolver` is one of `Worklist`. The
  invariant `IInv` says, pass by pass, where the functions that are known are:
  declared and not finished (`Generating`), analysed with their anonymous
  functions in the buffer (`Analyzing`), or finished, waiting or in the round
  (`Resolving`). `Accept` needs exactly this: when nothing waits, what is known is
  done. That a function is not analysed twice needs fresh ids (`RawOK`, `AnonsOK`).

* `PanicsAreExplained`: `Spec => []PanicsExplained`. The code has a panic at every
  lookup and every insertion of a map (`outcome` is then `panic`); that none but those of the clashes is
  reached takes `IInv` and `PInv`: what scopes name is declared (`ScopesDeclared`), what
  is declared has its constructor once its pass has reached it (`Constructors`), no
  constructor is entered under an id twice (`IdsApart`), the storages of anonymous
  functions agree and are disjoint by function (`Stored`), and each use declaration
  was read from a place of its own, so an import that overwrites another means
  two declarations of a name (`UsesRead`). Panics within one text (`outcome` is then `crash`)
  are of the program: a `break`, `a[i].x`, the call of what is no function, a where
  clause. Whether a text has one is part of the text here, so of those the theorem says only
  that the program holds such a text, at a place the passes go to. Which programs
  those are is what `mcbreak`, `mcindexed` and `CrashesKnown` are about.

About what is accepted, under `NestedAssumption` besides (the text of a function is a finite
tree, which comes as a function of places in it; so does that of the next):

* `ScopesAreOfText`: `Spec => []ScopesVisible`. What is in the tables of the first pass is
  what the declarations read so far say, in their numbers (`Recorded`, `UsesRecorded`);
  what a scope has is its module's own and, once its uses have been followed, what
  the modules used declare (`Followed`), each name denoting what it does there. Modules
  follow their uses in any order, and what is brought into one is not passed on.

* `AcceptsTheSound`: `Spec => []AcceptsExactly`. One direction is that whatever a pass has
  gone over has passed its checks (`TypesChecked`, `FnsChecked`, `AnonsChecked`), the other that
  each way to an error is a flaw of the text (`BadType` to `BadNested`). Anonymous functions
  need more: those found so far are at different places of the text of one
  declared function, and there is one at each place next to a function that has
  been analysed (`Found`); so when none is left to analyse all places are done
  (`AllPlaced`, by the length of places).
* `AnalyzesAll`: `Spec => []EveryFunctionOnce`, from the same invariant: the places and the
  functions correspond one to one, so there are as many of both.

**`TokenizerProofs`**: any texts, of any length, any keywords that
are names, and any largest integer.

* `NothingIsLost`: `Spec => []NothingLost`. The inductive invariant adds where results
  lie in the text (`Placed`). Every rule either returns what it took as one result
  (`Returning`) or takes what may be ignored (`Skipping`); that a loop of `take_while`
  stops before the first character of another kind is `TakeWhileStops`, by the
  well-foundedness of the naturals.
* `OnlyKnownPanics`: `Spec => []PanicsKnown`, by the causes of the three rules that panic.
* `MunchesMaximally`: `Spec => []MaximalMunch`. First each sort of lexeme is read off the
  text character by character (`Names` to `Comments`), the sorts are shown to have no
  member in common (`Kinds`) and what a lexeme begins with is listed (`Beginnings`);
  then each rule is shown to return the longest, or none to begin (`StepMunches`).

* `TokensAscend`: `Spec => []SpansAscend`. The place of a character (byte, line, column)
  is given in closed form by what precedes it, so that a step of the cursor adds
  to it (`Spans`); each result keeps the places it was taken from.

**`TraverseProofs`**: any passenger, any graph and any layout that puts the nodes
of the graph at places of nested paths (`GraphsNested`, the hypothesis): each node
lies at a number of the main path, of a way of a branch or of the body of a
loop, merges and feet where those end; the next node of a path is one of its
graph's edges away. The builder is recursive, so that it makes such graphs is
not proved but checked: TLC evaluates the assumption in `mctraverse`, on each of its
3555 functions, and in `mcresolve`. Nothing else is taken from it.

It has lemmas only, which `CompiledProofs` and `ScopeProofs` cite. `Sound` says where the
running loops stand: each at the place in its path that its rounds tell,
within the split or head the next outer one stands at (`Standing`), and that the nodes
seen are those behind (`Past`), none twice (`NoneTwice`). There is one lemma per move of the
traversal (`PassKeeps`, `DescendKeeps`, `TurnKeeps`, `LeaveKeeps`). At the end everything is
behind: a node that is not, of the least depth, would have its split or head
behind it (`AllButEnd`).

**`ReturnProofs`**: any graph that is `Traceable`: a node leads to one merge or end of a
scope at most, the end of a scope has one way in, and the end comes after the
outermost scope. TLC evaluates it for all graphs of `mctraverse`
(`GraphsTraceable`).

* `CheckEnds`: the check passes or reports a missing return; it meets neither its
  `unreachable!()` nor a panic. The worklist is shown to have no duplicates, though the
  code allows for them: of two ways from a node to nodes that are traced on,
  `Traceable` has one, so what a round pushes was not met before (`Unmet`). Each round
  then traces one more node, and the end node is never one of them, so the
  bound of as many rounds as nodes is enough, by one.
* `EveryWalkReturns`: in a function that passes, every walk along edges from the start
  to the end, of any length, is at a return somewhere: else, back from its end,
  all of it would have been traced, and the start is not.
* `RefusesTheLoose`: in a function that is refused a node that neither returns nor
  joins leads to the end over merges and ends of scopes alone.

`TraceInv` is the invariant of the rounds. That there are rounds at all, `Trace` being a
recursive function, is `TraceExists`, and induction over their number is `Induct`, both
from the well-foundedness of the naturals, as the library's own induction
theorem cannot be cited.

**`InliningProofs`**: any frames that are nested (`FramedBy`: each loop and branch has a
height, above those of the marks in its frames) and hold instructions that are no
jumps, in which a call and nothing else comes before the instruction that takes
its answer. That the first pass gathers such frames, and the second hypothesis below of functions
that are accepted, is proved in `CompiledProofs`. Functions with a continue
are outside: its jump is the one that goes astray (`mccontinue`).

* `InliningKeepsCalls`: jumps lead into the code or just past its end, and every flow
  that stays inside is what the executor relies on (`CodeOK`). The sums over nested
  lengths that the jumps are made of are shown right once for each layout
  (`LoopShaped`, `BranchShaped`), for pieces of code of any length, and then for all
  depths by induction over height.
* `ReturningStaysInside`: if control cannot fall through the main frame, past a loop
  always and past a branch when one of its paths can be left at its end, then
  there is such a flow, and the executor never runs past the end of the code.

Code is `Shaped` when each jump in it lands inside or just past its end, not
between a call and the answer; this is what is kept by putting pieces one after
the other (`ShapedConcat`) and by the two layouts, and `Stops` says of a piece that a
set of its places is closed under control. Both are stated of the code alone, so
that the heights and the ids of frames play no part in the arithmetic.

**`CompiledProofs`**: first the traversal with the first pass on board, any code of
blocks, under `GraphsNested`.

* `PanicsAtBreaksOnly`: `Spec => []OnlyBreakPanics`. The traversal and the first pass rely
  on each other, so neither has an invariant of its own: `IInv` is `Sound` and `Carried`, that the
  first pass has a frame and a state for each loop, and has just what it
  expects at a merge or foot. One lemma per event of the first pass (`*Goes`, `*Carries`),
  one per action (`*Steps`). That a loop never goes round too often is that
  places are fewer than nodes.
* `NodesOnce`: `Spec => []EveryNodeOnce`.
* `FramesFollow`: `Spec => []Bracketed`.

Then all of `ReturnProofs` and `InliningProofs` put together with that,
under `GraphsTraceable` and `CodeStraight` besides (blocks, conditions and returns are
compiled to code without jumps in which every call has its answer, a return to code
that ends in one), which TLC evaluates in `mctraverse`. Functions with a continue or a
break are outside (`NoJumps`): the one jumps astray, on the other the traversal panics.

* `AcceptedCompiles`: `Spec => []AcceptedStaysInside`. When the traversal is done, the frames
  gathered are nested, and if the return check lets the function pass, the code
  compiled from them is what the executor relies on: control does not run off it, and
  each call is followed by the instruction that takes its answer.

`CInv` adds to the invariant of the traversal what is in the frames: what has been
told of a path is in the frame of that path, each block as its code, each loop and
branch that has been passed as its mark (`Fills`). From it the frames are nested, by
the depth of the split or head a mark stands for (`FramesNested`). That control does not fall
through the main frame is `AcceptedStops`, where the nodes the return check has traced
back from the end are followed forward: if a frame could be fallen through, so could the
path it was gathered from, from node to node, up to a node that is traced
(`WholePathSoft`, by depth from within), so the start would be. Which marks can be
fallen past is settled for all depths at once by a greatest choice (`FallsExist`). What
is left is that the addresses reached are closed under control after as many rounds as
there are instructions (`ReachedCloses`), by counting.

**`ScopeProofs`**: any functions, texts and expressions, under `GraphsNested`, `TextFollowed` and
`OwnOnly`. Functions with a continue, with a break and with dead code behind them
are among them; a break stops the traversal, and no theorem says that nothing panics.

* `NamesAreLexical`: `Spec => []ResolvesLexically`. What scope resolution gives the names of a
  function is what the text says they denote, all of them and nothing else, and it refuses
  only a function with a name that denotes nothing.
* `AnonymousSeeTheirPlace`: `Spec => []AnonymousScoped`.
* `VariablesAreOwn`: `Spec => []OwnVariables`.
* `ScopesAreBalanced`: `Spec => []BalancedScopes`.

None of these is inductive: the code never looks at a text, only at a stack of maps. The
invariant `RInv` adds `Sound` and `Carried`: there is a scope for each block around the place of the node that
is visited, and each `Sees` what the place of its block does (`Stacked`), that is, looking up
any name in it gives what the name denotes there; what is bound so far are the names of the nodes seen; and the scopes kept
for anonymous functions see what their places see. A scope is right because a declaration
reaches just the later places of its block and the blocks in those (`MovedOn`,
`MovedIn`), and is then the nearest (`NearestIsLast`, `SeesDeclared`). When a block is left the scope under it is still
right, as what was declared inside does not reach out (`Leaves`). That a nearest
declaration exists among those that reach a place is by the well-foundedness of the naturals
(`Least`, `NearestReaches`). The temporaries of an expression and the statements of a block are lists
worked off up to the first error, and one lemma (`AllResolved`) does for both. Then there is
one lemma for each kind of callback (`*Holds`), on top of the moves of
`TraverseProofs`. The places of merges and feet are those of their splits and heads, so what
holds of the scopes at one end of a path holds at the other, which is the balance.

Out of the prover's reach and only model-checked:

* liveness (`Settles`, `EndsAsSource`);
* whatever is computed by recursion over statements, trees and types: the first pass
  as operators and the code of expressions in `ByteGen` (so `GeneratesWellFormed`,
  `SameOutcome` and the assumption `CodeStraight`), `ExprFlow`, `Parser` and
  `Types`; in `ScopeResolver` the order of the temporaries of an expression (`InOrder`); the
  builder in `Cfg` and with it the assumptions `GraphsNested`, `GraphsTraceable` and
  `TextFollowed`, of which the last also compares with the text of the statements;
* the comparisons with a recursive reading of the statements: `GathersStatements`,
  `ReturnsChecked`, `RefusesStrays`;
* `AsTested`, a table of results, errors and panics.

## 5. What is not modelled

Listed with reasons in `PROJECT.json`: the type checker's rules for expressions
(one rule per operator, on types that `Types` relates; no state but the tree), the
traversal by blocks and the Rust generator it serves (their content is
formatting), metadata and features (filled once, read afterwards), error reports,
the command line tools, and the builtins that only call the host's library on
strings and floats. `AVM::new` and `map_builtin` are sequential and stop at the first
name they do not find.

Values are copied here and shared cells in the code: `Store`, the arguments of
calls and the results of builtins are deep copies, so no program can tell.
`Float`, `String` and `Opaque` values compute like any other parameter of `Compute`. Of
two bad operands `Compute` reports the unbound one first, where the code reports
the first in order; no generated code has an unbound operand. Spans beyond the
tokenizer's, messages and printing are left out.

## 6. What could come next

1. `ScopeResolver` composed with the flat environment: exactly which programs
   `mcscopes` is about.
2. The type checker's rules, over the relations of `Types`, composed with the
   executor: accepted expressions meet no type error at run time.
3. Type parameters in `ModResolver`, so that substitution meets its orders.
4. The builder as a state machine over fragments, so that the graphs it makes are
   proved to be nested and to follow their text.
