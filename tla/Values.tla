------------------------------- MODULE Values -------------------------------
(***************************************************************************)
(* The values of SMPL and what the instructions compute from them          *)
(* (smpli/src/value.rs and Executor::execute_instruction): tagged tuples,  *)
(* with a copy wherever the code makes one, so that a value is just a      *)
(* value.  Floats and strings, which take the paths of the integers, are   *)
(* left out.  An integer result outside the width panics, as it does in a  *)
(* build with overflow checks (the debug profile the tests run in).        *)
(***************************************************************************)
EXTENDS Integers, Sequences

CONSTANTS IntMin, IntMax  \* the width of an integer

Int64(n) == <<"int", n>>
Truth(b) == <<"bool", b>>
FnOf(f) == <<"fn", f>>
Array(s) == <<"array", s>>
Structure(r) == <<"struct", r>>
UnitVal == <<"unit">>

Ints == {Int64(n) : n \in IntMin .. IntMax}
ArraysOf(S, n) == {Array(s) : s \in UNION {[1 .. k -> S] : k \in 0 .. n}}
StructsOf(S, fields) == {Structure(r) : r \in [fields -> S]}

Value(v) == [tag |-> "value", val |-> v]
Error == [tag |-> "error"]
Panicked == [tag |-> "panic"]

IntValue(n) == IF n \in IntMin .. IntMax THEN Value(Int64(n)) ELSE Panicked

\* Rust divides towards zero and the remainder has the sign of the dividend.
Abs(n) == IF n < 0 THEN -n ELSE n
Quotient(a, b) == IF (a < 0) = (b < 0) THEN Abs(a) \div Abs(b)
                                       ELSE -(Abs(a) \div Abs(b))
Remainder(a, b) == a - b * Quotient(a, b)

IntOps == {"AddI", "SubI", "MulI", "DivI", "ModI", "GEqI", "LEqI", "GEI", "LEI"}
BoolOps == {"And", "Or", "Invert"}

IntResult(op, a, b) ==
  CASE op = "AddI" -> IntValue(a + b)
    [] op = "SubI" -> IntValue(a - b)
    [] op = "MulI" -> IntValue(a * b)
    [] op = "DivI" -> IF b = 0 THEN Panicked ELSE IntValue(Quotient(a, b))
    [] op = "ModI" -> IF b = 0 THEN Panicked ELSE IntValue(Remainder(a, b))
    [] op = "GEqI" -> Value(Truth(a >= b))
    [] op = "LEqI" -> Value(Truth(a <= b))
    [] op = "GEI"  -> Value(Truth(a > b))
    [] op = "LEI"  -> Value(Truth(a < b))

\* Both operands are evaluated before And and Or: no short circuit.
BoolResult(op, s) ==
  CASE op = "And" -> Value(Truth(s[1][2] /\ s[2][2]))
    [] op = "Or" -> Value(Truth(s[1][2] \/ s[2][2]))
    [] op = "Invert" -> Value(Truth(~s[1][2]))

AllTagged(s, tag) == \A i \in DOMAIN s : s[i][1] = tag

\* What the instruction `op` stores: an operand of the wrong kind is an error
\* of the program.  op is <<name>>, <<"Struct", fields>> or <<"Array2", size>>.
EvalOp(op, s) ==
  CASE op[1] \in IntOps -> IF AllTagged(s, "int")
                           THEN IntResult(op[1], s[1][2], s[2][2]) ELSE Error
    [] op[1] \in BoolOps -> IF AllTagged(s, "bool") THEN BoolResult(op[1], s)
                                                    ELSE Error
    [] op[1] = "Negate" -> IF s[1][1] = "int" THEN IntValue(-s[1][2]) ELSE Error
    [] op[1] = "Store" -> Value(s[1])
    [] op[1] = "Eq" -> Value(Truth(s[1] = s[2]))
    [] op[1] = "InEq" -> Value(Truth(s[1] # s[2]))
    [] op[1] = "Array1" -> Value(Array(s))
    [] op[1] = "Array2" -> Value(Array([i \in 1 .. op[2] |-> s[1]]))
    [] op[1] = "Struct" ->
         Value(Structure([f \in {op[2][i] : i \in DOMAIN op[2]} |->
                            s[CHOOSE i \in DOMAIN op[2] : op[2][i] = f]]))

\* The operations on structures with these fields and arrays up to size n.
Operations(fields, n) ==
  {<<op>> : op \in IntOps \cup BoolOps \cup {"Negate", "Store", "Eq", "InEq", "Array1"}}
    \cup {<<"Array2", k>> : k \in 0 .. n} \cup {<<"Struct", fs>> : fs \in fields}

\* A step of a path: <<"field", name>> in a structure, an integer in an array.
FieldKey(f) == <<"field", f>>
HasKey(v, key) ==
  \/ v[1] = "struct" /\ key[1] = "field" /\ key[2] \in DOMAIN v[2]
  \/ v[1] = "array" /\ key[1] = "int" /\ key[2] \in 0 .. Len(v[2]) - 1

At(v, key) == IF v[1] = "struct" THEN v[2][key[2]] ELSE v[2][key[2] + 1]

\* The value the path leads to, or none when a step of it fails.
SelectIn(v, path, none) ==
  LET Walk[i \in 0 .. Len(path)] ==
        IF i = 0 THEN v
        ELSE LET w == Walk[i - 1]
             IN  IF w # none /\ path[i] # none /\ HasKey(w, path[i])
                 THEN At(w, path[i]) ELSE none
  IN  Walk[Len(path)]

\* The value with x where the path, which exists, leads to.
ReplaceIn(v, path, x) ==
  LET Prefix(i) == SubSeq(path, 1, i)
      Build[i \in 0 .. Len(path)] ==
        IF i = Len(path) THEN x
        ELSE LET w == SelectIn(v, Prefix(i), <<>>)
                 k == path[i + 1]
             IN  IF w[1] = "struct" THEN Structure([w[2] EXCEPT ![k[2]] = Build[i + 1]])
                                    ELSE Array([w[2] EXCEPT ![k[2] + 1] = Build[i + 1]])
  IN  Build[0]

=============================================================================
