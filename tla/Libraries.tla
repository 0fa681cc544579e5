------------------------------ MODULE Libraries ------------------------------
(***************************************************************************)
(* The builtin libraries whose functions compute on the values of Values:  *)
(* vec and option (smpli/src/builtins/vec.rs, option.rs), which keep their *)
(* data in a structure of the language, err, and ipow of math.  A builtin  *)
(* owns its arguments and returns a value of its own, so the cells they    *)
(* share meanwhile are not observable.                                     *)
(*                                                                         *)
(* An outcome is that of Values: a value, an Err, or a panic of the host.  *)
(***************************************************************************)
EXTENDS Integers, Sequences, SequencesExt

CONSTANTS IntMin, IntMax

LOCAL INSTANCE Values

-----------------------------------------------------------------------------
(* option *)

Some(v) == Structure([__DATA |-> v, __TAG |-> Int64(1)])
None == Structure([__TAG |-> Int64(0)])

HasTag(v) == v[1] = "struct" /\ "__TAG" \in DOMAIN v[2]
IsSome(v) == HasTag(v) /\ v[2].__TAG = Int64(1)
IsNone(v) == HasTag(v) /\ v[2].__TAG = Int64(0)

\* unwrap, and expect but for the message of its error.
Unwrap(v) ==
  IF IsSome(v) /\ "__DATA" \in DOMAIN v[2] THEN Value(v[2].__DATA) ELSE Error

-----------------------------------------------------------------------------
(* vec: __LEN counts what __DATA holds. *)

Vec(s, n) == Structure([__DATA |-> Array(s), __LEN |-> Int64(n)])
IsVec(v) == v[1] = "struct" /\ {"__DATA", "__LEN"} \subseteq DOMAIN v[2]
Elements(v) == v[2].__DATA[2]
Length(v) == v[2].__LEN[2]

\* Whether i, as an index of the host, is that of an element.
InRange(v, i) == i \in 0 .. Len(Elements(v)) - 1

VecPush(v, x) == Value(Vec(Append(Elements(v), x), Length(v) + 1))
VecContains(v, x) == Value(Truth(x \in ToSet(Elements(v))))

\* Mutant: an index past the end appends.
VecInsertClamped(v, i, x) ==
  IF i < 0 THEN Panicked
  ELSE Value(Vec(InsertAt(Elements(v), IF i > Length(v) THEN Length(v) + 1 ELSE i + 1, x),
                 Length(v) + 1))

\* The index is cast to usize, so a negative one is past the end as well, and
\* what is past the end panics inside the host's vector.
VecInsert(v, i, x) ==
  IF i \in 0 .. Len(Elements(v))
  THEN Value(Vec(InsertAt(Elements(v), i + 1, x), Length(v) + 1)) ELSE Panicked

VecGetValue(v, i) ==
  IF InRange(v, i) THEN Value(Elements(v)[i + 1]) ELSE Error

\* A negative index is an absent element; one past the end is an error.
VecGet(v, i) ==
  IF i < 0 THEN Value(None)
  ELSE IF InRange(v, i) THEN Value(Some(Elements(v)[i + 1])) ELSE Error

VecRemove(v, i) ==
  IF InRange(v, i)
  THEN Value(Vec(RemoveAt(Elements(v), i + 1), Length(v) - 1)) ELSE Error

-----------------------------------------------------------------------------
(* err and math *)

\* It looks at the first argument only, and counts none.
AssertTrue(args) ==
  IF args = <<>> \/ args[1][1] # "bool" THEN Panicked
  ELSE IF args[1] = Truth(TRUE) THEN Value(UnitVal) ELSE Error

\* A power that leaves the width panics, in a build with overflow checks.  The
\* largest power of the code, u32::MAX - 1, is beyond the width here.
IPow(b, p) ==
  LET Power[n \in 0 .. p] ==
        IF n = 0 THEN Value(Int64(1))
        ELSE IF Power[n - 1] = Panicked THEN Panicked ELSE IntValue(Power[n - 1].val[2] * b)
  IN  IF p < 0 THEN Error ELSE Power[p]

-----------------------------------------------------------------------------

\* The kinds of the arguments, "any" where the function does not look.
Signatures ==
  ("vec::new" :> <<>>) @@ ("vec::len" :> <<"vec">>) @@ ("vec::clear" :> <<"vec">>)
  @@ ("vec::contains" :> <<"vec", "any">>) @@ ("vec::push" :> <<"vec", "any">>)
  @@ ("vec::insert" :> <<"vec", "int", "any">>)
  @@ [f \in {"vec::get_value", "vec::get", "vec::remove"} |-> <<"vec", "int">>]
  @@ ("option::none" :> <<>>)
  @@ [f \in {"option::some", "option::is_some", "option::is_none", "option::unwrap"} |->
        <<"any">>]
  @@ ("math::ipow" :> <<"int", "int">>)

IsOfKind(v, kind) ==
  CASE kind = "any" -> TRUE
    [] kind = "vec" -> IsVec(v)
    [] OTHER -> v[1] = kind

\* What the library function f answers.  A wrong number of arguments is an
\* Err, an argument of the wrong kind a panic; type checking excludes both.
Answer(f, args) ==
  LET kinds == Signatures[f]
      v == args[1]
      i == args[2][2]
  IN  IF f = "err::assert" THEN AssertTrue(args)
      ELSE IF Len(args) # Len(kinds) THEN Error
      ELSE IF \E k \in DOMAIN kinds : ~IsOfKind(args[k], kinds[k]) THEN Panicked
      ELSE CASE f = "vec::new" -> Value(Vec(<<>>, 0))
             [] f = "vec::len" -> Value(v[2].__LEN)
             [] f = "vec::contains" -> VecContains(v, args[2])
             [] f = "vec::push" -> VecPush(v, args[2])
             [] f = "vec::insert" -> VecInsert(v, i, args[3])
             [] f = "vec::get_value" -> VecGetValue(v, i)
             [] f = "vec::get" -> VecGet(v, i)
             [] f = "vec::remove" -> VecRemove(v, i)
             [] f = "vec::clear" -> Value(Vec(<<>>, 0))
             [] f = "option::some" -> Value(Some(v))
             [] f = "option::none" -> Value(None)
             [] f = "option::is_some" -> Value(Truth(IsSome(v)))
             [] f = "option::is_none" -> Value(Truth(IsNone(v)))
             [] f = "option::unwrap" -> Unwrap(v)
             [] f = "math::ipow" -> IPow(v[2], i)

=============================================================================
