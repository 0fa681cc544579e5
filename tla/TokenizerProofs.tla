--------------------------- MODULE TokenizerProofs ---------------------------
(***************************************************************************)
(* The tokenizer loses nothing, whatever the text, its length and the      *)
(* keywords.                                                               *)
(***************************************************************************)
EXTENDS Tokenizer, WellFoundedInduction, FiniteSetTheorems, SequenceTheorems, TLAPS

Entries(s) == {s[i] : i \in DOMAIN s}

Typed ==
  /\ input \in Seq(STRING) /\ pos \in 0 .. Length
  /\ taken \in Seq(Entries(taken))
  /\ next = <<>> \/ next = <<next[1]>>
  /\ wanted => next = <<>>

\* Every result lies in the part of the text that was read.
Placed ==
  \A i \in DOMAIN Results : /\ Results[i].from \in 1 .. pos
                            /\ Results[i].to \in Results[i].from .. pos

\* The inductive invariant.
IInv == Typed /\ Placed /\ NothingLost

-----------------------------------------------------------------------------
\* Where a rule that takes characters of one kind stops: within the text, and
\* before the first character of another kind.
LEMMA TakeWhileStops ==
  ASSUME input \in Seq(STRING), NEW i \in 0 .. Length, NEW chars
  PROVE  /\ TakeWhile(i, chars) \in i .. Length
         /\ \A j \in i + 1 .. TakeWhile(i, chars) : input[j] \in chars
         /\ ~Ahead(TakeWhile(i, chars), chars)
<1> DEFINE stops == {j \in i .. Length : ~Ahead(j, chars)}
           Stop(k) == /\ \A j \in i + 1 .. k : input[j] \in chars
                      /\ ~Ahead(k, chars)
<1>1. Length \in Nat  BY DEF Length
<1>2. stops \in SUBSET Nat /\ Length \in stops  BY <1>1 DEF Ahead
<1>3. PICK k \in stops : \A j \in stops : k <= j
  <2> DEFINE less == {p \in Nat \X Nat : p[1] < p[2]}
  <2>1. IsWellFoundedOn(less, Nat)  BY NatLessThanWellFounded DEF OpToRel
  <2>2. stops \subseteq Nat /\ stops # {}  BY <1>2
  <2> HIDE DEF stops, less
  <2>3. PICK k \in stops : \A j \in stops : <<j, k>> \notin less
    BY <2>1, <2>2, WFMin
  <2>4. \A j \in stops : ~(j < k)
    <3> SUFFICES ASSUME NEW j \in stops, j < k PROVE <<j, k>> \in less  BY <2>3
    <3> QED  BY <2>2 DEF less
  <2>5. \A j \in stops : j \in Nat /\ k \in Nat  BY <2>2
  <2> QED  BY <2>4, <2>5
<1>4. \A j \in i + 1 .. k : input[j] \in chars
  <2> SUFFICES ASSUME NEW j \in i + 1 .. k, input[j] \notin chars PROVE FALSE  OBVIOUS
  <2>1. j - 1 \in i .. Length /\ j - 1 < k  BY <1>1, <1>3
  <2>2. j - 1 \in stops  BY <2>1, <1>1 DEF Ahead
  <2> QED  BY <2>1, <2>2, <1>1, <1>3
<1>5. \E n \in i .. Length : Stop(n)  BY <1>3, <1>4
<1>6. TakeWhile(i, chars) = CHOOSE n \in i .. Length : Stop(n)  BY DEF TakeWhile
<1> HIDE DEF Stop
<1>7. TakeWhile(i, chars) \in i .. Length /\ Stop(TakeWhile(i, chars))  BY <1>5, <1>6
<1> QED  BY <1>7 DEF Stop

\* A result behind the others.
LEMMA Appended ==
  ASSUME NEW s, s \in Seq(Entries(s)), NEW r
  PROVE  LET t == s \o <<r>> IN
         /\ t \in Seq(Entries(t)) /\ Len(t) = Len(s) + 1 /\ Len(s) \in Nat
         /\ DOMAIN s = 1 .. Len(s) /\ DOMAIN t = 1 .. Len(s) + 1
         /\ \A i \in 1 .. Len(s) : t[i] = s[i]
         /\ t[Len(s) + 1] = r
<1> DEFINE S == Entries(s) \cup {r}
           t == s \o <<r>>
<1>1. s \in Seq(S) /\ <<r>> \in Seq(S)  OBVIOUS
<1>2. /\ t \in Seq(S) /\ Len(t) = Len(s) + 1 /\ Len(s) \in Nat
      /\ DOMAIN s = 1 .. Len(s) /\ DOMAIN t = 1 .. Len(s) + 1
      /\ \A i \in 1 .. Len(s) : t[i] = s[i]
      /\ t[Len(s) + 1] = r
  BY <1>1
<1>3. t \in Seq(Entries(t))  BY <1>2 DEF Entries
<1> QED  BY <1>2, <1>3

\* The effect of a rule that returns a result for the characters up to k.
LEMMA Returning ==
  ASSUME IInv, wanted, NEW k \in First .. Length, NEW r, r.from = First, r.to = k,
         pos' = k, next' = <<r>>, wanted' = FALSE, UNCHANGED <<input, taken>>
  PROVE  IInv'
<1> USE DEF First, Length
<1>1. /\ Typed /\ next = <<>> /\ pos \in Nat /\ Length \in Nat
      /\ Length' = Length /\ k \in Nat /\ pos < k
  BY DEF IInv, Typed
<1>2. Results = taken /\ Results' = taken \o <<r>>
  BY <1>1 DEF Results, Typed
<1>3. /\ Len(taken) \in Nat /\ DOMAIN taken = 1 .. Len(taken)
      /\ Len(Results') = Len(taken) + 1 /\ DOMAIN Results' = 1 .. Len(taken) + 1
      /\ \A i \in 1 .. Len(taken) : Results'[i] = taken[i]
      /\ Results'[Len(taken) + 1] = r
  BY <1>1, <1>2, Appended DEF Typed
<1>4. Typed'
  BY <1>1 DEF Typed, Entries
<1>5. Placed'
  <2>1. \A i \in 1 .. Len(taken) : taken[i].from \in 1 .. pos /\ taken[i].to \in taken[i].from .. pos
    BY <1>2, <1>3 DEF IInv, Placed
  <2> QED  BY <1>1, <1>3, <2>1 DEF Placed
<1>6. NothingLost'
  <2> DEFINE from(i) == IF i = 1 THEN 1 ELSE taken[i - 1].to + 1
             n == Len(taken) + 1
  <2>2. \A i \in 1 .. Len(taken) :
          from(i) <= taken[i].from /\ \A j \in from(i) .. taken[i].from - 1 : Ignored(from(i), j)
    BY <1>2, <1>3 DEF IInv, NothingLost
  <2>3. \A j \in from(n) .. pos : Ignored(from(n), j)
    <3>1. CASE taken = <<>>  BY <1>2, <1>3, <3>1 DEF IInv, NothingLost
    <3>2. CASE taken # <<>>
      <4>1. Len(taken) # 0  BY <3>2, <1>1 DEF Typed
      <4> QED  BY <1>2, <1>3, <3>2, <4>1 DEF IInv, NothingLost, Last
    <3> QED  BY <3>1, <3>2
  <2>4. from(n) <= r.from
    <3>1. CASE n = 1  BY <3>1, <1>1
    <3>2. CASE n # 1
      <4>1. Len(taken) \in DOMAIN Results  BY <3>2, <1>2, <1>3
      <4> QED  BY <4>1, <3>2, <1>1, <1>2, <1>3 DEF IInv, Placed
    <3> QED  BY <3>1, <3>2
  <2>5. \A i \in 1 .. n : /\ i = 1 \/ i - 1 \in 1 .. Len(taken)
                          /\ i = n \/ i \in 1 .. Len(taken)
    BY <1>3
  <2>6. \A i \in 1 .. n :
          /\ (IF i = 1 THEN 1 ELSE Results'[i - 1].to + 1) = from(i)
          /\ from(i) <= Results'[i].from
          /\ \A j \in from(i) .. Results'[i].from - 1 : Ignored(from(i), j)
    <3> SUFFICES ASSUME NEW i \in 1 .. n
                 PROVE  /\ (IF i = 1 THEN 1 ELSE Results'[i - 1].to + 1) = from(i)
                        /\ from(i) <= Results'[i].from
                        /\ \A j \in from(i) .. Results'[i].from - 1 : Ignored(from(i), j)
      OBVIOUS
    <3>1. (IF i = 1 THEN 1 ELSE Results'[i - 1].to + 1) = from(i)  BY <1>3, <2>5
    <3>2. CASE i \in 1 .. Len(taken)  BY <3>1, <3>2, <1>3, <2>2
    <3>3. CASE i = n  BY <3>1, <3>3, <1>1, <1>3, <2>3, <2>4
    <3> QED  BY <3>1, <3>2, <3>3, <2>5
  <2>7. Results' # <<>> /\ Last(Results') = r  BY <1>3 DEF Last
  <2>8. \A i \in DOMAIN Results' :
          LET f == IF i = 1 THEN 1 ELSE Results'[i - 1].to + 1 IN
          /\ f <= Results'[i].from
          /\ \A j \in f .. Results'[i].from - 1 : Ignored(f, j)
    <3> HIDE DEF from
    <3> QED  BY <1>3, <2>6
  <2>9. \A j : j \notin Last(Results').to + 1 .. pos'  BY <1>1, <2>7
  <2> HIDE DEF from
  <2> QED  BY <2>7, <2>8, <2>9 DEF NothingLost, Ignored
<1> QED  BY <1>4, <1>5, <1>6 DEF IInv

\* The effect of a rule that passes over characters that may be ignored.
LEMMA Skipping ==
  ASSUME IInv, NEW k \in First .. Length, Skip(k),
         \A from \in 1 .. First, j \in First .. k : Ignored(from, j)
  PROVE  IInv'
<1> USE DEF First, Length
<1>1. /\ Typed /\ pos \in Nat /\ Length \in Nat /\ k \in Nat /\ pos < k
      /\ UNCHANGED <<input, wanted, next, taken>> /\ pos' = k
  BY DEF IInv, Typed, Skip
<1>2. Typed'  BY <1>1 DEF Typed
<1>3. Results' = Results  BY <1>1 DEF Results
<1>4. Placed'  BY <1>1, <1>3 DEF IInv, Placed
<1>5. \A from, j : Ignored(from, j)' <=> Ignored(from, j)  BY <1>1 DEF Ignored
<1> DEFINE from == IF Results = <<>> THEN 1 ELSE Last(Results).to + 1
<1>6. from \in 1 .. First
  <2>1. Results \in Seq(Entries(Results))
    <3>1. CASE next = <<>>  BY <1>1, <3>1 DEF Typed, Results
    <3>2. CASE next = <<next[1]>>  BY <1>1, <3>2, Appended DEF Typed, Results
    <3> QED  BY <1>1, <3>1, <3>2 DEF Typed
  <2>2. CASE Results = <<>>  BY <1>1, <2>2
  <2>3. CASE Results # <<>>
    <3>1. Len(Results) \in DOMAIN Results /\ Len(Results) # 0  BY <2>1, <2>3
    <3> QED  BY <1>1, <2>3, <3>1 DEF IInv, Placed, Last
  <2> QED  BY <2>2, <2>3
<1>7. \A j \in from .. k : Ignored(from, j)
  <2>1. \A j \in from .. pos : Ignored(from, j)  BY DEF IInv, NothingLost
  <2> QED  BY <1>1, <1>6, <2>1
<1>8. NothingLost'
  <2> HIDE DEF from
  <2>1. from = (IF Results = <<>> THEN 1 ELSE Last(Results).to + 1)  BY DEF from
  <2> QED  BY <1>1, <1>3, <1>5, <1>7, <2>1 DEF IInv, NothingLost
<1> QED  BY <1>2, <1>4, <1>8 DEF IInv

-----------------------------------------------------------------------------
\* Every rule of the tokenizer, and the parser's taking of a token, keep the
\* invariant: a rule returns what it took as one result, or takes what may be
\* ignored.
LEMMA StepLosesNothing == IInv /\ [Next]_vars => IInv'
<1> SUFFICES ASSUME IInv, [Next]_vars PROVE IInv'  OBVIOUS
<1>1. /\ input \in Seq(STRING) /\ Length \in Nat /\ pos \in 0 .. Length
      /\ pos < Length => First \in 1 .. Length
  BY DEF IInv, Typed, First, Length
<1>2. ASSUME NEW kind, NEW k \in First .. Length, NEW text, NEW start, NEW end, wanted,
             Return(kind, k, text, start, end)
      PROVE  IInv'
  <2> DEFINE r == Result(kind, First, k, text, start, end)
  <2>1. r.from = First /\ r.to = k  BY DEF Result
  <2>2. pos' = k /\ next' = <<r>> /\ wanted' = FALSE /\ UNCHANGED <<input, taken>>
    BY <1>2 DEF Return
  <2> HIDE DEF r
  <2> QED  BY <1>2, <2>1, <2>2, Returning
<1>3. ASSUME NEW kind, wanted, pos < Length, Single(kind) PROVE IInv'
  BY <1>1, <1>2, <1>3 DEF Single
<1>4. ASSUME NEW kind, NEW chars, wanted, pos < Length, Ahead(First, chars), Double(kind)
      PROVE IInv'
  BY <1>1, <1>2, <1>4 DEF Double, Ahead
<1>5. ASSUME Panic PROVE IInv'
  BY <1>5, SMTT(60) DEF Panic, IInv, Typed, Placed, NothingLost, Results, Ignored, Length
<1>6. ASSUME NEW chars, pos < Length
      PROVE  TakeWhile(First, chars) \in First .. Length
  BY <1>1, <1>6, TakeWhileStops
<1>7. CASE LineComment
  <2> DEFINE k == TakeWhile(First, {input[i] : i \in 1 .. Length} \ {"newline"})
  <2>1. pos < Length /\ IsComment  BY <1>7 DEF LineComment, Reading
  <2>2. k \in First .. Length /\ \A j \in First + 1 .. k : input[j] # "newline"
    BY <1>1, <2>1, TakeWhileStops
  <2>3. First < Length /\ input[First] = "/" /\ input[First + 1] = "/"
    BY <2>1 DEF IsComment, Char, Ahead
  <2>4. \A from \in 1 .. First, j \in First .. k : Ignored(from, j)
    <3> SUFFICES ASSUME NEW from \in 1 .. First, NEW j \in First .. k PROVE Ignored(from, j)
      OBVIOUS
    <3>1. First \in from .. j  BY <1>1, <2>1
    <3>2. "newline" \notin {input[n] : n \in First .. j}
      <4> SUFFICES ASSUME NEW n \in First .. j PROVE input[n] # "newline"  OBVIOUS
      <4>1. n = First \/ n \in First + 1 .. k  BY <1>1, <2>1, <2>2
      <4> QED  BY <2>2, <2>3, <4>1
    <3> QED  BY <2>3, <3>1, <3>2 DEF Ignored
  <2>5. Skip(k) \/ Panic  BY <1>7 DEF LineComment
  <2> HIDE DEF k
  <2> QED  BY <1>5, <2>2, <2>4, <2>5, Skipping
<1>8. CASE Arrow
  BY <1>4, <1>8 DEF Arrow, Reading, IsArrow
<1>9. CASE Punctuation
  BY <1>3, <1>4, <1>9 DEF Punctuation, Reading
<1>10. CASE StringLiteral
  <2> DEFINE k == TakeWhile(First, {input[i] : i \in 1 .. Length} \ {"quote"})
  <2>1. wanted /\ pos < Length  BY <1>10 DEF StringLiteral, Reading
  <2>2. k \in First .. Length  BY <1>6, <2>1
  <2>3. k < Length => k + 1 \in First .. Length  BY <1>1, <2>1, <2>2
  <2>4. \/ k < Length /\ Return("string", k + 1, Text(First + 1, k), Start, Taken(k + 1))
        \/ Return("unterminated", k, <<>>, Start, Start)
    BY <1>10 DEF StringLiteral
  <2> HIDE DEF k
  <2> QED  BY <1>2, <2>1, <2>2, <2>3, <2>4
<1>11. CASE Identifier
  <2> DEFINE k == TakeWhile(First, {c \in {input[i] : i \in 1 .. Length} : IsIdentContinue(c)})
  <2>1. wanted /\ pos < Length  BY <1>11 DEF Identifier, Reading
  <2>2. k \in First .. Length  BY <1>6, <2>1
  <2>3. Panic \/ \E kind : Return(kind, k, Text(First, k), Start, Until(Start, k))
    BY <1>11 DEF Identifier
  <2> HIDE DEF k
  <2> QED  BY <1>2, <1>5, <2>1, <2>2, <2>3
<1>12. CASE NumericLiteral
  <2> DEFINE k == TakeWhile(First, Digits)
             j == TakeWhile(k + 1, Digits)
  <2>1. wanted /\ pos < Length  BY <1>12 DEF NumericLiteral, Reading
  <2>2. k \in First .. Length  BY <1>6, <2>1
  <2>3. Ahead(k, {"."}) => j \in First .. Length
    <3> SUFFICES ASSUME Ahead(k, {"."}) PROVE j \in First .. Length  OBVIOUS
    <3>1. k + 1 \in 0 .. Length /\ k + 1 >= First  BY <1>1, <2>1, <2>2 DEF Ahead
    <3> HIDE DEF k
    <3>2. j \in k + 1 .. Length  BY <1>1, <3>1, TakeWhileStops
    <3> QED  BY <1>1, <2>1, <2>2, <3>1, <3>2
  <2>4. \/ /\ Ahead(k, {"."})
           /\ \/ Return("unexpected", j, <<input[j + 1]>>, Peeked(j + 1), Peeked(j + 1))
              \/ Return("float", j, Text(First, j), Start, Until(Start, j))
        \/ Return("int", k, Text(First, k), Start, Until(Start, k))
        \/ Panic
    BY <1>12 DEF NumericLiteral
  <2> HIDE DEF k, j
  <2> QED  BY <1>2, <1>5, <2>1, <2>2, <2>3, <2>4
<1>13. CASE Op
  <2>1. wanted /\ pos < Length  BY <1>13 DEF Op, Reading
  <2>2. \/ Single("symbol")
        \/ Ahead(First, Followers[Char]) /\ Double("symbol")
        \/ Return("incomplete", First, <<Char>>, Start, Start)
    BY <1>13 DEF Op
  <2> QED  BY <1>1, <1>2, <1>3, <1>4, <2>1, <2>2
<1>14. CASE Whitespace
  <2>1. pos < Length /\ IsWhitespace(input[First]) /\ Skip(First)
    BY <1>14 DEF Whitespace, Reading, Char
  <2>2. \A from \in 1 .. First, j \in First .. First : Ignored(from, j)
    BY <1>1, <2>1 DEF Ignored
  <2> QED  BY <1>1, <2>1, <2>2, Skipping
<1>15. CASE Unexpected
  BY <1>1, <1>2, <1>15 DEF Unexpected, Reading
<1>16. CASE EndOfInput
  <2>1. UNCHANGED <<input, pos, next, taken>> /\ ~wanted'  BY <1>16 DEF EndOfInput
  <2>2. Typed'  BY <2>1 DEF IInv, Typed, Length
  <2>3. Results' = Results  BY <2>1 DEF Results
  <2>4. Placed'  BY <2>1, <2>3 DEF IInv, Placed
  <2>5. NothingLost'  BY <2>1, <2>3 DEF IInv, NothingLost, Ignored, Length
  <2> QED  BY <2>2, <2>4, <2>5 DEF IInv
<1>17. CASE Take
  <2>1. /\ taken' = taken \o next /\ next' = <<>> /\ next = <<next[1]>>
        /\ UNCHANGED <<input, pos>>
    BY <1>17 DEF Take, IInv, Typed
  <2>2. Typed'  BY <2>1, Appended DEF IInv, Typed, Length
  <2>3. Results' = Results  BY <2>1, <2>2 DEF Typed, Results
  <2> QED  BY <2>1, <2>2, <2>3 DEF IInv, Placed, NothingLost, Ignored, Length
<1>18. CASE UNCHANGED vars
  <2>1. UNCHANGED <<input, pos, wanted, next, taken, Results>>  BY <1>18 DEF vars, Results
  <2>2. Typed'  BY <2>1 DEF IInv, Typed, Length, Entries
  <2>3. Placed'  BY <2>1 DEF IInv, Placed
  <2>4. NothingLost'  BY <2>1 DEF IInv, NothingLost, Ignored, Length
  <2> QED  BY <2>2, <2>3, <2>4 DEF IInv
<1> QED
  BY <1>7, <1>8, <1>9, <1>10, <1>11, <1>12, <1>13, <1>14, <1>15, <1>16, <1>17, <1>18
  DEF Next, Scan, Stopped

LEMMA Inductive == Spec => []IInv
<1>1. Init => IInv
  BY TextsAssumption DEF Init, IInv, Typed, Placed, NothingLost, Results, Entries, Length
<1> QED  BY <1>1, StepLosesNothing, PTL DEF Spec

\* NothingIsLost: on any text, of any length, what the parser is handed and
\* what waits for it come in the order of the text with nothing between them
\* but space and comments; the characters of a rule that panics stay unread.
THEOREM NothingIsLost == Spec => []NothingLost
<1>1. IInv => NothingLost  BY DEF IInv
<1> QED  BY <1>1, Inductive, PTL

-----------------------------------------------------------------------------
(* The places of a text: later characters lie at later bytes, on later lines, *)
(* and on one line at later columns. *)

\* A set of numbers up to n has a greatest one.
LEMMA Greatest ==
  ASSUME NEW n \in Nat, NEW S \in SUBSET (1 .. n), S # {}
  PROVE  Max(S) \in S
<1> DEFINE less == {p \in Nat \X Nat : p[1] < p[2]}
           T == {n - x : x \in S}
<1>1. IsWellFoundedOn(less, Nat)  BY NatLessThanWellFounded DEF OpToRel
<1>2. T \subseteq Nat /\ T # {}
  <2>1. PICK x : x \in S  OBVIOUS
  <2>2. n - x \in T  BY <2>1
  <2>3. \A y \in S : n - y \in Nat  OBVIOUS
  <2> QED  BY <2>2, <2>3
<1>3. PICK k \in T : \A j \in T : <<j, k>> \notin less
  <2> HIDE DEF T, less
  <2> QED  BY <1>1, <1>2, WFMin
<1>4. PICK x \in S : k = n - x  BY <1>3
<1>5. \A y \in S : x >= y
  <2> SUFFICES ASSUME NEW y \in S, y > x PROVE FALSE  OBVIOUS
  <2>1. n - y \in T /\ n - y \in Nat /\ n - x \in Nat /\ n - y < n - x  OBVIOUS
  <2>2. <<n - y, k>> \in less  BY <1>4, <2>1
  <2> QED  BY <1>3, <2>1, <2>2
<1> QED  BY <1>5 DEF Max

\* How many places up to i hold some character, for a later place.
LEMMA Counted ==
  ASSUME NEW i \in Nat, NEW j \in Nat, i <= j, NEW P, NEW A, NEW B,
         A = {n \in 1 .. i : n \in P}, B = {n \in 1 .. j : n \in P}
  PROVE  /\ Cardinality(A) \in Nat /\ Cardinality(B) \in Nat
         /\ Cardinality(A) <= Cardinality(B)
         /\ Cardinality(A) = Cardinality(B) => A = B
<1>1. IsFiniteSet(1 .. j)  BY FS_Interval
<1>2. B \in SUBSET (1 .. j) /\ A \in SUBSET B  OBVIOUS
<1>3. IsFiniteSet(B)  BY <1>1, <1>2, FS_Subset
<1>4. IsFiniteSet(A) /\ Cardinality(A) <= Cardinality(B) /\ (Cardinality(B) = Cardinality(A) => B = A)
  BY <1>2, <1>3, FS_Subset
<1> QED  BY <1>3, <1>4, FS_CardinalityType

\* Every character takes a byte at least.
LEMMA BytesAscend ==
  ASSUME NEW i \in Nat, NEW j \in Nat, i <= j
  PROVE  Byte(i) \in Nat /\ Byte(j) \in Nat /\ Byte(i) + (j - i) <= Byte(j)
<1> DEFINE P == {n \in 1 .. j : Width(input[n]) = 2}
<1>1. PICK A : A = {n \in 1 .. i : Width(input[n]) = 2}  OBVIOUS
<1>2. PICK B : B = {n \in 1 .. j : Width(input[n]) = 2}  OBVIOUS
<1>3. A = {n \in 1 .. i : n \in P} /\ B = {n \in 1 .. j : n \in P}
  BY <1>1, <1>2
<1> HIDE DEF P
<1>4. Cardinality(A) \in Nat /\ Cardinality(B) \in Nat /\ Cardinality(A) <= Cardinality(B)
  BY <1>3, Counted
<1>5. Byte(i) = i + Cardinality(A) /\ Byte(j) = j + Cardinality(B)  BY <1>1, <1>2 DEF Byte
<1> QED  BY <1>4, <1>5

\* Lines never go back, and on one line the column counts characters.
LEMMA LinesAscend ==
  ASSUME NEW i \in Nat, NEW j \in Nat, i <= j
  PROVE  /\ Cursor(i).line \in Nat /\ Cursor(j).line \in Nat
         /\ Cursor(i).line <= Cursor(j).line
         /\ Cursor(i).line = Cursor(j).line => Cursor(j).column - Cursor(i).column = j - i
<1> DEFINE P == {n \in 1 .. j : input[n] = "newline"}
<1>1. Newlines(i) = {n \in 1 .. i : n \in P} /\ Newlines(j) = {n \in 1 .. j : n \in P}
  BY DEF Newlines
<1> HIDE DEF P
<1>2. /\ Cardinality(Newlines(i)) \in Nat /\ Cardinality(Newlines(j)) \in Nat
      /\ Cardinality(Newlines(i)) <= Cardinality(Newlines(j))
      /\ Cardinality(Newlines(i)) = Cardinality(Newlines(j)) => Newlines(i) = Newlines(j)
  <2>1. PICK A, B : A = Newlines(i) /\ B = Newlines(j)  OBVIOUS
  <2>2. A = {n \in 1 .. i : n \in P} /\ B = {n \in 1 .. j : n \in P}  BY <1>1, <2>1
  <2>3. /\ Cardinality(A) \in Nat /\ Cardinality(B) \in Nat
        /\ Cardinality(A) <= Cardinality(B)
        /\ Cardinality(A) = Cardinality(B) => A = B
    BY <2>2, Counted
  <2> QED  BY <2>1, <2>3
<1>3. /\ Cursor(i).line = 1 + Cardinality(Newlines(i))
      /\ Cursor(j).line = 1 + Cardinality(Newlines(j))
  BY DEF Cursor
<1>4. ASSUME Newlines(i) = Newlines(j)
      PROVE  Cursor(j).column - Cursor(i).column = j - i
  <2>1. CASE Newlines(i) = {}  BY <1>4, <2>1 DEF Cursor
  <2>2. CASE Newlines(i) # {}
    <3>1. PICK S : S = Newlines(i)  OBVIOUS
    <3>2. S \in SUBSET (1 .. i) /\ S # {}  BY <2>2, <3>1 DEF Newlines
    <3>3. Max(S) \in Nat
      <4>1. Max(S) \in S  BY <3>2, Greatest
      <4>2. \A x \in S : x \in Nat  BY <3>2
      <4> QED  BY <4>1, <4>2
    <3>4. PICK m \in Nat : m = Max(Newlines(i))  BY <3>1, <3>3
    <3>5. Cursor(i).column = 1 + i - m /\ Cursor(j).column = 1 + j - m
      BY <1>4, <2>2, <3>4 DEF Cursor
    <3> QED  BY <3>4, <3>5
  <2> QED  BY <2>1, <2>2
<1> QED  BY <1>2, <1>3, <1>4

-----------------------------------------------------------------------------
(* Spans. *)

\* A token begins where its text does and ends before the text behind it.
Spanned(r) ==
  /\ r.start.byte \in Nat /\ r.end.byte \in Nat /\ r.start.byte <= r.end.byte
  /\ r.kind \notin Errors => r.start = Taken(r.from) /\ r.end.byte <= Byte(r.to)

Spans ==
  \A i \in DOMAIN Results :
    /\ Spanned(Results[i])
    /\ \A j \in DOMAIN Results : i < j => Results[i].to < Results[j].from

\* A rule that returns a spanned result.
LEMMA Spanning ==
  ASSUME IInv, Spans, wanted, NEW k \in First .. Length, NEW r, r.from = First, r.to = k,
         Spanned(r), next' = <<r>>, UNCHANGED <<input, taken>>
  PROVE  Spans'
<1> USE DEF First, Length
<1>1. Typed /\ next = <<>> /\ pos \in Nat  BY DEF IInv, Typed
<1>2. Results = taken /\ Results' = taken \o <<r>>
  BY <1>1 DEF Results, Typed
<1>3. /\ Len(taken) \in Nat /\ DOMAIN taken = 1 .. Len(taken)
      /\ DOMAIN Results' = 1 .. Len(taken) + 1
      /\ \A i \in 1 .. Len(taken) : Results'[i] = taken[i]
      /\ Results'[Len(taken) + 1] = r
  BY <1>1, <1>2, Appended DEF Typed
<1>4. \A s : Spanned(s)' <=> Spanned(s)
  BY DEF Spanned, Taken, Location, Byte, Cursor, Newlines
<1>5. \A i \in 1 .. Len(taken) :
        /\ Spanned(taken[i]) /\ taken[i].to \in Nat /\ taken[i].to <= pos
        /\ \A j \in 1 .. Len(taken) : i < j => taken[i].to < taken[j].from
  <2>1. PICK n : n = Len(taken)  OBVIOUS
  <2>2. DOMAIN Results = 1 .. n /\ Results = taken  BY <1>2, <1>3, <2>1
  <2>3. \A i \in 1 .. n : taken[i].from \in 1 .. pos /\ taken[i].to \in taken[i].from .. pos
    BY <2>2 DEF IInv, Placed
  <2>4. \A i \in 1 .. n : taken[i].to \in Nat /\ taken[i].to <= pos  BY <1>1, <2>3
  <2>5. \A i \in 1 .. n : /\ Spanned(taken[i])
                         /\ \A j \in 1 .. n : i < j => taken[i].to < taken[j].from
    BY <2>2 DEF Spans
  <2> QED  BY <2>1, <2>4, <2>5
<1> QED
  <2> SUFFICES ASSUME NEW i \in 1 .. Len(taken) + 1
               PROVE  /\ Spanned(Results'[i])
                      /\ \A j \in 1 .. Len(taken) + 1 : i < j => Results'[i].to < Results'[j].from
    BY <1>3, <1>4 DEF Spans
  <2>1. CASE i \in 1 .. Len(taken)
    <3> SUFFICES ASSUME NEW j \in 1 .. Len(taken) + 1, i < j PROVE Results'[i].to < Results'[j].from
      BY <1>3, <1>5, <2>1
    <3>1. CASE j \in 1 .. Len(taken)  BY <1>3, <1>5, <2>1, <3>1
    <3>2. CASE j = Len(taken) + 1  BY <1>1, <1>3, <1>5, <2>1, <3>2
    <3> QED  BY <1>3, <3>1, <3>2
  <2>2. CASE i = Len(taken) + 1  BY <1>3, <2>2
  <2> QED  BY <1>3, <2>1, <2>2

\* Every rule gives its result such a span, whichever way it finds the end: one
\* byte behind the start, at its last character, at the character behind it, or,
\* at the end of the text, at the start.
LEMMA StepSpans == IInv /\ Spans /\ [Next]_vars => Spans'
<1> SUFFICES ASSUME IInv, Spans, [Next]_vars PROVE Spans'  OBVIOUS
<1>1. /\ input \in Seq(STRING) /\ Length \in Nat /\ pos \in 0 .. Length
      /\ pos < Length => First \in 1 .. Length
  BY DEF IInv, Typed, First, Length
<1>2. ASSUME UNCHANGED <<input, Results>> PROVE Spans'
  <2>1. \A s : Spanned(s)' <=> Spanned(s)
    BY <1>2 DEF Spanned, Taken, Location, Byte, Cursor, Newlines
  <2> QED  BY <1>2, <2>1 DEF Spans
<1>3. ASSUME NEW kind, NEW k \in First .. Length, NEW text, NEW start, NEW end, wanted,
             Return(kind, k, text, start, end),
             Spanned(Result(kind, First, k, text, start, end))
      PROVE  Spans'
  <2>1. PICK r : r = Result(kind, First, k, text, start, end)  OBVIOUS
  <2>2. r.from = First /\ r.to = k  BY <2>1 DEF Result
  <2>3. next' = <<r>> /\ UNCHANGED <<input, taken>>  BY <1>3, <2>1 DEF Return
  <2> QED  BY <1>3, <2>1, <2>2, <2>3, Spanning
\* A start, and the places a span may end at.
<1>4. ASSUME pos < Length
      PROVE  /\ Start = Taken(First) /\ Start.byte = Byte(First - 1)
             /\ First \in Nat /\ First - 1 \in Nat
             /\ Span1(Start).byte = Byte(First - 1) + 1
  BY <1>1, <1>4 DEF Start, Taken, Location, Span1
<1>5. ASSUME pos < Length, NEW kind, NEW k \in First .. Length, NEW text, NEW end,
             end.byte \in Nat, Byte(First - 1) <= end.byte, end.byte <= Byte(k)
      PROVE  Spanned(Result(kind, First, k, text, Start, end))
  <2>1. Byte(First - 1) \in Nat  BY <1>4, <1>5, BytesAscend
  <2>2. PICK r : r = Result(kind, First, k, text, Start, end)  OBVIOUS
  <2>3. r.start = Start /\ r.end = end /\ r.from = First /\ r.to = k  BY <2>2 DEF Result
  <2> QED  BY <1>4, <1>5, <2>1, <2>2, <2>3 DEF Spanned
<1>6. ASSUME NEW kind \in Errors, NEW k \in First .. Length, NEW text, NEW start, start.byte \in Nat
      PROVE  Spanned(Result(kind, First, k, text, start, start))
  BY <1>6 DEF Spanned, Result
<1>7. ASSUME pos < Length, NEW k \in First .. Length
      PROVE  /\ Byte(First - 1) \in Nat /\ Byte(k) \in Nat /\ Byte(First - 1) + 1 <= Byte(k)
             /\ Start.byte \in Nat /\ Span1(Start).byte \in Nat
             /\ Start.byte <= Byte(k) /\ Span1(Start).byte <= Byte(k)
  <2>1. k \in Nat /\ First - 1 <= k /\ k - (First - 1) >= 1  BY <1>1, <1>4, <1>7
  <2>2. /\ Byte(First - 1) \in Nat /\ Byte(k) \in Nat
        /\ Byte(First - 1) + (k - (First - 1)) <= Byte(k)
    BY <1>4, <1>7, <2>1, BytesAscend
  <2> QED  BY <1>4, <1>7, <2>1, <2>2
<1>8. ASSUME NEW kind, wanted, pos < Length, Single(kind) PROVE Spans'
  <2>1. First \in First .. Length  BY <1>1, <1>8
  <2>2. Return(kind, First, Text(First, First), Start, Span1(Start))  BY <1>8 DEF Single
  <2>3. /\ Span1(Start).byte \in Nat /\ Byte(First - 1) <= Span1(Start).byte
        /\ Span1(Start).byte <= Byte(First)
    BY <1>4, <1>7, <1>8, <2>1
  <2> QED  BY <1>3, <1>5, <1>8, <2>1, <2>2, <2>3
<1>9. ASSUME NEW kind, NEW chars, wanted, pos < Length, Ahead(First, chars), Double(kind)
      PROVE Spans'
  <2>1. First \in First .. Length /\ First + 1 \in First .. Length  BY <1>1, <1>9 DEF Ahead
  <2>2. Return(kind, First + 1, Text(First, First + 1), Start, Taken(First + 1))
    BY <1>9 DEF Double
  <2>3. Taken(First + 1).byte = Byte(First)  BY <1>1, <1>9 DEF Taken, Location
  <2>4. /\ Byte(First) \in Nat /\ Byte(First - 1) <= Byte(First)
        /\ Byte(First) <= Byte(First + 1)
    <3>1. PICK k \in Nat : k = First  BY <1>4, <1>9
    <3>2. /\ Byte(k) \in Nat /\ Byte(k + 1) \in Nat
          /\ Byte(k) + ((k + 1) - k) <= Byte(k + 1)
      BY BytesAscend
    <3> QED  BY <1>7, <1>9, <2>1, <3>1, <3>2
  <2> QED  BY <1>3, <1>5, <1>9, <2>1, <2>2, <2>3, <2>4
<1>10. ASSUME NEW kind, NEW k \in First .. Length, wanted, pos < Length,
              Return(kind, k, Text(First, k), Start, Until(Start, k))
       PROVE  Spans'
  <2>1. CASE k < Length
    <3>1. Until(Start, k).byte = Byte(k)  BY <1>1, <1>10, <2>1 DEF Until, Peeked, Location
    <3> QED  BY <1>3, <1>5, <1>7, <1>10, <3>1
  <2>2. CASE ~(k < Length)
    <3>1. Until(Start, k) = Start  BY <2>2 DEF Until
    <3> QED  BY <1>3, <1>4, <1>5, <1>7, <1>10, <3>1
  <2> QED  BY <2>1, <2>2
<1>11. ASSUME Panic PROVE Spans'
  BY <1>2, <1>11 DEF Panic, Results
<1>12. ASSUME NEW k, Skip(k) PROVE Spans'
  BY <1>2, <1>12 DEF Skip, Results
<1>13. ASSUME NEW chars, pos < Length
       PROVE  TakeWhile(First, chars) \in First .. Length
  BY <1>1, <1>13, TakeWhileStops
<1>14. CASE LineComment
  BY <1>11, <1>12, <1>14 DEF LineComment
<1>15. CASE Arrow
  BY <1>9, <1>15 DEF Arrow, Reading, IsArrow
<1>16. CASE Punctuation
  BY <1>8, <1>9, <1>16 DEF Punctuation, Reading
<1>17. CASE StringLiteral
  <2> DEFINE k == TakeWhile(First, {input[i] : i \in 1 .. Length} \ {"quote"})
  <2>1. wanted /\ pos < Length  BY <1>17 DEF StringLiteral, Reading
  <2>2. k \in First .. Length  BY <1>13, <2>1
  <2>3. \/ k < Length /\ Return("string", k + 1, Text(First + 1, k), Start, Taken(k + 1))
        \/ Return("unterminated", k, <<>>, Start, Start)
    BY <1>17 DEF StringLiteral
  <2> HIDE DEF k
  <2>4. CASE Return("unterminated", k, <<>>, Start, Start)
    BY <1>3, <1>6, <1>7, <2>1, <2>2, <2>4 DEF Errors
  <2>5. CASE k < Length /\ Return("string", k + 1, Text(First + 1, k), Start, Taken(k + 1))
    <3>1. k \in Nat /\ k + 1 \in First .. Length  BY <1>1, <1>4, <2>1, <2>2, <2>5
    <3>2. Taken(k + 1).byte = Byte(k)  BY <3>1 DEF Taken, Location
    <3>3. Byte(k) \in Nat /\ Byte(First - 1) <= Byte(k) /\ Byte(k) <= Byte(k + 1)
      <4>1. /\ Byte(k) \in Nat /\ Byte(k + 1) \in Nat
            /\ Byte(k) + ((k + 1) - k) <= Byte(k + 1)
        BY <3>1, BytesAscend, SMTT(60)
      <4> QED  BY <1>7, <2>1, <2>2, <3>1, <4>1
    <3> QED  BY <1>3, <1>5, <2>1, <2>5, <3>1, <3>2, <3>3
  <2> QED  BY <2>3, <2>4, <2>5
<1>18. CASE Identifier
  <2> DEFINE k == TakeWhile(First, {c \in {input[i] : i \in 1 .. Length} : IsIdentContinue(c)})
  <2>1. wanted /\ pos < Length  BY <1>18 DEF Identifier, Reading
  <2>2. k \in First .. Length  BY <1>13, <2>1
  <2>3. Panic \/ \E kind : Return(kind, k, Text(First, k), Start, Until(Start, k))
    BY <1>18 DEF Identifier
  <2> HIDE DEF k
  <2> QED  BY <1>10, <1>11, <2>1, <2>2, <2>3
<1>19. CASE NumericLiteral
  <2> DEFINE k == TakeWhile(First, Digits)
             j == TakeWhile(k + 1, Digits)
  <2>1. wanted /\ pos < Length  BY <1>19 DEF NumericLiteral, Reading
  <2>2. k \in First .. Length  BY <1>13, <2>1
  <2>3. Ahead(k, {"."}) => j \in First .. Length
    <3> SUFFICES ASSUME Ahead(k, {"."}) PROVE j \in First .. Length  OBVIOUS
    <3>1. k + 1 \in 0 .. Length /\ k + 1 >= First  BY <1>1, <2>1, <2>2 DEF Ahead
    <3> HIDE DEF k
    <3>2. j \in k + 1 .. Length  BY <1>1, <3>1, TakeWhileStops
    <3> QED  BY <1>1, <2>1, <2>2, <3>1, <3>2
  <2>4. \/ /\ Ahead(k, {"."})
           /\ \/ Return("unexpected", j, <<input[j + 1]>>, Peeked(j + 1), Peeked(j + 1))
              \/ Return("float", j, Text(First, j), Start, Until(Start, j))
        \/ Return("int", k, Text(First, k), Start, Until(Start, k))
        \/ Panic
    BY <1>19 DEF NumericLiteral
  <2> HIDE DEF k, j
  <2>5. ASSUME j \in First .. Length,
               Return("unexpected", j, <<input[j + 1]>>, Peeked(j + 1), Peeked(j + 1))
        PROVE  Spans'
    <3>1. Peeked(j + 1).byte = Byte(j)  BY <1>1, <2>1, <2>5 DEF Peeked, Location
    <3> QED  BY <1>3, <1>6, <1>7, <2>1, <2>5, <3>1 DEF Errors
  <2> QED  BY <1>10, <1>11, <2>1, <2>2, <2>3, <2>4, <2>5
<1>20. CASE Op
  <2>1. wanted /\ pos < Length  BY <1>20 DEF Op, Reading
  <2>2. First \in First .. Length  BY <1>1, <2>1
  <2>3. \/ Single("symbol")
        \/ Ahead(First, Followers[Char]) /\ Double("symbol")
        \/ Return("incomplete", First, <<Char>>, Start, Start)
    BY <1>20 DEF Op
  <2>4. CASE Return("incomplete", First, <<Char>>, Start, Start)
    BY <1>3, <1>6, <1>7, <2>1, <2>2, <2>4 DEF Errors
  <2> QED  BY <1>8, <1>9, <2>1, <2>3, <2>4
<1>21. CASE Whitespace
  BY <1>12, <1>21 DEF Whitespace
<1>22. CASE Unexpected
  <2>1. /\ wanted /\ pos < Length /\ First \in First .. Length
        /\ Return("unexpected", First, <<Char>>, Start, Start)
    BY <1>1, <1>22 DEF Unexpected, Reading
  <2> QED  BY <1>3, <1>6, <1>7, <2>1 DEF Errors
<1>23. CASE EndOfInput
  BY <1>2, <1>23 DEF EndOfInput, Results
<1>24. CASE Take
  <2>1. /\ taken' = taken \o next /\ next' = <<>> /\ next = <<next[1]>> /\ UNCHANGED input
        /\ taken \in Seq(Entries(taken))
    BY <1>24 DEF Take, IInv, Typed
  <2>2. taken \o next \in Seq(Entries(taken \o next))  BY <2>1, Appended
  <2>3. Results' = Results  BY <2>1, <2>2 DEF Results
  <2> QED  BY <1>2, <2>1, <2>3
<1>25. CASE UNCHANGED vars
  BY <1>2, <1>25 DEF vars, Results
<1> QED
  BY <1>14, <1>15, <1>16, <1>17, <1>18, <1>19, <1>20, <1>21, <1>22, <1>23, <1>24, <1>25
  DEF Next, Scan, Stopped

\* TokensAscend: on any text the span of a token begins where its text does and
\* ends before the next one begins, whichever way its end was found, and on one
\* line columns count characters, whatever their bytes.
THEOREM TokensAscend == Spec => []SpansAscend
<1>1. Init => Spans
  BY DEF Init, Spans, Results
<1>2. IInv /\ Spans => SpansAscend
  <2> SUFFICES ASSUME IInv, Spans, NEW i \in DOMAIN Results, NEW j \in DOMAIN Results
               PROVE  LET r == Results[i]
                          s == Results[j]
                      IN  /\ r.start.byte <= r.end.byte
                          /\ r.kind \notin Errors =>
                               r.start.byte = Byte(r.from - 1) /\ r.start.char = r.from - 1
                          /\ i < j /\ {r.kind, s.kind} \cap Errors = {} =>
                               /\ r.end.byte <= s.start.byte
                               /\ r.start.line <= s.start.line
                               /\ r.start.line = s.start.line =>
                                    s.start.column - r.start.column = s.start.char - r.start.char
    BY DEF SpansAscend
  <2>1. PICK r, s : r = Results[i] /\ s = Results[j]  OBVIOUS
  <2>2. /\ Spanned(r) /\ Spanned(s)
        /\ i < j => r.to < s.from
        /\ r.from \in 1 .. pos /\ r.to \in r.from .. pos /\ s.from \in 1 .. pos /\ pos \in Nat
    BY <2>1 DEF IInv, Spans, Placed, Typed, Length
  <2>3. r.start.byte <= r.end.byte  BY <2>2 DEF Spanned
  <2>4. \A q \in {r, s} : q.kind \notin Errors =>
          /\ q.start.byte = Byte(q.from - 1) /\ q.start.char = q.from - 1
          /\ q.start.line = Cursor(q.from).line /\ q.start.column = Cursor(q.from).column
    BY <2>2 DEF Spanned, Taken, Location
  <2>5. ASSUME i < j, r.kind \notin Errors, s.kind \notin Errors
        PROVE  /\ r.end.byte <= s.start.byte
               /\ r.start.line <= s.start.line
               /\ r.start.line = s.start.line =>
                    s.start.column - r.start.column = s.start.char - r.start.char
    <3>1. /\ r.to \in Nat /\ s.from - 1 \in Nat /\ r.to <= s.from - 1
          /\ r.from \in Nat /\ s.from \in Nat /\ r.from <= s.from
      BY <2>2, <2>5
    <3>2. /\ Byte(r.to) \in Nat /\ Byte(s.from - 1) \in Nat
          /\ Byte(r.to) + ((s.from - 1) - r.to) <= Byte(s.from - 1)
      BY <3>1, BytesAscend
    <3>3. r.end.byte \in Nat /\ r.end.byte <= Byte(r.to)  BY <2>2, <2>5 DEF Spanned
    <3>4. r.end.byte <= s.start.byte  BY <2>4, <2>5, <3>1, <3>2, <3>3
    <3>5. /\ Cursor(r.from).line <= Cursor(s.from).line
          /\ Cursor(r.from).line = Cursor(s.from).line =>
               Cursor(s.from).column - Cursor(r.from).column = s.from - r.from
      BY <3>1, LinesAscend
    <3> QED  BY <2>4, <2>5, <3>1, <3>4, <3>5
  <2>6. {r.kind, s.kind} \cap Errors = {} => r.kind \notin Errors /\ s.kind \notin Errors  OBVIOUS
  <2> QED  BY <2>1, <2>3, <2>4, <2>5, <2>6
<1> QED  BY <1>1, <1>2, StepSpans, Inductive, PTL DEF Spec

-----------------------------------------------------------------------------
\* The text of a result.
LEMMA TextOf ==
  ASSUME input \in Seq(STRING), NEW i \in 1 .. Length, NEW k \in i .. Length
  PROVE  /\ Text(i, k) \in Seq(STRING) /\ Len(Text(i, k)) = k - i + 1
         /\ \A j \in 1 .. k - i + 1 : Text(i, k)[j] = input[i + j - 1]
BY SubSeqProperties DEF Text, Length

\* Why the three rules that panic do.
LEMMA Causes ==
  ASSUME IInv, Next, Panic, ~panicked
  PROVE  KnownPanic
<1>1. /\ input \in Seq(STRING) /\ Length \in Nat /\ pos \in 0 .. Length
      /\ pos < Length => First \in 1 .. Length
  BY DEF IInv, Typed, First, Length
<1> DEFINE rest == Text(First, Length)
<1>2. ASSUME pos < Length
      PROVE  /\ rest \in Seq(STRING) /\ rest # <<>> /\ Len(rest) = Length - First + 1
             /\ \A j \in 1 .. Len(rest) : rest[j] = input[First + j - 1]
             /\ Head(rest) = input[First] /\ Last(rest) = input[Length]
  <2>1. /\ rest \in Seq(STRING) /\ Len(rest) = Length - First + 1
        /\ \A j \in 1 .. Len(rest) : rest[j] = input[First + j - 1]
    <3>1. First \in 1 .. Length /\ Length \in First .. Length  BY <1>1, <1>2
    <3>2. /\ Text(First, Length) \in Seq(STRING) /\ Len(Text(First, Length)) = Length - First + 1
          /\ \A j \in 1 .. Length - First + 1 : Text(First, Length)[j] = input[First + j - 1]
      BY <1>1, <3>1, TextOf
    <3> QED  BY <3>2
  <2>2. Len(rest) \in 1 .. Length  BY <1>1, <1>2, <2>1
  <2> HIDE DEF rest
  <2>3. rest # <<>> /\ Head(rest) = rest[1] /\ Last(rest) = rest[Len(rest)]
    BY <2>1, <2>2 DEF Last
  <2> QED  BY <1>1, <1>2, <2>1, <2>2, <2>3
<1>3. ASSUME NEW k, k \in First .. Length, ~Slices(k) PROVE k = Length /\ Width(input[Length]) > 1
  BY <1>1, <1>3 DEF Slices, Width
<1>4. CASE LineComment
  <2> DEFINE chars == {input[i] : i \in 1 .. Length} \ {"newline"}
             k == TakeWhile(First, chars)
  <2>1. pos < Length /\ IsComment  BY <1>4 DEF LineComment, Reading
  <2>2. k \in First .. Length /\ \A j \in First + 1 .. k : input[j] # "newline"
    BY <1>1, <2>1, TakeWhileStops
  <2>3. First < Length /\ input[First] = "/" /\ input[First + 1] = "/"
    BY <2>1 DEF IsComment, Char, Ahead
  <2>4. ~Slices(k)  BY <1>4 DEF LineComment, Skip, Panic
  <2>5. k = Length /\ Width(input[Length]) > 1
    <3> HIDE DEF k
    <3> QED  BY <1>3, <2>2, <2>4
  <2>6. IsLineComment(rest)
    <3>1. Len(rest) > 1 /\ rest[1] = "/" /\ rest[2] = "/"
      BY <1>1, <1>2, <2>1, <2>3
    <3>2. ASSUME NEW j \in DOMAIN rest PROVE rest[j] # "newline"
      <4>1. j \in 1 .. Len(rest) /\ rest[j] = input[First + j - 1]  BY <1>2, <2>1
      <4>2. First + j - 1 = First \/ First + j - 1 \in First + 1 .. k
        <5>1. j \in 1 .. Length - First + 1 /\ First \in Nat /\ Length \in Nat
          BY <1>1, <1>2, <2>1, <4>1
        <5> HIDE DEF k
        <5> QED  BY <2>5, <5>1
      <4> QED  BY <2>2, <2>3, <4>1, <4>2
    <3> QED  BY <3>1, <3>2 DEF IsLineComment
  <2> QED  BY <1>2, <2>1, <2>5, <2>6 DEF KnownPanic
<1>5. CASE Identifier
  <2> DEFINE chars == {c \in {input[i] : i \in 1 .. Length} : IsIdentContinue(c)}
             k == TakeWhile(First, chars)
  <2>1. pos < Length /\ IsIdentStart(input[First])  BY <1>5 DEF Identifier, Reading, Char
  <2>2. k \in First .. Length /\ \A j \in First + 1 .. k : IsIdentContinue(input[j])
    BY <1>1, <2>1, TakeWhileStops
  <2>3. ~Slices(k)  BY <1>5 DEF Identifier, Return, Panic, First
  <2>4. k = Length /\ Width(input[Length]) > 1
    <3> HIDE DEF k
    <3> QED  BY <1>3, <2>2, <2>3
  <2>5. IsName(rest)
    <3>1. ASSUME NEW j \in DOMAIN rest PROVE IsIdentContinue(rest[j])
      <4>1. j \in 1 .. Len(rest) /\ rest[j] = input[First + j - 1]  BY <1>2, <2>1
      <4>2. First + j - 1 = First \/ First + j - 1 \in First + 1 .. k
        <5>1. j \in 1 .. Length - First + 1 /\ First \in Nat /\ Length \in Nat
          BY <1>1, <1>2, <2>1, <4>1
        <5> HIDE DEF k
        <5> QED  BY <2>4, <5>1
      <4>3. CASE First + j - 1 = First  BY <2>1, <4>1, <4>3 DEF IsIdentContinue
      <4>4. CASE First + j - 1 \in First + 1 .. k  BY <2>2, <4>1, <4>4
      <4> QED  BY <4>2, <4>3, <4>4
    <3> QED  BY <1>2, <2>1, <3>1 DEF IsName, All
  <2> QED  BY <1>2, <2>1, <2>4, <2>5 DEF KnownPanic
<1>6. CASE NumericLiteral
  <2> DEFINE k == TakeWhile(First, Digits)
             s == Text(First, k)
  <2>1. pos < Length /\ IsNumber  BY <1>6 DEF NumericLiteral, Reading
  <2>2. /\ k \in First .. Length /\ \A j \in First + 1 .. k : input[j] \in Digits
        /\ ~Ahead(k, Digits)
    BY <1>1, <2>1, TakeWhileStops
  <2>3. ~Ahead(k, {"."}) /\ ~Parses(s)
    <3> HIDE DEF k
    <3> QED  BY <1>6 DEF NumericLiteral, Return, Panic, First, k
  <2>4. k = Length \/ (~IsDigit(input[k + 1]) /\ input[k + 1] # ".")
    <3> HIDE DEF k
    <3> QED  BY <1>1, <2>1, <2>2, <2>3 DEF Ahead, IsDigit, Digits
  <2>5. IsInt(s)
    <3> HIDE DEF k
    <3>1. /\ s \in Seq(STRING) /\ Len(s) = k - First + 1
          /\ \A j \in 1 .. Len(s) : s[j] = input[First + j - 1]
      BY <1>1, <2>1, <2>2, TextOf
    <3>2. Len(s) \in Nat \ {0} /\ s # <<>>  BY <1>1, <2>1, <2>2, <3>1
    <3>3. Head(s) = input[First]  BY <1>1, <2>1, <3>1, <3>2
    <3> HIDE DEF s
    <3>4. ASSUME NEW j \in 2 .. Len(s) PROVE IsDigit(s[j])
      <4>1. s[j] = input[First + j - 1] /\ First + j - 1 \in First + 1 .. k
        BY <1>1, <2>1, <2>2, <3>1, <3>2
      <4> QED  BY <2>2, <4>1 DEF Digits, IsDigit
    <3>5. CASE IsDigit(Char)
      <4>1. Head(s) # "-" /\ \A j \in DOMAIN s : IsDigit(s[j])
        BY <3>1, <3>2, <3>3, <3>4, <3>5 DEF Char, IsDigit, Digit
      <4> QED  BY <3>2, <4>1 DEF IsInt, All
    <3>6. CASE Char = "-" /\ Ahead(First, Digits)
      <4>1. k # First  BY <2>2, <3>6
      <4>2. Len(s) > 1  BY <1>1, <2>1, <2>2, <3>1, <4>1
      <4>3. Tail(s) \in Seq(STRING) /\ Len(Tail(s)) = Len(s) - 1
            /\ \A j \in 1 .. Len(Tail(s)) : Tail(s)[j] = s[j + 1]
        BY <3>1, <3>2, HeadTailProperties
      <4>4. Tail(s) # <<>> /\ \A j \in DOMAIN Tail(s) : IsDigit(Tail(s)[j])
        <5>1. Len(s) \in Nat /\ Tail(s) # <<>> /\ DOMAIN Tail(s) = 1 .. Len(s) - 1
          <6> DEFINE t == Tail(s)
          <6>1. t \in Seq(STRING) /\ Len(t) = Len(s) - 1 /\ Len(s) \in Nat  BY <3>2, <4>3
          <6> HIDE DEF t
          <6>2. t # <<>> /\ DOMAIN t = 1 .. Len(s) - 1  BY <4>2, <6>1
          <6> QED  BY <6>1, <6>2 DEF t
        <5>2. \A j \in 1 .. Len(s) - 1 : Tail(s)[j] = s[j + 1] /\ j + 1 \in 2 .. Len(s)
          BY <4>3, <5>1
        <5> QED  BY <3>4, <5>1, <5>2
      <4> QED  BY <3>2, <3>3, <3>6, <4>4 DEF IsInt, All, Char
    <3> QED  BY <2>1, <3>5, <3>6 DEF IsNumber
  <2> HIDE DEF k
  <2> QED  BY <2>2, <2>3, <2>4, <2>5 DEF KnownPanic
<1>7. LineComment \/ Identifier \/ NumericLiteral
  BY DEF Next, Scan, Panic, Stopped, Take, EndOfInput, Unexpected, Whitespace, Op, StringLiteral,
         Punctuation, Arrow, Single, Double, Return, Skip, vars
<1> QED  BY <1>4, <1>5, <1>6, <1>7

\* OnlyKnownPanics: on any text the tokenizer panics on a name or a comment
\* that ends it in a character of several bytes, on an integer that does not
\* fit, and on nothing else.
THEOREM OnlyKnownPanics == Spec => []PanicsKnown
<1>1. Init => PanicsKnown  BY DEF Init, PanicsKnown
<1>2. IInv /\ PanicsKnown /\ [Next]_vars => PanicsKnown'
  <2> SUFFICES ASSUME IInv, PanicsKnown, [Next]_vars, panicked' PROVE KnownPanic'
    BY DEF PanicsKnown
  <2>1. UNCHANGED <<input, pos>> /\ KnownPanic
    <3>1. CASE panicked
      <4>1. UNCHANGED vars
        BY <3>1 DEF Next, Scan, Stopped, Take, EndOfInput, Unexpected, Whitespace, Op, StringLiteral,
                    Punctuation, Arrow, LineComment, Identifier, NumericLiteral, Reading
      <4> QED  BY <3>1, <4>1 DEF vars, PanicsKnown
    <3>2. CASE ~panicked
      <4>1. Next /\ Panic
        BY <3>2 DEF Next, Scan, Panic, Stopped, Take, EndOfInput, Unexpected, Whitespace, Op,
                    StringLiteral, Punctuation, Arrow, LineComment, Identifier, NumericLiteral,
                    Single, Double, Return, Skip, vars
      <4> QED  BY <3>2, <4>1, Causes DEF Panic
    <3> QED  BY <3>1, <3>2
  <2> QED
    BY <2>1 DEF KnownPanic, Text, Length, First
<1> QED  BY <1>1, <1>2, Inductive, PTL DEF Spec

-----------------------------------------------------------------------------
(* Maximal munch: on any text, every result of the tokenizer is the        *)
(* longest lexeme there is, or an error where there is none.               *)

Pairs == {<<":", ":">>, <<"-", ">">>, <<"&", "&">>, <<"|", "|">>, <<"|", ">">>,
          <<"=", "=">>, <<"!", "=">>, <<"<", "=">>, <<">", "=">>}
Singles == {",", ".", ":", "+", "-", "/", "&", "=", "!", "<", ">"}

\* The characters i to k are digits.
DigitsAt(i, k) == \A j \in i .. k : IsDigit(input[j])
\* A number begins with character i.
NumberAt(i) == IsDigit(input[i]) \/ (input[i] = "-" /\ i < Length /\ IsDigit(input[i + 1]))
FloatAt(i, k) ==
  NumberAt(i) /\ \E p \in i + 1 .. k : /\ input[p] = "." /\ DigitsAt(i + 1, p - 1)
                                        /\ DigitsAt(p + 1, k)
                                        /\ (input[i] = "-" => p > i + 1)
NameAt(i, k) == IsIdentStart(input[i]) /\ \A j \in i + 1 .. k : IsIdentContinue(input[j])
StringAt(i, k) ==
  /\ k > i /\ input[i] = "quote" /\ input[k] = "quote"
  /\ \A j \in i + 1 .. k - 1 : input[j] # "quote"
CommentAt(i, k) ==
  /\ k > i /\ input[i] = "/" /\ input[i + 1] = "/"
  /\ \A j \in i .. k : input[j] # "newline"
SymbolAt(i, k) ==
  \/ k = i /\ input[i] \in Singles
  \/ k = i + 1 /\ <<input[i], input[i + 1]>> \in Pairs
IntAt(i, k) == NumberAt(i) /\ DigitsAt(i + 1, k) /\ (input[i] = "-" => k > i)

-----------------------------------------------------------------------------
(* What the lexemes are, character by character of the text. *)

LEMMA Characters ==
  ASSUME input \in Seq(STRING), NEW i \in 1 .. Length, NEW k \in i .. Length
  PROVE  LET s == Text(i, k) IN
         /\ s \in Seq(STRING) /\ s # <<>> /\ Len(s) = k - i + 1 /\ Len(s) \in Nat \ {0}
         /\ DOMAIN s = 1 .. Len(s)
         /\ \A j \in 1 .. Len(s) : s[j] = input[i + j - 1]
         /\ \A j \in i .. k : j - i + 1 \in 1 .. Len(s) /\ input[j] = s[j - i + 1]
         /\ Head(s) = input[i]
         /\ k > i => Tail(s) = Text(i + 1, k)
<1>1. Length \in Nat /\ i \in Nat /\ k \in Nat /\ i <= k  BY DEF Length
<1> DEFINE s == Text(i, k)
<1>2. s \in Seq(STRING) /\ Len(s) = k - i + 1 /\ \A j \in 1 .. k - i + 1 : s[j] = input[i + j - 1]
  BY TextOf
<1>3. Head(s) = input[i] /\ Tail(s) = Text(i + 1, k)
  BY HeadTailOfSubSeq DEF Text, Length
<1> HIDE DEF s
<1>4. Len(s) \in Nat \ {0} /\ s # <<>> /\ DOMAIN s = 1 .. Len(s)  BY <1>1, <1>2
<1>5. \A j \in i .. k : j - i + 1 \in 1 .. Len(s) /\ input[j] = s[j - i + 1]
  <2> SUFFICES ASSUME NEW j \in i .. k PROVE j - i + 1 \in 1 .. Len(s) /\ input[j] = s[j - i + 1]
    OBVIOUS
  <2>1. j - i + 1 \in 1 .. k - i + 1 /\ i + (j - i + 1) - 1 = j  BY <1>1
  <2> QED  BY <1>2, <2>1
<1> QED  BY <1>1, <1>2, <1>3, <1>4, <1>5 DEF s

LEMMA Names ==
  ASSUME input \in Seq(STRING), NEW i \in 1 .. Length, NEW k \in i .. Length
  PROVE  IsName(Text(i, k)) <=> NameAt(i, k)
<1> DEFINE s == Text(i, k)
<1>1. Length \in Nat /\ i \in Nat /\ k \in Nat /\ i <= k  BY DEF Length
<1>2. /\ s # <<>> /\ Len(s) = k - i + 1 /\ DOMAIN s = 1 .. Len(s) /\ Head(s) = input[i]
      /\ \A j \in 1 .. Len(s) : s[j] = input[i + j - 1]
      /\ \A j \in i .. k : j - i + 1 \in 1 .. Len(s) /\ input[j] = s[j - i + 1]
  BY Characters
<1> HIDE DEF s
<1>3. ASSUME IsName(s) PROVE NameAt(i, k)
  <2>1. IsIdentStart(input[i]) /\ \A n \in DOMAIN s : IsIdentContinue(s[n])
    BY <1>2, <1>3 DEF IsName, All
  <2>2. ASSUME NEW j \in i + 1 .. k PROVE IsIdentContinue(input[j])
    <3>1. j \in i .. k  BY <1>1
    <3> QED  BY <1>2, <2>1, <3>1
  <2> QED  BY <2>1, <2>2 DEF NameAt
<1>4. ASSUME NameAt(i, k), NEW j \in DOMAIN s PROVE IsIdentContinue(s[j])
  <2>1. s[j] = input[i + j - 1] /\ (i + j - 1 = i \/ i + j - 1 \in i + 1 .. k)  BY <1>1, <1>2
  <2> QED  BY <1>4, <2>1 DEF NameAt, IsIdentContinue
<1> QED  BY <1>2, <1>3, <1>4 DEF IsName, All, s, NameAt

LEMMA Comments ==
  ASSUME input \in Seq(STRING), NEW i \in 1 .. Length, NEW k \in i .. Length
  PROVE  IsLineComment(Text(i, k)) <=> CommentAt(i, k)
<1> DEFINE s == Text(i, k)
<1>1. Length \in Nat /\ i \in Nat /\ k \in Nat /\ i <= k  BY DEF Length
<1>2. /\ Len(s) = k - i + 1 /\ DOMAIN s = 1 .. Len(s)
      /\ \A j \in 1 .. Len(s) : s[j] = input[i + j - 1]
      /\ \A j \in i .. k : j - i + 1 \in 1 .. Len(s) /\ input[j] = s[j - i + 1]
  BY Characters
<1> HIDE DEF s
<1>3. Len(s) > 1 <=> k > i  BY <1>1, <1>2
<1>4. k > i => s[1] = input[i] /\ s[2] = input[i + 1]
  <2> SUFFICES ASSUME k > i PROVE s[1] = input[i] /\ s[2] = input[i + 1]  OBVIOUS
  <2>1. 1 \in 1 .. Len(s) /\ 2 \in 1 .. Len(s) /\ i + 1 - 1 = i /\ i + 2 - 1 = i + 1
    BY <1>1, <1>2
  <2> QED  BY <1>2, <2>1
<1>5. (\A j \in DOMAIN s : s[j] # "newline") <=> \A j \in i .. k : input[j] # "newline"
  <2>1. \A j \in 1 .. Len(s) : i + j - 1 \in i .. k  BY <1>1, <1>2
  <2> QED  BY <1>2, <2>1, ZenonT(60)
<1> QED  BY <1>3, <1>4, <1>5 DEF IsLineComment, CommentAt, s

LEMMA Strings ==
  ASSUME input \in Seq(STRING), NEW i \in 1 .. Length, NEW k \in i .. Length
  PROVE  IsString(Text(i, k)) <=> StringAt(i, k)
<1> DEFINE s == Text(i, k)
<1>1. Length \in Nat /\ i \in Nat /\ k \in Nat /\ i <= k  BY DEF Length
<1>2. /\ Len(s) = k - i + 1 /\ Len(s) \in Nat \ {0} /\ DOMAIN s = 1 .. Len(s)
      /\ \A j \in 1 .. Len(s) : s[j] = input[i + j - 1]
      /\ \A j \in i .. k : j - i + 1 \in 1 .. Len(s) /\ input[j] = s[j - i + 1]
  BY Characters
<1> HIDE DEF s
<1>3. Len(s) > 1 <=> k > i  BY <1>1, <1>2
<1>4. s[1] = input[i] /\ s[Len(s)] = input[k]
  <2>1. 1 \in 1 .. Len(s) /\ Len(s) \in 1 .. Len(s) /\ i + 1 - 1 = i /\ i + Len(s) - 1 = k
    BY <1>1, <1>2
  <2> QED  BY <1>2, <2>1
<1>5. ASSUME IsString(s), NEW j \in i + 1 .. k - 1 PROVE input[j] # "quote"
  <2>1. j \in i .. k  BY <1>1
  <2>2. j - i + 1 \in DOMAIN s /\ input[j] = s[j - i + 1]  BY <1>2, <2>1
  <2>3. j - i + 1 # 1 /\ j - i + 1 # Len(s)  BY <1>1, <1>2
  <2> HIDE DEF s
  <2> QED  BY <1>5, <2>2, <2>3 DEF IsString
<1>6. IsString(s) => input[i] = "quote" /\ input[k] = "quote" /\ k > i
  <2> SUFFICES ASSUME IsString(s) PROVE s[1] = "quote" /\ s[Len(s)] = "quote" /\ Len(s) > 1
    BY <1>3, <1>4
  <2>1. 1 \in {1, Len(s)} /\ Len(s) \in {1, Len(s)}  OBVIOUS
  <2> QED  BY <2>1 DEF IsString
<1>7. ASSUME StringAt(i, k) PROVE IsString(s)
  <2>1. s[1] = "quote" /\ s[Len(s)] = "quote" /\ Len(s) > 1 /\ Len(s) \in Nat
    BY <1>1, <1>2, <1>3, <1>4, <1>7 DEF StringAt
  <2>2. ASSUME NEW n \in DOMAIN s, n # 1, n # Len(s) PROVE s[n] # "quote"
    <3>1. s[n] = input[i + n - 1]  BY <1>2
    <3>2. i + n - 1 \in i + 1 .. k - 1  BY <1>1, <1>2, <2>2
    <3> QED  BY <1>7, <3>1, <3>2 DEF StringAt
  <2>3. 1 \in DOMAIN s /\ Len(s) \in DOMAIN s  BY <1>2, <2>1
  <2>4. {n \in DOMAIN s : s[n] = "quote"} = {1, Len(s)}  BY <2>1, <2>2, <2>3
  <2> QED  BY <2>1, <2>4 DEF IsString
<1> QED  BY <1>5, <1>6, <1>7 DEF StringAt, s

LEMMA SymbolsAt ==
  ASSUME input \in Seq(STRING), NEW i \in 1 .. Length, NEW k \in i .. Length
  PROVE  Text(i, k) \in Symbols <=> SymbolAt(i, k)
<1> DEFINE s == Text(i, k)
<1>1. Length \in Nat /\ i \in Nat /\ k \in Nat /\ i <= k  BY DEF Length
<1>2. /\ s \in Seq(STRING) /\ Len(s) = k - i + 1
      /\ \A j \in 1 .. Len(s) : s[j] = input[i + j - 1]
  BY Characters
<1>3. ASSUME NEW t \in Symbols PROVE Len(t) \in {1, 2}
  <2>1. (\E c : t = <<c>>) \/ \E c, d : t = <<c, d>>  BY <1>3 DEF Symbols
  <2>2. CASE \E c : t = <<c>>  BY <2>2
  <2>3. CASE \E c, d : t = <<c, d>>  BY <2>3
  <2> QED  BY <2>1, <2>2, <2>3
<1> HIDE DEF s
<1>4. CASE k = i
  <2>1. Len(s) = 1 /\ s[1] = input[i]  BY <1>1, <1>2, <1>4
  <2>2. s = <<input[i]>>  BY <1>2, <2>1
  <2>3. s \in Symbols <=> input[i] \in Singles  BY <2>2 DEF Symbols, Singles
  <2> QED  BY <1>1, <1>4, <2>3 DEF SymbolAt, s
<1>5. CASE k = i + 1
  <2>1. Len(s) = 2 /\ s[1] = input[i] /\ s[2] = input[i + 1]  BY <1>1, <1>2, <1>5
  <2>2. s = <<input[i], input[i + 1]>>  BY <1>2, <2>1
  <2>3. s \in Symbols <=> <<input[i], input[i + 1]>> \in Pairs  BY <2>2 DEF Symbols, Pairs
  <2> QED  BY <1>1, <1>5, <2>3 DEF SymbolAt, s
<1>6. CASE k # i /\ k # i + 1
  <2>1. Len(s) \notin {1, 2}  BY <1>1, <1>2, <1>6
  <2> QED  BY <1>3, <1>6, <2>1 DEF SymbolAt, s
<1> QED  BY <1>4, <1>5, <1>6

LEMMA Ints ==
  ASSUME input \in Seq(STRING), NEW i \in 1 .. Length, NEW k \in i .. Length
  PROVE  IsInt(Text(i, k)) <=> IntAt(i, k)
<1> DEFINE s == Text(i, k)
           DigitsIn(t) == \A j \in DOMAIN t : IsDigit(t[j])
<1>1. Length \in Nat /\ i \in Nat /\ k \in Nat /\ i <= k  BY DEF Length
<1>2. \A n \in i .. Length : n <= k =>
        /\ Text(n, k) # <<>> /\ Head(Text(n, k)) = input[n]
        /\ DigitsIn(Text(n, k)) <=> DigitsAt(n, k)
  <2> SUFFICES ASSUME NEW n \in i .. Length, n <= k
               PROVE  /\ Text(n, k) # <<>> /\ Head(Text(n, k)) = input[n]
                      /\ DigitsIn(Text(n, k)) <=> DigitsAt(n, k)
    OBVIOUS
  <2> DEFINE t == Text(n, k)
  <2>1. n \in 1 .. Length /\ k \in n .. Length  BY <1>1
  <2>2. /\ t # <<>> /\ Head(t) = input[n] /\ Len(t) = k - n + 1 /\ DOMAIN t = 1 .. Len(t)
        /\ \A j \in 1 .. Len(t) : t[j] = input[n + j - 1]
        /\ \A j \in n .. k : j - n + 1 \in 1 .. Len(t) /\ input[j] = t[j - n + 1]
    BY <2>1, Characters, ZenonT(60)
  <2> HIDE DEF t
  <2>3. \A j \in 1 .. Len(t) : n + j - 1 \in n .. k  BY <1>1, <2>1, <2>2
  <2>4. DigitsIn(t) <=> DigitsAt(n, k)  BY <2>2, <2>3 DEF DigitsAt
  <2> QED  BY <2>2, <2>4 DEF t
<1>3. s # <<>> /\ Head(s) = input[i]  BY <1>1, <1>2
<1>4. CASE input[i] # "-"
  <2>1. IsInt(s) <=> DigitsIn(s)  BY <1>3, <1>4 DEF IsInt, All
  <2>2. DigitsIn(s) <=> DigitsAt(i, k)  BY <1>1, <1>2
  <2>3. DigitsAt(i, k) <=> IsDigit(input[i]) /\ DigitsAt(i + 1, k)  BY <1>1 DEF DigitsAt
  <2> QED  BY <1>4, <2>1, <2>2, <2>3 DEF IntAt, NumberAt
<1>5. CASE input[i] = "-"
  <2>1. ~IsDigit("-")  BY DEF IsDigit, Digit
  <2>2. CASE k = i
    <3>1. Tail(s) = <<>>  BY <1>1, <2>2, TextOf
    <3> QED  BY <1>1, <1>3, <1>5, <2>2, <3>1 DEF IsInt, IntAt
  <2>3. CASE k > i
    <3>1. Tail(s) = Text(i + 1, k)  BY <2>3, Characters
    <3>2. i + 1 \in i .. Length /\ i + 1 <= k  BY <1>1, <2>3
    <3>3. Tail(s) # <<>> /\ (DigitsIn(Tail(s)) <=> DigitsAt(i + 1, k))  BY <1>2, <3>1, <3>2
    <3>4. IsInt(s) <=> DigitsAt(i + 1, k)  BY <1>3, <1>5, <3>3 DEF IsInt, All
    <3>5. DigitsAt(i + 1, k) => NumberAt(i)  BY <1>1, <1>5, <2>3, <3>2 DEF DigitsAt, NumberAt
    <3> QED  BY <2>3, <3>4, <3>5 DEF IntAt
  <2> QED  BY <1>1, <2>2, <2>3
<1> QED  BY <1>4, <1>5

LEMMA Floats ==
  ASSUME input \in Seq(STRING), NEW i \in 1 .. Length, NEW k \in i .. Length
  PROVE  IsFloat(Text(i, k)) <=> FloatAt(i, k)
<1> DEFINE s == Text(i, k)
           Point(n) == s[n] = "." /\ IsInt(SubSeq(s, 1, n - 1)) /\ All(SubSeq(s, n + 1, Len(s)), IsDigit)
           PointAt(p) == /\ input[p] = "." /\ NumberAt(i) /\ DigitsAt(i + 1, p - 1)
                         /\ DigitsAt(p + 1, k) /\ (input[i] = "-" => p > i + 1)
<1>1. Length \in Nat /\ i \in Nat /\ k \in Nat /\ i <= k  BY DEF Length
<1>2. /\ s \in Seq(STRING) /\ Len(s) = k - i + 1 /\ DOMAIN s = 1 .. Len(s)
      /\ \A j \in 1 .. Len(s) : s[j] = input[i + j - 1]
  BY Characters
<1>3. ~IsInt(<<>>)  BY DEF IsInt
<1>4. ASSUME NEW n \in 2 .. Len(s) PROVE Point(n) <=> PointAt(i + n - 1)
  <2> DEFINE p == i + n - 1
  <2>1. p \in i + 1 .. k /\ s[n] = input[p]  BY <1>1, <1>2
  <2>2. SubSeq(s, 1, n - 1) = Text(i, p - 1)
    <3>1. /\ i \in 1 .. Len(input) /\ k \in 1 .. Len(input)
          /\ 1 \in 1 .. k - i + 1 /\ n - 1 \in 1 .. k - i + 1
      BY <1>1, <1>2, <2>1 DEF Length
    <3>2. SubSeq(SubSeq(input, i, k), 1, n - 1) = SubSeq(input, i + 1 - 1, i + (n - 1) - 1)
      BY <3>1, SubSeqOfSubSeq
    <3>3. i + 1 - 1 = i /\ i + (n - 1) - 1 = p - 1  BY <1>1, <1>2, <1>4
    <3> QED  BY <3>2, <3>3 DEF Text
  <2>3. IsInt(Text(i, p - 1)) <=> IntAt(i, p - 1)
    <3>1. p - 1 \in i .. Length  BY <1>1, <2>1
    <3> QED  BY <3>1, Ints
  <2>4. All(SubSeq(s, n + 1, Len(s)), IsDigit) <=> DigitsAt(p + 1, k)
    <3> DEFINE t == SubSeq(s, n + 1, Len(s))
    <3>1. n + 1 \in Int /\ Len(s) \in Int /\ \A j \in n + 1 .. Len(s) : s[j] \in STRING
      BY <1>2
    <3>2. /\ t \in Seq(STRING) /\ Len(t) = (IF n + 1 <= Len(s) THEN Len(s) - (n + 1) + 1 ELSE 0)
          /\ \A j \in 1 .. Len(s) - (n + 1) + 1 : t[j] = s[n + 1 + j - 1]
      BY <3>1, SubSeqProperties
    <3> HIDE DEF s, t
    <3>3. DOMAIN t = 1 .. Len(s) - n /\ \A j \in 1 .. Len(s) - n : t[j] = s[n + j]
      <4>1. Len(s) \in Nat /\ n \in Nat /\ n <= Len(s)  BY <1>1, <1>2, <1>4
      <4>2. Len(t) = Len(s) - n /\ DOMAIN t = 1 .. Len(t)  BY <3>2, <4>1
      <4>3. \A j \in 1 .. Len(s) - n : n + 1 + j - 1 = n + j /\ j \in 1 .. Len(s) - (n + 1) + 1
        BY <4>1
      <4> QED  BY <3>2, <4>2, <4>3
    <3>4. ASSUME NEW j \in 1 .. Len(s) - n PROVE p + j \in p + 1 .. k /\ t[j] = input[p + j]
      <4>1. n + j \in 1 .. Len(s) /\ i + (n + j) - 1 = p + j  BY <1>1, <1>2
      <4> QED  BY <1>1, <1>2, <3>3, <4>1
    <3>5. ASSUME NEW m \in p + 1 .. k PROVE m - p \in 1 .. Len(s) - n /\ m = p + (m - p)
      BY <1>1, <1>2, <2>1
    <3> HIDE DEF p
    <3>6. ASSUME NEW m \in p + 1 .. k PROVE m - p \in DOMAIN t /\ input[m] = t[m - p]
      BY <3>3, <3>4, <3>5
    <3>7. (\A j \in DOMAIN t : IsDigit(t[j])) <=> DigitsAt(p + 1, k)
      BY <3>3, <3>4, <3>6 DEF DigitsAt
    <3> QED  BY <3>7 DEF All, t
  <2>5. p - 1 > i <=> p > i + 1  BY <1>1, <2>1
  <2> HIDE DEF p
  <2>6. Point(n) <=> PointAt(p)  BY <2>1, <2>2, <2>3, <2>4, <2>5 DEF IntAt
  <2> QED  BY <2>6 DEF p
<1>5. ~Point(1)
  <2>1. SubSeq(s, 1, 0) = <<>>  BY SubSeqEmpty
  <2>2. 1 - 1 = 0  OBVIOUS
  <2> HIDE DEF s
  <2> QED  BY <1>3, <2>1, <2>2
<1>6. \A p \in i + 1 .. k : p - i + 1 \in 2 .. Len(s) /\ i + (p - i + 1) - 1 = p  BY <1>1, <1>2
<1>7. \A n \in 2 .. Len(s) : i + n - 1 \in i + 1 .. k  BY <1>1, <1>2
<1>8. IsFloat(s) <=> \E n \in 1 .. Len(s) : Point(n)  BY <1>2 DEF IsFloat
<1>9. FloatAt(i, k) <=> \E p \in i + 1 .. k : PointAt(p)  BY DEF FloatAt
<1>10. \A n \in 1 .. Len(s) : n = 1 \/ n \in 2 .. Len(s)  BY <1>1, <1>2
<1> HIDE DEF s, Point, PointAt
<1>11. ASSUME IsFloat(s) PROVE FloatAt(i, k)
  <2>1. PICK n \in 1 .. Len(s) : Point(n)  BY <1>8, <1>11
  <2>2. n \in 2 .. Len(s)  BY <1>5, <1>10, <2>1
  <2> QED  BY <1>4, <1>7, <1>9, <2>1, <2>2
<1>12. ASSUME FloatAt(i, k) PROVE IsFloat(s)
  <2>1. PICK p \in i + 1 .. k : PointAt(p)  BY <1>9, <1>12
  <2>2. p - i + 1 \in 2 .. Len(s) /\ PointAt(i + (p - i + 1) - 1)  BY <1>6, <2>1
  <2>3. Point(p - i + 1)  BY <1>4, <2>2
  <2>4. p - i + 1 \in 1 .. Len(s)  BY <1>1, <1>2, <2>2
  <2> QED  BY <1>8, <2>3, <2>4
<1> QED  BY <1>11, <1>12 DEF s

LexemeAt(i, k) ==
  \/ SymbolAt(i, k) \/ NameAt(i, k) \/ IntAt(i, k)
  \/ FloatAt(i, k) \/ StringAt(i, k) \/ CommentAt(i, k)

\* The kinds of lexemes have no member in common.
LEMMA Kinds ==
  ASSUME input \in Seq(STRING), NEW i \in 1 .. Length, NEW k \in i .. Length
  PROVE  LET s == Text(i, k) IN
         /\ IsLexeme(s) <=> LexemeAt(i, k)
         /\ SymbolAt(i, k) => KindOf(s) = "symbol"
         /\ NameAt(i, k) => KindOf(s) = IF s \in Keywords THEN "keyword" ELSE "ident"
         /\ IntAt(i, k) => KindOf(s) = "int"
         /\ FloatAt(i, k) => KindOf(s) = "float"
         /\ StringAt(i, k) => KindOf(s) = "string"
<1> DEFINE s == Text(i, k)
<1>1. Length \in Nat /\ i \in Nat /\ k \in Nat /\ i <= k  BY DEF Length
<1>2. /\ s \in Symbols <=> SymbolAt(i, k)
      /\ IsName(s) <=> NameAt(i, k)
      /\ IsInt(s) <=> IntAt(i, k)
      /\ IsFloat(s) <=> FloatAt(i, k)
      /\ IsString(s) <=> StringAt(i, k)
      /\ IsLineComment(s) <=> CommentAt(i, k)
  BY SymbolsAt, Names, Ints, Floats, Strings, Comments
<1> HIDE DEF s
<1>3. s \in Keywords => NameAt(i, k)  BY <1>2, KeywordsAssumption
<1>4. SymbolAt(i, k) => ~NameAt(i, k) /\ ~IntAt(i, k) /\ ~FloatAt(i, k) /\ ~StringAt(i, k)
  <2> SUFFICES ASSUME SymbolAt(i, k)
               PROVE  ~NameAt(i, k) /\ ~IntAt(i, k) /\ ~FloatAt(i, k) /\ ~StringAt(i, k)
    OBVIOUS
  <2>1. input[i] \in Singles \cup {"|"}  BY DEF SymbolAt, Singles, Pairs
  <2>2. ~NameAt(i, k) /\ ~StringAt(i, k)
    BY <2>1 DEF NameAt, IsIdentStart, StringAt, Singles
  <2>3. ASSUME IntAt(i, k) \/ FloatAt(i, k) PROVE FALSE
    <3>1. NumberAt(i) /\ (input[i] = "-" => k > i)
      BY <1>1, <2>3 DEF IntAt, FloatAt
    <3>2. input[i] = "-" /\ IsDigit(input[i + 1])
      BY <2>1, <3>1 DEF NumberAt, Singles, IsDigit, Digit
    <3>3. k = i + 1 /\ input[i + 1] = ">"  BY <1>1, <3>1, <3>2 DEF SymbolAt, Pairs
    <3> QED  BY <3>2, <3>3 DEF IsDigit, Digit
  <2> QED  BY <2>2, <2>3
<1>5. NameAt(i, k) => ~IntAt(i, k) /\ ~FloatAt(i, k) /\ ~StringAt(i, k)
  BY DEF NameAt, IntAt, FloatAt, StringAt, NumberAt, IsIdentStart, IsDigit, Digit
<1>6. IntAt(i, k) \/ FloatAt(i, k) => ~StringAt(i, k)
  BY DEF IntAt, FloatAt, StringAt, NumberAt, IsDigit, Digit
<1>7. FloatAt(i, k) => ~IntAt(i, k)
  BY DEF FloatAt, IntAt, DigitsAt, IsDigit, Digit
<1>8. IsLexeme(s) <=> LexemeAt(i, k)  BY <1>2 DEF IsLexeme, LexemeAt
<1>9. SymbolAt(i, k) => KindOf(s) = "symbol"  BY <1>2, <1>3, <1>4 DEF KindOf
<1>10. NameAt(i, k) => KindOf(s) = IF s \in Keywords THEN "keyword" ELSE "ident"
  BY <1>2, <1>4, <1>5 DEF KindOf
<1>11. IntAt(i, k) => KindOf(s) = "int"  BY <1>2, <1>3, <1>4, <1>5, <1>6, <1>7 DEF KindOf
<1>12. FloatAt(i, k) => KindOf(s) = "float"  BY <1>2, <1>3, <1>4, <1>5, <1>6, <1>7 DEF KindOf
<1>13. StringAt(i, k) => KindOf(s) = "string"  BY <1>2, <1>3, <1>4, <1>5, <1>6 DEF KindOf
<1> QED  BY <1>8, <1>9, <1>10, <1>11, <1>12, <1>13 DEF s

-----------------------------------------------------------------------------
\* A result for the characters up to k is the one it should be.
Good(kind, k) ==
  IF kind \in Errors
  THEN \/ \A m \in First .. Length : ~LexemeAt(First, m)
       \/ /\ kind = "unexpected" /\ FloatAt(First, k)
          /\ k < Length /\ IsIdentStart(input[k + 1])
  ELSE kind = KindOf(Text(First, k)) /\ \A m \in k + 1 .. Length : ~LexemeAt(First, m)

LEMMA GoodResults ==
  ASSUME IInv, MaximalMunch, wanted, pos < Length,
         NEW kind, NEW k \in First .. Length, NEW text, NEW start, NEW end,
         Return(kind, k, text, start, end), Good(kind, k)
  PROVE  MaximalMunch'
<1> DEFINE r == Result(kind, First, k, text, start, end)
<1>1. /\ input \in Seq(STRING) /\ Length \in Nat /\ pos \in Nat
      /\ First \in 1 .. Length /\ taken \in Seq(Entries(taken)) /\ next = <<>>
  BY DEF IInv, Typed, First, Length
<1>2. r.kind = kind /\ r.from = First /\ r.to = k  BY DEF Result
<1>3. next' = <<r>> /\ UNCHANGED <<input, taken>>  BY DEF Return
<1> HIDE DEF r
<1>4. \A m \in First .. Length : IsLexeme(Text(First, m)) <=> LexemeAt(First, m)
  BY <1>1, Kinds
<1>5. IsFloat(Text(First, k)) <=> FloatAt(First, k)  BY <1>1, Floats
<1>6. \A m \in k + 1 .. Length : m \in First .. Length  BY <1>1
<1>7. Munched(r)
  <2>1. CASE kind \in Errors
    BY <1>2, <1>4, <1>5, <2>1 DEF Munched, Good
  <2>2. CASE kind \notin Errors
    BY <1>2, <1>4, <1>6, <2>2 DEF Munched, Good
  <2> QED  BY <2>1, <2>2
<1>8. \A q : Munched(q)' <=> Munched(q)  BY <1>3 DEF Munched, Text, Length
<1>9. Results = taken /\ Results' = taken \o <<r>>
  BY <1>1, <1>3 DEF Results
<1>10. /\ DOMAIN taken = 1 .. Len(taken) /\ DOMAIN Results' = 1 .. Len(taken) + 1 /\ Len(taken) \in Nat
       /\ \A i \in 1 .. Len(taken) : Results'[i] = taken[i]
       /\ Results'[Len(taken) + 1] = r
  BY <1>1, <1>9, Appended
<1>11. \A i \in 1 .. Len(taken) : Munched(Results[i])  BY <1>9, <1>10 DEF MaximalMunch
<1>12. \A i \in DOMAIN Results' : Munched(Results'[i])
  <2> SUFFICES ASSUME NEW i \in DOMAIN Results' PROVE Munched(Results'[i])  OBVIOUS
  <2>1. i \in 1 .. Len(taken) \/ i = Len(taken) + 1  BY <1>10
  <2> QED  BY <1>7, <1>9, <1>10, <1>11, <2>1
<1> QED  BY <1>3, <1>12 DEF MaximalMunch, Munched, Text, Length

-----------------------------------------------------------------------------
(* The rules, each for the first of the characters that are left. *)

\* What a lexeme begins with.
LEMMA Beginnings ==
  ASSUME NEW i \in Nat, NEW m \in Nat, m >= i, LexemeAt(i, m)
  PROVE  /\ input[i] \in Singles \cup {"|", "quote"} \/ IsIdentStart(input[i]) \/ IsDigit(input[i])
         /\ input[i] \in {",", ".", "+"} => m = i
         /\ input[i] = "|" => m > i /\ input[i + 1] \in {"|", ">"}
         /\ input[i] \in DOMAIN Followers \cup {":"} /\ m > i =>
              m = i + 1 /\ <<input[i], input[i + 1]>> \in Pairs
         /\ input[i] = "-" /\ m > i => (input[i + 1] = ">" /\ m = i + 1) \/ NumberAt(i)
         /\ input[i] = "/" /\ m > i => input[i + 1] = "/"
         /\ input[i] = "quote" => StringAt(i, m)
         /\ IsIdentStart(input[i]) => NameAt(i, m)
         /\ NumberAt(i) /\ m > i /\ (input[i] = "-" => input[i + 1] # ">")
              => IntAt(i, m) \/ FloatAt(i, m)
<1> USE DEF Singles
<1>1. CASE SymbolAt(i, m)
  <2>1. DOMAIN Followers = {"&", "|", "=", "!", "<", ">"}  BY DEF Followers
  <2>2. \A c : IsDigit(c) <=> c \in {"0", "9"}  BY DEF IsDigit, Digit
  <2>3. CASE m = i /\ input[i] \in Singles
    <3>1. ~(m > i) /\ input[i] \notin {"|", "quote"} /\ ~IsIdentStart(input[i])
      <4>1. ~(m > i)
        <5>1. m = i  BY <2>3
        <5> QED  BY <5>1
      <4>2. input[i] \notin {"|", "quote"}  BY <2>3
      <4>3. ~IsIdentStart(input[i])  BY <2>3 DEF IsIdentStart
      <4> QED  BY <4>1, <4>2, <4>3
    <3> HIDE DEF Singles
    <3> QED  BY <2>3, <3>1
  <2>4. CASE m = i + 1 /\ <<input[i], input[i + 1]>> \in Pairs
    <3>1. \/ input[i] = ":" /\ input[i + 1] = ":"
          \/ input[i] = "-" /\ input[i + 1] = ">"
          \/ input[i] = "|" /\ input[i + 1] \in {"|", ">"}
          \/ input[i] \in {"&", "=", "!", "<", ">"}
      BY <2>4 DEF Pairs
    <3>2. /\ input[i] \in Singles \cup {"|"} /\ input[i] \notin {",", ".", "+", "quote", "/"}
          /\ ~IsIdentStart(input[i]) /\ ~IsDigit(input[i])
      BY <2>2, <3>1 DEF IsIdentStart
    <3>3. /\ input[i] = "-" => input[i + 1] = ">"
          /\ input[i] = "|" => input[i + 1] \in {"|", ">"}
      BY <3>1
    <3> HIDE DEF Singles
    <3>4. m > i  BY <2>4
    <3>5. ~(NumberAt(i) /\ (input[i] = "-" => input[i + 1] # ">"))  BY <3>2, <3>3 DEF NumberAt
    <3> QED  BY <2>4, <3>2, <3>3, <3>4, <3>5
  <2> QED  BY <1>1, <2>3, <2>4 DEF SymbolAt
<1>2. CASE NameAt(i, m)
  BY <1>2 DEF NameAt, IsIdentStart, IsDigit, Digit, NumberAt, Followers
<1>3. CASE IntAt(i, m) \/ FloatAt(i, m)
  <2>1. NumberAt(i) /\ (m > i => IntAt(i, m) \/ FloatAt(i, m))  BY <1>3 DEF IntAt, FloatAt
  <2> QED  BY <1>3, <2>1 DEF IsIdentStart, IsDigit, Digit, NumberAt, Followers
<1>4. CASE StringAt(i, m)
  BY <1>4 DEF StringAt, IsIdentStart, IsDigit, Digit, NumberAt, Followers
<1>5. CASE CommentAt(i, m)
  BY <1>5 DEF CommentAt, IsIdentStart, IsDigit, Digit, NumberAt, Followers
<1> QED  BY <1>1, <1>2, <1>3, <1>4, <1>5 DEF LexemeAt

LEMMA GoodSymbols ==
  ASSUME input \in Seq(STRING), pos \in Nat, pos < Length, Length \in Nat,
         NEW k \in {First, First + 1}, k <= Length, SymbolAt(First, k),
         \A m \in k + 1 .. Length : ~LexemeAt(First, m)
  PROVE  Good("symbol", k)
<1>1. First \in 1 .. Length /\ k \in First .. Length  BY DEF First
<1>2. KindOf(Text(First, k)) = "symbol"  BY <1>1, Kinds
<1> QED  BY <1>2 DEF Good, Errors

\* Each rule returns the longest lexeme, whichever rules were tried before it.
LEMMA StepMunches == IInv /\ MaximalMunch /\ [Next]_vars => MaximalMunch'
<1> SUFFICES ASSUME IInv, MaximalMunch, [Next]_vars PROVE MaximalMunch'  OBVIOUS
<1>1. /\ input \in Seq(STRING) /\ Length \in Nat /\ pos \in Nat /\ First \in Nat
      /\ pos < Length => First \in 1 .. Length
      /\ Char = input[First]
  BY DEF IInv, Typed, First, Length, Char
<1>2. ASSUME UNCHANGED <<input, Results>> PROVE MaximalMunch'
  BY <1>2 DEF MaximalMunch, Munched, Text, Length
<1>3. Panic \/ (\E k : Skip(k)) \/ EndOfInput \/ UNCHANGED vars => UNCHANGED <<input, Results>>
  BY DEF Panic, Skip, EndOfInput, vars, Results
<1>4. DOMAIN Followers = {"&", "|", "=", "!", "<", ">"} /\ \A x : IsDigit(x) <=> x \in {"0", "9"}
  BY DEF Followers, IsDigit, Digit
<1>5. ASSUME wanted, pos < Length, Single("symbol"), Char \in Singles,
             \A m \in First + 1 .. Length : ~LexemeAt(First, m)
      PROVE  MaximalMunch'
  <2>1. First \in First .. Length /\ First <= Length  BY <1>1, <1>5
  <2>2. Good("symbol", First)
    BY <1>1, <1>5, <2>1, GoodSymbols DEF SymbolAt
  <2> QED  BY <1>5, <2>1, <2>2, GoodResults DEF Single
<1>6. ASSUME wanted, pos < Length, Double("symbol"), First < Length,
             <<input[First], input[First + 1]>> \in Pairs
      PROVE  MaximalMunch'
  <2>1. First + 1 \in First .. Length /\ First + 1 <= Length  BY <1>1, <1>6
  <2>2. /\ input[First] \in DOMAIN Followers \cup {":", "-"}
        /\ input[First] = "-" => input[First + 1] = ">"
    BY <1>4, <1>6 DEF Pairs
  <2>3. ASSUME NEW m \in First + 1 + 1 .. Length, LexemeAt(First, m) PROVE FALSE
    <3>1. m \in Nat /\ m >= First /\ m > First /\ m # First + 1  BY <1>1
    <3>2. ~NumberAt(First)  BY <1>4, <2>2 DEF NumberAt
    <3> QED  BY <1>1, <2>2, <2>3, <3>1, <3>2, Beginnings
  <2>4. SymbolAt(First, First + 1)  BY <1>6 DEF SymbolAt
  <2>5. Good("symbol", First + 1)  BY <1>1, <1>6, <2>1, <2>3, <2>4, GoodSymbols
  <2> QED  BY <1>6, <2>1, <2>5, GoodResults DEF Double
<1>7. CASE LineComment
  BY <1>2, <1>3, <1>7 DEF LineComment
<1>8. CASE Arrow
  <2>1. wanted /\ pos < Length /\ Double("symbol")  BY <1>8 DEF Arrow, Reading
  <2>2. First < Length /\ input[First] = "-" /\ input[First + 1] = ">"
    BY <1>1, <1>8 DEF Arrow, IsArrow, Ahead
  <2>3. <<input[First], input[First + 1]>> \in Pairs  BY <2>2 DEF Pairs
  <2> QED  BY <1>6, <2>1, <2>2, <2>3
<1>9. CASE Punctuation
  <2>1. wanted /\ pos < Length  BY <1>9 DEF Punctuation, Reading
  <2>2. CASE Char \in {",", "."} /\ Single("symbol")
    <3>1. ASSUME NEW m \in First + 1 .. Length, LexemeAt(First, m) PROVE FALSE
      <4>1. m \in Nat /\ m >= First /\ m # First  BY <1>1
      <4> QED  BY <1>1, <2>2, <3>1, <4>1, Beginnings
    <3>2. Char \in Singles  BY <2>2 DEF Singles
    <3> QED  BY <1>5, <2>1, <2>2, <3>1, <3>2
  <2>3. CASE Char = ":" /\ Ahead(First, {":"}) /\ Double("symbol")
    <3>1. First < Length /\ input[First + 1] = ":"  BY <2>3 DEF Ahead
    <3>2. <<input[First], input[First + 1]>> \in Pairs  BY <1>1, <2>3, <3>1 DEF Pairs
    <3> QED  BY <1>6, <2>1, <2>3, <3>1, <3>2
  <2>4. CASE Char = ":" /\ ~Ahead(First, {":"}) /\ Single("symbol")
    <3>1. ASSUME NEW m \in First + 1 .. Length, LexemeAt(First, m) PROVE FALSE
      <4>1. m \in Nat /\ m >= First /\ m > First  BY <1>1
      <4>2. m = First + 1 /\ <<input[First], input[First + 1]>> \in Pairs
        BY <1>1, <2>4, <3>1, <4>1, Beginnings
      <4>3. input[First + 1] = ":"  BY <1>1, <2>4, <4>2 DEF Pairs
      <4>4. First < Length  BY <1>1, <4>1
      <4> QED  BY <2>4, <4>3, <4>4 DEF Ahead
    <3>2. Char \in Singles  BY <2>4 DEF Singles
    <3> QED  BY <1>5, <2>1, <2>4, <3>1, <3>2
  <2> QED  BY <1>9, <2>2, <2>3, <2>4 DEF Punctuation
<1>10. CASE StringLiteral
  <2> DEFINE chars == {input[i] : i \in 1 .. Length} \ {"quote"}
             k == TakeWhile(First, chars)
  <2>1. wanted /\ pos < Length /\ input[First] = "quote"
    BY <1>1, <1>10 DEF StringLiteral, Reading
  <2>2. /\ k \in First .. Length /\ \A j \in First + 1 .. k : input[j] # "quote"
        /\ ~Ahead(k, chars)
    BY <1>1, <2>1, TakeWhileStops
  <2>3. k < Length => input[k + 1] = "quote"
    <3> SUFFICES ASSUME k < Length PROVE input[k + 1] = "quote"  OBVIOUS
    <3>1. k + 1 \in 1 .. Length  BY <1>1, <2>1, <2>2
    <3> QED  BY <2>2, <3>1 DEF Ahead
  <2>4. \/ k < Length /\ Return("string", k + 1, Text(First + 1, k), Start, Taken(k + 1))
        \/ ~(k < Length) /\ Return("unterminated", k, <<>>, Start, Start)
    BY <1>10 DEF StringLiteral
  <2> HIDE DEF k
  <2>5. ASSUME NEW m \in First .. Length, LexemeAt(First, m) PROVE StringAt(First, m)
    <3>1. m \in Nat /\ m >= First  BY <1>1
    <3> QED  BY <1>1, <2>1, <2>5, <3>1, Beginnings
  <2>6. CASE k < Length
    <3>1. k + 1 \in First .. Length /\ First \in 1 .. Length  BY <1>1, <2>1, <2>2, <2>6
    <3>2. StringAt(First, k + 1)  BY <1>1, <2>1, <2>2, <2>3, <2>6 DEF StringAt
    <3>3. KindOf(Text(First, k + 1)) = "string"  BY <1>1, <3>1, <3>2, Kinds
    <3>4. ASSUME NEW m \in k + 1 + 1 .. Length PROVE ~LexemeAt(First, m)
      <4>1. m \in First .. Length /\ k + 1 \in First + 1 .. m - 1  BY <1>1, <2>1, <2>2
      <4> QED  BY <2>3, <2>5, <2>6, <4>1 DEF StringAt
    <3>5. Good("string", k + 1)  BY <3>3, <3>4 DEF Good, Errors
    <3> QED  BY <2>1, <2>4, <2>6, <3>1, <3>5, GoodResults
  <2>7. CASE ~(k < Length)
    <3>1. k = Length  BY <1>1, <2>2, <2>7
    <3>2. ASSUME NEW m \in First .. Length PROVE ~LexemeAt(First, m)
      <4>1. StringAt(First, m) => m \in First + 1 .. k  BY <1>1, <3>1 DEF StringAt
      <4> QED  BY <2>2, <2>5, <4>1 DEF StringAt
    <3>3. Good("unterminated", k)  BY <3>2 DEF Good, Errors
    <3> QED  BY <2>1, <2>2, <2>4, <2>7, <3>3, GoodResults
  <2> QED  BY <2>6, <2>7
<1>11. CASE Identifier
  <2> DEFINE chars == {c \in {input[i] : i \in 1 .. Length} : IsIdentContinue(c)}
             k == TakeWhile(First, chars)
             kind == IF Text(First, k) \in Keywords THEN "keyword" ELSE "ident"
  <2>1. wanted /\ pos < Length /\ IsIdentStart(input[First]) /\ First \in 1 .. Length
    BY <1>1, <1>11 DEF Identifier, Reading
  <2>2. /\ k \in First .. Length /\ \A j \in First + 1 .. k : IsIdentContinue(input[j])
        /\ ~Ahead(k, chars)
    BY <1>1, <2>1, TakeWhileStops
  <2>3. k < Length => ~IsIdentContinue(input[k + 1])
    <3> SUFFICES ASSUME k < Length PROVE ~IsIdentContinue(input[k + 1])  OBVIOUS
    <3>1. k + 1 \in 1 .. Length  BY <1>1, <2>1, <2>2
    <3> QED  BY <2>2, <3>1 DEF Ahead
  <2>4. Panic \/ Return(kind, k, Text(First, k), Start, Until(Start, k))
    BY <1>11 DEF Identifier
  <2> HIDE DEF k
  <2>5. NameAt(First, k)  BY <2>1, <2>2 DEF NameAt
  <2>6. KindOf(Text(First, k)) = kind  BY <1>1, <2>1, <2>2, <2>5, Kinds
  <2>7. ASSUME NEW m \in k + 1 .. Length, LexemeAt(First, m) PROVE FALSE
    <3>1. m \in Nat /\ m >= First /\ k < Length /\ k + 1 \in First + 1 .. m  BY <1>1, <2>2
    <3>2. NameAt(First, m)  BY <1>1, <2>1, <2>7, <3>1, Beginnings
    <3> QED  BY <2>3, <3>1, <3>2 DEF NameAt
  <2>8. Good(kind, k)  BY <2>6, <2>7 DEF Good, Errors
  <2> HIDE DEF kind
  <2> QED  BY <1>2, <1>3, <2>1, <2>2, <2>4, <2>8, GoodResults
<1>12. CASE NumericLiteral
  <2> DEFINE k == TakeWhile(First, Digits)
             j == TakeWhile(k + 1, Digits)
  <2>1. wanted /\ pos < Length /\ First \in 1 .. Length /\ NumberAt(First)
    BY <1>1, <1>12 DEF NumericLiteral, Reading, IsNumber, NumberAt, Ahead, Digits, IsDigit
  <2>2. k \in First .. Length /\ DigitsAt(First + 1, k) /\ ~Ahead(k, Digits)
    BY <1>1, <2>1, TakeWhileStops DEF DigitsAt, Digits, IsDigit
  <2>3. k < Length => ~IsDigit(input[k + 1])  BY <2>2 DEF Ahead, Digits, IsDigit
  <2>4. input[First] = "-" => k > First
    <3> SUFFICES ASSUME input[First] = "-", k = First PROVE FALSE  BY <1>1, <2>1, <2>2
    <3> QED  BY <1>4, <2>1, <2>3 DEF NumberAt
  <2>5. IntAt(First, k)  BY <2>1, <2>2, <2>4 DEF IntAt
  <2>6. \/ /\ Ahead(k, {"."}) /\ j < Length /\ IsIdentContinue(input[j + 1])
           /\ Return("unexpected", j, <<input[j + 1]>>, Peeked(j + 1), Peeked(j + 1))
        \/ /\ Ahead(k, {"."}) /\ ~(j < Length /\ IsIdentContinue(input[j + 1]))
           /\ Return("float", j, Text(First, j), Start, Until(Start, j))
        \/ ~Ahead(k, {"."}) /\ Return("int", k, Text(First, k), Start, Until(Start, k))
        \/ Panic
    BY <1>12 DEF NumericLiteral
  <2>7. Ahead(k, {"."}) =>
          /\ k < Length /\ input[k + 1] = "." /\ j \in k + 1 .. Length
          /\ DigitsAt(k + 1 + 1, j) /\ ~Ahead(j, Digits)
    <3> SUFFICES ASSUME Ahead(k, {"."})
                 PROVE  /\ k < Length /\ input[k + 1] = "." /\ j \in k + 1 .. Length
                        /\ DigitsAt(k + 1 + 1, j) /\ ~Ahead(j, Digits)
      OBVIOUS
    <3>1. k < Length /\ input[k + 1] = "."  BY DEF Ahead
    <3>2. k + 1 \in 0 .. Length  BY <1>1, <2>1, <2>2, <3>1
    <3> HIDE DEF k
    <3> QED  BY <1>1, <3>1, <3>2, TakeWhileStops DEF DigitsAt, Digits, IsDigit
  <2> HIDE DEF k, j
  <2>8. \A m \in First + 1 .. Length : LexemeAt(First, m) => IntAt(First, m) \/ FloatAt(First, m)
    <3> SUFFICES ASSUME NEW m \in First + 1 .. Length, LexemeAt(First, m)
                 PROVE  IntAt(First, m) \/ FloatAt(First, m)
      OBVIOUS
    <3>1. m \in Nat /\ m >= First /\ m > First  BY <1>1
    <3>2. input[First] = "-" => input[First + 1] # ">"  BY <1>4, <2>1 DEF NumberAt
    <3> QED  BY <1>1, <2>1, <3>1, <3>2, Beginnings
  \* The point of a float that is longer comes right after the digits.
  <2>9. ASSUME NEW m \in k + 1 .. Length, LexemeAt(First, m)
        PROVE  input[k + 1] = "." /\ DigitsAt(k + 1 + 1, m)
    <3>1. m \in First + 1 .. Length /\ k < Length /\ k + 1 \in First + 1 .. m
      BY <1>1, <2>1, <2>2
    <3>2. ~DigitsAt(First + 1, m)  BY <2>3, <3>1 DEF DigitsAt
    <3>3. FloatAt(First, m)  BY <2>8, <2>9, <3>1, <3>2 DEF IntAt
    <3>4. PICK p \in First + 1 .. m : /\ input[p] = "." /\ DigitsAt(First + 1, p - 1)
                                     /\ DigitsAt(p + 1, m)
      BY <3>3 DEF FloatAt
    <3>5. p \notin First + 1 .. k  BY <1>4, <2>2, <3>4 DEF DigitsAt
    <3>6. ~(k + 1 \in First + 1 .. p - 1)  BY <2>3, <3>1, <3>4 DEF DigitsAt
    <3>7. p = k + 1  BY <1>1, <2>1, <2>2, <3>1, <3>5, <3>6
    <3> QED  BY <3>4, <3>7
  <2>10. CASE ~Ahead(k, {"."}) /\ Return("int", k, Text(First, k), Start, Until(Start, k))
    <3>1. ASSUME NEW m \in k + 1 .. Length, LexemeAt(First, m) PROVE FALSE
      <4>1. k < Length  BY <1>1, <2>2
      <4> QED  BY <2>9, <2>10, <3>1, <4>1 DEF Ahead
    <3>2. KindOf(Text(First, k)) = "int"  BY <1>1, <2>1, <2>2, <2>5, Kinds
    <3>3. Good("int", k)  BY <3>1, <3>2 DEF Good, Errors
    <3> QED  BY <2>1, <2>2, <2>10, <3>3, GoodResults
  <2>11. ASSUME Ahead(k, {"."}) PROVE FloatAt(First, j) /\ j \in First .. Length
    <3>1. k + 1 \in First + 1 .. j /\ k + 1 - 1 = k /\ (input[First] = "-" => k + 1 > First + 1)
      BY <1>1, <2>1, <2>2, <2>4, <2>7, <2>11
    <3>2. j \in First .. Length  BY <1>1, <2>1, <2>2, <2>7, <2>11
    <3> QED  BY <2>1, <2>2, <2>7, <2>11, <3>1, <3>2 DEF FloatAt
  <2>12. CASE /\ Ahead(k, {"."}) /\ j < Length /\ IsIdentContinue(input[j + 1])
              /\ Return("unexpected", j, <<input[j + 1]>>, Peeked(j + 1), Peeked(j + 1))
    <3>1. ~IsDigit(input[j + 1])  BY <2>7, <2>12 DEF Ahead, Digits, IsDigit
    <3>2. IsIdentStart(input[j + 1])  BY <2>12, <3>1 DEF IsIdentContinue
    <3>3. Good("unexpected", j)  BY <2>11, <2>12, <3>2 DEF Good, Errors
    <3> QED  BY <2>1, <2>11, <2>12, <3>3, GoodResults
  <2>13. CASE /\ Ahead(k, {"."}) /\ ~(j < Length /\ IsIdentContinue(input[j + 1]))
              /\ Return("float", j, Text(First, j), Start, Until(Start, j))
    <3>1. KindOf(Text(First, j)) = "float"  BY <1>1, <2>1, <2>11, <2>13, Kinds
    <3>2. ASSUME NEW m \in j + 1 .. Length, LexemeAt(First, m) PROVE FALSE
      <4>1. m \in k + 1 .. Length /\ j + 1 \in k + 1 + 1 .. m /\ j < Length
        BY <1>1, <2>2, <2>7, <2>13
      <4>2. IsDigit(input[j + 1])  BY <2>9, <3>2, <4>1 DEF DigitsAt
      <4> QED  BY <2>13, <4>1, <4>2 DEF IsIdentContinue
    <3>3. Good("float", j)  BY <3>1, <3>2 DEF Good, Errors
    <3> QED  BY <2>1, <2>11, <2>13, <3>3, GoodResults
  <2> QED  BY <1>2, <1>3, <2>6, <2>10, <2>12, <2>13
<1>13. CASE Op
  <2>1. /\ wanted /\ pos < Length /\ First \in First .. Length
        /\ ~NumberAt(First)
        /\ ~(input[First] = "/" /\ First < Length /\ input[First + 1] = "/")
        /\ ~(input[First] = "-" /\ First < Length /\ input[First + 1] = ">")
    BY <1>1, <1>13 DEF Op, Reading, IsNumber, NumberAt, Ahead, Digits, IsDigit, IsComment, IsArrow
  <2>2. CASE Char \in {"+", "-", "/"} /\ Single("symbol")
    <3>1. ASSUME NEW m \in First + 1 .. Length, LexemeAt(First, m) PROVE FALSE
      <4>1. m \in Nat /\ m >= First /\ m > First /\ m # First /\ First < Length  BY <1>1
      <4> QED  BY <1>1, <2>1, <2>2, <3>1, <4>1, Beginnings
    <3>2. Char \in Singles  BY <2>2 DEF Singles
    <3> QED  BY <1>5, <2>1, <2>2, <3>1, <3>2
  <2>3. CASE /\ Char \in DOMAIN Followers /\ Ahead(First, Followers[Char])
             /\ Double("symbol")
    <3>1. First < Length /\ input[First + 1] \in Followers[input[First]]  BY <1>1, <2>3 DEF Ahead
    <3>2. <<input[First], input[First + 1]>> \in Pairs
      BY <1>1, <1>4, <2>3, <3>1 DEF Followers, Pairs
    <3> QED  BY <1>6, <2>1, <2>3, <3>1, <3>2
  <2>4. ASSUME Char \in DOMAIN Followers, ~Ahead(First, Followers[Char]),
               NEW m \in First + 1 .. Length, LexemeAt(First, m)
        PROVE  FALSE
    <3>1. m \in Nat /\ m >= First /\ m > First /\ First < Length  BY <1>1
    <3>2. <<input[First], input[First + 1]>> \in Pairs
      BY <1>1, <2>4, <3>1, Beginnings
    <3>3. input[First + 1] \in Followers[Char]
      BY <1>1, <1>4, <2>4, <3>2 DEF Followers, Pairs
    <3> QED  BY <2>4, <3>1, <3>3 DEF Ahead
  <2>5. CASE /\ Char \in DOMAIN Followers /\ ~Ahead(First, Followers[Char])
             /\ Char # "|" /\ Single("symbol")
    <3>1. Char \in Singles  BY <1>4, <2>5 DEF Singles
    <3> QED  BY <1>5, <2>1, <2>4, <2>5, <3>1
  <2>6. CASE /\ Char \in DOMAIN Followers /\ ~Ahead(First, Followers[Char])
             /\ Char = "|" /\ Return("incomplete", First, <<Char>>, Start, Start)
    <3>1. ASSUME NEW m \in First .. Length, LexemeAt(First, m) PROVE FALSE
      <4>1. m \in Nat /\ m >= First  BY <1>1
      <4>2. m > First  BY <1>1, <2>6, <3>1, <4>1, Beginnings
      <4>3. m \in First + 1 .. Length  BY <1>1, <4>2
      <4> QED  BY <2>4, <2>6, <3>1, <4>3
    <3>2. Good("incomplete", First)  BY <3>1 DEF Good, Errors
    <3> QED  BY <2>1, <2>6, <3>2, GoodResults
  <2> QED  BY <1>13, <2>2, <2>3, <2>5, <2>6 DEF Op
<1>14. CASE Whitespace
  BY <1>2, <1>3, <1>14 DEF Whitespace
<1>15. CASE Unexpected
  <2>1. /\ wanted /\ pos < Length /\ ~IsIdentStart(input[First]) /\ input[First] \notin Known
        /\ First \in First .. Length
    BY <1>1, <1>15 DEF Unexpected, Reading
  <2>2. ASSUME NEW m \in First .. Length, LexemeAt(First, m) PROVE FALSE
    <3>1. m \in Nat /\ m >= First  BY <1>1
    <3>2. input[First] \notin Singles \cup {"|", "quote"} /\ ~IsDigit(input[First])
      BY <1>4, <2>1 DEF Known, Singles, Digits, IsDigit
    <3> QED  BY <1>1, <2>1, <2>2, <3>1, <3>2, Beginnings
  <2>3. Good("unexpected", First)  BY <2>2 DEF Good, Errors
  <2> QED  BY <1>15, <2>1, <2>3, GoodResults DEF Unexpected
<1>16. CASE EndOfInput \/ UNCHANGED vars
  BY <1>2, <1>3, <1>16
<1>17. CASE Take
  <2>1. /\ taken' = taken \o next /\ next' = <<>> /\ next = <<next[1]>> /\ UNCHANGED input
    BY <1>17 DEF Take, IInv, Typed
  <2>2. Typed'  BY StepLosesNothing DEF IInv
  <2>3. Results' = Results  BY <2>1, <2>2 DEF Typed, Results
  <2> QED  BY <1>2, <2>1, <2>3
<1> QED
  BY <1>7, <1>8, <1>9, <1>10, <1>11, <1>12, <1>13, <1>14, <1>15,
     <1>16, <1>17
  DEF Next, Scan, Stopped

\* MunchesMaximally: on any text the results are the longest lexemes, each of
\* its own kind, and an error is reported only where no lexeme begins or a
\* float runs into a name.
THEOREM MunchesMaximally == Spec => []MaximalMunch
<1>1. Init => MaximalMunch  BY DEF Init, MaximalMunch, Results
<1> QED  BY <1>1, StepMunches, Inductive, PTL DEF Spec

=============================================================================
