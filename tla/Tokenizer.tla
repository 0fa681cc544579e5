------------------------------ MODULE Tokenizer ------------------------------
(***************************************************************************)
(* The tokenizer (parser/tokens.rs): Tokenizer::next matches the next      *)
(* character against its rules in order, and a rule takes characters while *)
(* they fit.  BufferedTokenizer runs it one token ahead of the parser.     *)
(*                                                                         *)
(* A text is a sequence of characters; of a character the rules see only   *)
(* its class, and slicing sees how many bytes it takes.  Integers are      *)
(* scaled down: IntMax stands for i64::MAX.                                *)
(***************************************************************************)
EXTENDS Integers, SequencesExt

CONSTANTS
  Inputs,     \* the texts that are tokenized
  Keywords,   \* the identifiers that are keywords
  IntMax      \* the largest integer literal

ASSUME TextsAssumption == Inputs \subseteq Seq(STRING)

VARIABLES
  input,    \* the text
  pos,      \* how many of its characters were taken
  wanted,   \* Tokenizer::next was called and has not returned
  next,     \* BufferedTokenizer::next: the result that waits, <<>> for None
  taken,    \* the results the parser took
  panicked

vars == <<input, pos, wanted, next, taken, panicked>>

-----------------------------------------------------------------------------
(* Characters, one for all that the rules treat alike ("," for ; ( ) [ ] { }  *)
(* and #, "+" for * and %), and the places between them.                   *)

Digit == [c \in {"0", "9"} |-> IF c = "0" THEN 0 ELSE 9]
IsDigit(c) == c \in DOMAIN Digit
\* "w" is a letter that takes two bytes.
IsIdentStart(c) == c \in {"i", "f", "w", "_"}
IsIdentContinue(c) == IsIdentStart(c) \/ IsDigit(c)
IsWhitespace(c) == c \in {"space", "newline"}
Width(c) == IF c = "w" THEN 2 ELSE 1

Length == Len(input)
\* The byte at which the character after the first i begins.
Byte(i) == i + Cardinality({j \in 1 .. i : Width(input[j]) = 2})

\* The line and column the cursor holds when i characters were taken: a newline
\* begins a line, at column 1.
Newlines(i) == {j \in 1 .. i : input[j] = "newline"}
Cursor(i) ==
  [line |-> 1 + Cardinality(Newlines(i)),
   column |-> IF Newlines(i) = {} THEN i ELSE 1 + i - Max(Newlines(i))]
Location(byte, char, at) == [byte |-> byte, char |-> char, line |-> at.line, column |-> at.column]

\* What next returns for the i-th character, and what peek returned for it.
Taken(i) == Location(Byte(i - 1), i - 1, Cursor(i))
Peeked(i) ==
  Location(Byte(i - 1), i - 1, IF i = 1 THEN [line |-> 1, column |-> 2] ELSE Cursor(i - 1))

\* The lookahead after i characters fits the test.
Ahead(i, chars) == i < Length /\ input[i + 1] \in chars

\* How many characters are taken when the rule takes on while they are in chars.
TakeWhile(i, chars) ==
  CHOOSE k \in i .. Length :
    /\ \A j \in i + 1 .. k : input[j] \in chars
    /\ ~Ahead(k, chars)

\* Mutant: every slice ends one byte after the last character's first.
SlicesAll(k) == Width(input[k]) = 1

\* At the end of the input a slice ends one byte after the last character's
\* first; when that is inside a character, slicing panics.
Slices(k) == k < Length \/ Width(input[Length]) = 1
\* Mutant: the location behind the character that ended the slice.
UntilPast(start, k) == IF k < Length THEN Location(Byte(k + 1), k + 1, Cursor(k + 1)) ELSE start

\* The location take_until returns with the slice.
Until(start, k) == IF k < Length THEN Peeked(k + 1) ELSE start

-----------------------------------------------------------------------------
(* Results.  "from" and "to" are the characters the rule took. *)

Text(from, to) == SubSeq(input, from, to)
Result(kind, from, to, text, start, end) ==
  [kind |-> kind, from |-> from, to |-> to, text |-> text, start |-> start, end |-> end]

\* LocationSpan::span_1
Span1(at) == [at EXCEPT !.byte = @ + 1, !.char = @ + 1, !.column = @ + 1]

First == pos + 1
Char == input[First]
Start == Taken(First)

\* next returns a result and has taken the characters up to k.
Return(kind, k, text, start, end) ==
  /\ pos' = k
  /\ next' = <<Result(kind, First, k, text, start, end)>>
  /\ wanted' = FALSE
  /\ UNCHANGED <<input, taken, panicked>>
Single(kind) == Return(kind, First, Text(First, First), Start, Span1(Start))
Double(kind) == Return(kind, First + 1, Text(First, First + 1), Start, Taken(First + 1))
Skip(k) == pos' = k /\ UNCHANGED <<input, wanted, next, taken, panicked>>
Panic == panicked' = TRUE /\ UNCHANGED <<input, pos, wanted, next, taken>>

-----------------------------------------------------------------------------
(* The rules, each with the characters the ones before it leave to it. *)

Reading == wanted /\ ~panicked /\ pos < Length

IsComment == Char = "/" /\ Ahead(First, {"/"})

LineComment ==
  /\ Reading /\ IsComment
  /\ LET k == TakeWhile(First, {input[i] : i \in 1 .. Length} \ {"newline"}) IN
       IF Slices(k) THEN Skip(k) ELSE Panic

IsArrow == Char = "-" /\ Ahead(First, {">"})
Arrow == Reading /\ IsArrow /\ Double("symbol")

Punctuation ==
  /\ Reading
  /\ \/ Char = "," /\ Single("symbol")
     \/ Char = "." /\ Single("symbol")
     \/ Char = ":" /\ IF Ahead(First, {":"}) THEN Double("symbol") ELSE Single("symbol")

StringLiteral ==
  /\ Reading /\ Char = "quote"
  /\ LET k == TakeWhile(First, {input[i] : i \in 1 .. Length} \ {"quote"}) IN
       IF k < Length
       THEN Return("string", k + 1, Text(First + 1, k), Start, Taken(k + 1))
       ELSE Return("unterminated", k, <<>>, Start, Start)

\* Mutant: the keyword is looked up before the identifier has ended.
IdentifierEarly ==
  /\ Reading /\ IsIdentStart(Char)
  /\ LET k == TakeWhile(First, {c \in {input[i] : i \in 1 .. Length} : IsIdentContinue(c)})
         j == IF k > First /\ Text(First, First + 1) \in Keywords THEN First + 1 ELSE k
     IN  IF Slices(j)
         THEN Return(IF Text(First, j) \in Keywords THEN "keyword" ELSE "ident",
                     j, Text(First, j), Start, Until(Start, j))
         ELSE Panic

Identifier ==
  /\ Reading /\ IsIdentStart(Char)
  /\ LET k == TakeWhile(First, {c \in {input[i] : i \in 1 .. Length} : IsIdentContinue(c)}) IN
       IF Slices(k)
       THEN Return(IF Text(First, k) \in Keywords THEN "keyword" ELSE "ident",
                   k, Text(First, k), Start, Until(Start, k))
       ELSE Panic

\* parse::<i64>, scaled down
Parses(text) ==
  LET negative == Head(text) = "-"
      n == FoldLeft(LAMBDA v, c : 10 * v + Digit[c], 0, IF negative THEN Tail(text) ELSE text)
  IN  IF negative THEN n <= IntMax + 1 ELSE n <= IntMax

Digits == DOMAIN Digit
IsNumber == IsDigit(Char) \/ (Char = "-" /\ Ahead(First, Digits))
NumericLiteral ==
  /\ Reading /\ IsNumber
  /\ LET k == TakeWhile(First, Digits)
         j == TakeWhile(k + 1, Digits)
     IN  IF Ahead(k, {"."})
         THEN IF j < Length /\ IsIdentContinue(input[j + 1])
              THEN Return("unexpected", j, <<input[j + 1]>>, Peeked(j + 1), Peeked(j + 1))
              ELSE Return("float", j, Text(First, j), Start, Until(Start, j))
         ELSE IF Parses(Text(First, k))
              THEN Return("int", k, Text(First, k), Start, Until(Start, k))
              ELSE Panic

\* The operators of one character that another may follow, and the second.
Followers == [c \in {"&", "|", "=", "!", "<", ">"} |->
  CASE c = "&" -> {"&"} [] c = "|" -> {"|", ">"} [] OTHER -> {"="}]
Op ==
  /\ Reading
  /\ ~IsComment /\ ~IsArrow /\ ~IsNumber
  /\ \/ Char \in {"+", "-", "/"} /\ Single("symbol")
     \/ /\ Char \in DOMAIN Followers /\ Ahead(First, Followers[Char])
        /\ Double("symbol")
     \/ /\ Char \in DOMAIN Followers /\ ~Ahead(First, Followers[Char])
        /\ IF Char = "|" THEN Return("incomplete", First, <<Char>>, Start, Start)
           ELSE Single("symbol")

Whitespace == Reading /\ IsWhitespace(Char) /\ Skip(First)

Known == {",", ".", ":", "quote", "+", "-", "/"} \cup DOMAIN Followers \cup Digits
Unexpected ==
  /\ Reading
  /\ Char \notin Known /\ ~IsIdentStart(Char) /\ ~IsWhitespace(Char)
  /\ Return("unexpected", First, <<Char>>, Start, Start)

\* The input is used up: next returns None.
EndOfInput ==
  /\ wanted /\ ~panicked /\ pos = Length
  /\ wanted' = FALSE
  /\ UNCHANGED <<input, pos, next, taken, panicked>>

-----------------------------------------------------------------------------
(* BufferedTokenizer *)

\* new asks for the first token at once.
Init ==
  /\ input \in Inputs
  /\ pos = 0 /\ wanted = TRUE /\ next = <<>> /\ taken = <<>> /\ panicked = FALSE

\* Mutant: the token that waits is dropped and the one after it handed out.
TakeDropped ==
  /\ ~wanted /\ next # <<>> /\ ~panicked
  /\ next' = <<>> /\ wanted' = TRUE
  /\ UNCHANGED <<input, pos, taken, panicked>>

\* BufferedTokenizer::next hands out what waits and asks for the one after it.
Take ==
  /\ ~wanted /\ next # <<>> /\ ~panicked
  /\ taken' = taken \o next
  /\ next' = <<>> /\ wanted' = TRUE
  /\ UNCHANGED <<input, pos, panicked>>

Scan == LineComment \/ Arrow \/ Punctuation \/ StringLiteral \/ Identifier \/ NumericLiteral
          \/ Op \/ Whitespace \/ Unexpected \/ EndOfInput

Done == panicked \/ (~wanted /\ next = <<>>)
Stopped == Done /\ UNCHANGED vars

Next == Scan \/ Take \/ Stopped
Spec == Init /\ [][Next]_vars

-----------------------------------------------------------------------------
(* What the tokenizer promises. *)

Results == taken \o next

\* The lexemes of the language, as sets of texts.
All(s, P(_)) == \A i \in DOMAIN s : P(s[i])
Symbols == {<<c>> : c \in {",", ".", ":", "+", "-", "/", "&", "=", "!", "<", ">"}}
           \cup {<<":", ":">>, <<"-", ">">>, <<"&", "&">>, <<"|", "|">>, <<"|", ">">>,
                 <<"=", "=">>, <<"!", "=">>, <<"<", "=">>, <<">", "=">>}
IsName(s) == s # <<>> /\ IsIdentStart(Head(s)) /\ All(s, IsIdentContinue)
IsInt(s) == s # <<>> /\ LET d == IF Head(s) = "-" THEN Tail(s) ELSE s IN d # <<>> /\ All(d, IsDigit)
IsFloat(s) == \E i \in DOMAIN s :
  s[i] = "." /\ IsInt(SubSeq(s, 1, i - 1)) /\ All(SubSeq(s, i + 1, Len(s)), IsDigit)
IsString(s) == Len(s) > 1 /\ {i \in DOMAIN s : s[i] = "quote"} = {1, Len(s)}
IsLineComment(s) == Len(s) > 1 /\ s[1] = "/" /\ s[2] = "/" /\ \A i \in DOMAIN s : s[i] # "newline"
IsLexeme(s) == s \in Symbols \/ IsName(s) \/ IsInt(s) \/ IsFloat(s) \/ IsString(s) \/ IsLineComment(s)

KindOf(s) ==
  CASE s \in Symbols -> "symbol" [] s \in Keywords -> "keyword" [] IsName(s) /\ s \notin Keywords -> "ident"
    [] IsInt(s) -> "int" [] IsFloat(s) -> "float" [] IsString(s) -> "string" [] OTHER -> "none"
Errors == {"unexpected", "unterminated", "incomplete"}

ASSUME KeywordsAssumption == \A s \in Keywords : IsName(s)

\* The token is a lexeme of its kind that no more characters would make a
\* longer one; where an error is reported no lexeme begins, but for a float
\* that runs into a name.
Munched(r) ==
  IF r.kind \in Errors
  THEN \/ \A k \in r.from .. Length : ~IsLexeme(Text(r.from, k))
       \/ /\ r.kind = "unexpected" /\ IsFloat(Text(r.from, r.to))
          /\ r.to < Length /\ IsIdentStart(input[r.to + 1])
  ELSE /\ r.kind = KindOf(Text(r.from, r.to))
       /\ \A k \in r.to + 1 .. Length : ~IsLexeme(Text(r.from, k))

\* MaximalMunch: whatever the order of the rules in Tokenizer::next, each of
\* its results is the longest lexeme there is, of its kind, or an error where
\* there is none.
MaximalMunch == \A i \in DOMAIN Results : Munched(Results[i])

\* A character that a rule may pass over: space, or part of a comment.
Ignored(from, i) ==
  \/ IsWhitespace(input[i])
  \/ \E j \in from .. i : j < Length /\ input[j] = "/" /\ input[j + 1] = "/"
                          /\ "newline" \notin {input[k] : k \in j .. i}

\* NothingLost: the results the parser takes, with the one that waits for it,
\* come in the order of the text, and what lies between two of them, or behind
\* the last, is space and comments only.
NothingLost ==
  /\ \A i \in DOMAIN Results :
       LET from == IF i = 1 THEN 1 ELSE Results[i - 1].to + 1 IN
       /\ from <= Results[i].from
       /\ \A j \in from .. Results[i].from - 1 : Ignored(from, j)
  /\ LET from == IF Results = <<>> THEN 1 ELSE Last(Results).to + 1 IN
       \A j \in from .. pos : Ignored(from, j)

\* SpansAscend: the span of a token begins at the byte and the character its
\* text begins at and ends before the next one begins, whichever of the ways of
\* the code its end was found in, and on one line columns count characters.
SpansAscend ==
  \A i, j \in DOMAIN Results :
    LET r == Results[i]
        s == Results[j]
    IN  /\ r.start.byte <= r.end.byte
        /\ r.kind \notin Errors => r.start.byte = Byte(r.from - 1) /\ r.start.char = r.from - 1
        /\ i < j /\ {r.kind, s.kind} \cap Errors = {} =>
             /\ r.end.byte <= s.start.byte
             /\ r.start.line <= s.start.line
             /\ r.start.line = s.start.line =>
                  s.start.column - r.start.column = s.start.char - r.start.char

\* A name or a comment that ends the text in a character of several bytes, or
\* an integer that does not fit.
KnownPanic ==
  LET rest == Text(First, Length) IN
  \/ (IsName(rest) \/ IsLineComment(rest)) /\ Width(Last(rest)) > 1
  \/ \E k \in First .. Length :
       /\ IsInt(Text(First, k)) /\ ~Parses(Text(First, k))
       /\ k = Length \/ (~IsDigit(input[k + 1]) /\ input[k + 1] # ".")

\* PanicsKnown: the tokenizer panics on a name or a comment that ends the text
\* with a character of several bytes, on an integer that does not fit, and on
\* nothing else.
PanicsKnown == panicked => KnownPanic

=============================================================================
