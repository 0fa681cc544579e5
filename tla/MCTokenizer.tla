----------------------------- MODULE MCTokenizer -----------------------------
(***************************************************************************)
(* Bounded instances of the tokenizer: every text of up to three           *)
(* characters of any class, and longer ones of the classes that need it.   *)
(***************************************************************************)
EXTENDS Tokenizer

EveryChar == {"i", "f", "w", "_", "9", "-", ">", "/", ".", "=", "!", "&", "|", ":", "quote",
        "space", "newline", ",", "+", "<", "@"}
SomeChars == {"i", "f", "9", "-", "/", ".", "quote", "newline"}
FewChars == {"w", "9", "-", "/", "newline"}

MCInputs ==
  LET all == BoundedSeq(EveryChar, 3) \cup [1 .. 4 -> SomeChars] \cup [1 .. 5 -> FewChars] IN all
MCKeywords == {<<"i", "f">>}
=============================================================================
