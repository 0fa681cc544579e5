CONSTANTS
  Names = {"a", "f"}
  Inputs <- MCInputs
SPECIFICATION Spec
INVARIANTS PrintsBack MatchesGrammar  PrefixesRefused
