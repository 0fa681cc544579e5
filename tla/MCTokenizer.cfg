CONSTANTS
  Inputs <- MCInputs
  Keywords <- MCKeywords
  IntMax = 98
SPECIFICATION Spec
INVARIANTS MaximalMunch NothingLost SpansAscend PanicsKnown
