CONSTANTS
  Names <- MCNames
  NoName = NoName
  Texts <- MCTexts
  Programs <- MCPrograms
  Nested <- MCNested
SPECIFICATION FairSpec
INVARIANTS PanicsExplained AcceptsExactly ScopesVisible EveryFunctionOnce
PROPERTIES Settles ImplementsWorklist
