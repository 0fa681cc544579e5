CONSTANTS
  Programs <- MCPrograms
  MaxDepth = 6
SPECIFICATION Spec
INVARIANTS
  SubtypesExact
  EqualIsMutual
  OrderIrrelevant
  CrashesKnown
