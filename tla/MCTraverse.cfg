SPECIFICATION Spec
CONSTANTS
  Sources <- MCSources
  CfgOf <- MCCfgOf
  Layout <- MCLayout
  BlockCode <- MCBlockCode
  ReturnCode <- MCReturnCode
  CondCode <- MCCondCode
  CondResult <- MCCondResult
  MaxIP = 1000
INVARIANTS OnlyBreakPanics EveryNodeOnce Bracketed GathersStatements
           ReturnsChecked AcceptedStaysInside RefusesStrays
