SPECIFICATION Spec
CONSTANTS
  Sources <- MCBreaking
  CfgOf <- MCCfgOf
  Layout <- MCLayout
  BlockCode <- MCBlockCode
  ReturnCode <- MCReturnCode
  CondCode <- MCCondCode
  CondResult <- MCCondResult
  MaxIP = 1000
INVARIANT BreakTraversed
