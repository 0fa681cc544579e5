SPECIFICATION Spec
CONSTANTS
  Sources <- MCIndexed
  CfgOf <- MCCfgOf
  Layout <- MCLayout
  Exprs <- MCExprs
  Decls <- MCDecls
  Names <- MCNames
  Anons <- MCAnons
  Where <- MCWhere
INVARIANT IdsFilledIn
