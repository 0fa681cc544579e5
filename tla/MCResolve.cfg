SPECIFICATION Spec
CONSTANTS
  Sources <- MCSources
  CfgOf <- MCCfgOf
  Layout <- MCLayout
  Exprs <- MCExprs
  Decls <- MCDecls
  Names <- MCNames
  Anons <- MCAnons
  Where <- MCWhere
INVARIANTS ResolvesLexically AnonymousScoped OwnVariables BalancedScopes
