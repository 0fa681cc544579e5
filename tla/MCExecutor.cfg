SPECIFICATION FairSpec
CONSTANTS
  NoVal = NoVal
  Aborted = Aborted
  Fns <- MCFns
  Builtins <- MCBuiltins
  Names <- MCNames
  FnName <- MCFnName
  Val <- MCVal
  Unit <- MCUnit
  MaxIP <- MCMaxIP
  Key <- MCKey
  Operation <- MCOperation
  Programs <- MCPrograms
  Eval <- MCEval
  Select <- MCSelect
  Replace <- MCReplace
  Outcomes <- MCOutcomes
  Flow <- MCFlow
INVARIANTS TypeOK CallersWait RegisterIsAnswer PointerInFlow NoMachineFault AsTested
PROPERTY Settles
