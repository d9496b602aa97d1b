SPECIFICATION Spec
CONSTANTS
  MaxDepth = 3
  MaxExprDepth = 8
  MaxErrors = 4
  Inputs <- MCInputs
  RunStatement <- AfterStatement
INVARIANTS
  TypeOK
  Agreement
  BoundariesKept
  RecoveryIsLocal
  StatementsStandAlone
  NothingDroppedSilently
  PrecedenceKept
PROPERTIES
  StallsOnlyAtFalseStarts
  LenientReturns
CHECK_DEADLOCK FALSE
