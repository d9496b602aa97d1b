SPECIFICATION ReadSpec
CONSTANTS
  Tokens <- Kinds
  Documents <- MCDocuments
  Replacements <- MCReplacements
  Inputs <- MCInputs
  Eof = Eof
  Nothing = Nothing
INVARIANTS
  TypeOK
  PeekExact
  TokensStandAlone
  CopyFollowsEditor
  PositionsComeBack
PROPERTIES
  StreamSpec
