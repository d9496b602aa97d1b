SPECIFICATION Spec
CONSTANTS
  MaxDepth = 4
  MaxExprDepth = 8
  MaxErrors = 5
  Uris = {"main", "lib"}
  Sessions <- MCSessions
  GivenNames <- NewNames
  Widths = {0, 1}
INVARIANTS
  AnswersPointAtTokens
  NamesResolveAlike
  EditsKeepTheRest
