SPECIFICATION Spec
CONSTANTS
  Jobs <- MCUpdates
  Converted <- Convert
  TextOf <- Text
INVARIANT WhereKept
CHECK_DEADLOCK FALSE
