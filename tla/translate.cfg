SPECIFICATION Spec
CONSTANTS
  Jobs <- MCJobs
  Converted <- Convert
  TextOf <- Text
INVARIANTS
  TypeOK
  EachTextIsItsOwn
  ConditionsKept
  ClausesWritten
  PostgreSqlReadsBack
CHECK_DEADLOCK FALSE
