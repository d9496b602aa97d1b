SPECIFICATION Spec
CONSTANTS
  Databases <- MCDatabases
  Ddls <- MCDdls
  MaxRuns = 2
INVARIANTS
  RerunPlansTheRest
  NothingComparedDiffers
  RejectionsAreForeseen
PROPERTY
  LossesWarned
CHECK_DEADLOCK FALSE
