CONSTANT
  HConns = {c1, c2}
SPECIFICATION HSpec
INVARIANTS
  HTypeOK
  ReturnedIsQuiet
  ReportsEveryFailure
  NilMeansDrained
PROPERTIES
  CancelEndsRun
  ServeErrorEndsRun
CHECK_DEADLOCK FALSE
