CONSTANTS
  Conns = {k1, k2}
SPECIFICATION CSpec
INVARIANTS
  AnsweredByItsMethod
  DrainLosesNoAnswer
PROPERTIES
  CallsReturn
  KeepsContract
CHECK_DEADLOCK FALSE
