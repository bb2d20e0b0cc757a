CONSTANTS
  Conns = {g1, g2}
  HConns = {h1}
SPECIFICATION Spec
INVARIANTS
  TypeOK
  CleanReturn
  NoFailureSilent
PROPERTIES
  CauseEndsServeAll
  Refines
CHECK_DEADLOCK FALSE
