CONSTANTS
  Conns = {g1}
  HConns = {h1}
SPECIFICATION Spec
INVARIANT FailureExitsOne
CHECK_DEADLOCK FALSE
