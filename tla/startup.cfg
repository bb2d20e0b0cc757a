CONSTANTS
  PortInputs = {0, 1, 9090, 9443, 65535, 65536}
  Unset = Unset
  NotANumber = NotANumber
  Pairs = {pairA, pairB}
  MaxChanges = 2
SPECIFICATION Spec
INVARIANTS
  TypeOK
  InvalidNeverStarts
  ServesWhatItHolds
  NothingHeldAtExit
PROPERTY SignalEndsProcess
CHECK_DEADLOCK FALSE
