CONSTANTS
  TokenIds = {1, 2, 3}
  LabelWidth = 15
  MaxRuns = 3
  MaxOutages = 1
  MaxForeign = 1
SPECIFICATION Spec
INVARIANTS
  TypeOK
  SpikeFinds
  ReadyIsVerified
  NeverTwice
  OnlyPinlessBlocks
CHECK_DEADLOCK FALSE
