CONSTANTS
  TokenIds = {1, 2, 3}
  LabelWidth = 13
  MaxRuns = 3
  MaxOutages = 1
  MaxForeign = 1
SPECIFICATION Spec
INVARIANTS
  DevIdempotent
CHECK_DEADLOCK FALSE
