CONSTANTS
  Base = 8
  Words = {592, 16777215, 12345678}
  Lens = {0, 16, 2097153}
SPECIFICATION CallSpec
INVARIANTS
  BlockReadsBack
  AcceptsWellFormed
CHECK_DEADLOCK FALSE
