CONSTANTS
  Base = 8
  Slots = {1, 2}
  Handles = {h1, h2}
  MaxChanges = 2
SPECIFICATION Spec
INVARIANTS
  TypeOK
  NoSilentLeak
  ReadsLiveMemory
  CanonicalTrace
  PassMeansConforming
CHECK_DEADLOCK FALSE
