CONSTANTS
  MaxChecks = 3
  Threshold = 800
  Coverages = {0, 7994, 7995, 8000, 10000}
  softhsm = softhsm
  opencryptoki = opencryptoki
  crypto = crypto
  libc = libc
  Libs = {softhsm, opencryptoki, crypto, libc}
  Modules = {softhsm, opencryptoki}
  Needs <- MCNeeds
  NoModule = none
SPECIFICATION Spec
INVARIANT MarkedImageLinks
CHECK_DEADLOCK FALSE
