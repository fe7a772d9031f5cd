CONSTANTS
  Threads = {t1, t2}
  Allocs = {A, B}
  Pool = {A, B}
  NULL = NULL
  UIntRange = 16
  n_hwcs <- MCn_hwcs
  Use <- MCUse
  Seat <- MCSeat
SPECIFICATION SpecRepin
INVARIANTS
  RepinFreesOldSlot
