CONSTANTS
  t1 = t1
  t2 = t2
  t3 = t3
  A = A
  B = B
  C = C
  Threads = {t1, t2, t3}
  Allocs = {A, B, C}
  Pool = {A, B}
  NULL = NULL
  UIntRange = 16
  n_hwcs <- MCn_hwcs
  Use <- MCUse
  Seat <- MCSeat
SPECIFICATION Spec
INVARIANT UnpinnedHasNoId
