CONSTANTS
  t1 = t1
  t2 = t2
  t3 = t3
  Threads = {t1, t2, t3}
  NQ = 2
  x = x
  y = y
  Items = {x, y}
  NULL = NULL
  Local <- MCLocal
  NextQ <- MCNextQ
SPECIFICATION Spec
INVARIANTS
  NoDuplicate
  SizeIsAtomic
  NullMeansDrained
PROPERTIES
  NoLoss
  ImplementsWorkBag
SYMMETRY Symmetry
