CONSTANTS
  t1 = t1
  t2 = t2
  t3 = t3
  Threads = {t1, t2, t3}
  NQ = 2
  x = x
  Items = {x}
  NULL = NULL
  MaxCalls = 2
  Local <- MCLocal
  NextQ <- MCNextQ
SPECIFICATION MCSpec
PROPERTIES
  EveryCallReturns
