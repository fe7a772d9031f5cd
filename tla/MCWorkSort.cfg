CONSTANTS
  Threads = {1, 2, 3}
  NQ = 2
  NULL = NULL
  c = c
  d = d
  e = e
  Chunks = {c, d, e}
  n = 5
  MaxLat = 3
  Local <- MCLocal
  NextQ <- MCNextQ
SPECIFICATION MCSpec
INVARIANTS
  ChunksPartitioned
  OutputIsComplete
  NoStrandedWork
  OneIsLast
  StealListIsRight
PROPERTIES
  LastThreadFinishes
