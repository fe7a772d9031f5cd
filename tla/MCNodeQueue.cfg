CONSTANTS
  t1 = t1
  t2 = t2
  t3 = t3
  Threads = {t1, t2, t3}
  x = x
  y = y
  Items = {x, y}
  n1 = n1
  n2 = n2
  n3 = n3
  n4 = n4
  Nodes = {n1, n2, n3, n4}
  Dummy = n1
  NULL = NULL
  Garbage = Garbage
SPECIFICATION Spec
INVARIANTS
  ListIsChain
  MemorySafety
  NoLeak
PROPERTIES
  ImplementsFifo
SYMMETRY Symmetry
