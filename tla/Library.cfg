SPECIFICATION PartsSpec
CONSTANTS
  Parts = {"dynamic wind", "queue", "block cache", "parcels", "semispaces", "stop and copy"}
  Extents = {n1, n2, n3}
  Root = root
  Nil = nil
  Konts = {k1, k2}
  MaxDepth = 3
  t1 = t1
  m1 = m1
  noTask = noTask
  noMutex = noMutex
SYMMETRY LibrarySymmetry
INVARIANTS WindInvariants InterruptsRestored BlocksAccounted StackAndHeapFit
PROPERTIES QueueIsQueue
CHECK_DEADLOCK FALSE
