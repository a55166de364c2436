SPECIFICATION Spec
CONSTANTS
  Extents = {n1, n2}
  Root = root
  Nil = nil
  Konts = {k1}
  MaxDepth = 3
INVARIANTS AbandonedRestores
