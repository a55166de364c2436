CONSTANTS
  Objects = {a, b, st}
  Copies = {0, 1}
  Globals = Globals
  Nil = Nil
  Fields = {f1}
  Roots = {r1, r2}
  Ephemeral = 1
  StaticObjs = {st}
  Kinds = {"small"}
  SsbWords = 4
  Requests <- NearRequests
SYMMETRY ObjectSymmetry
SPECIFICATION Spec
INVARIANTS RemsetComplete NoDanglingPointers SsbHasRoom NoStaleEntries
