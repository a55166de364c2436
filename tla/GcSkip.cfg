CONSTANTS
  Objects = {a, b}
  Copies = {0, 1, 2}
  Globals = Globals
  Nil = Nil
  Fields = {f1}
  Roots = {r1, r2}
  Ephemeral = 1
  StaticObjs = {}
  Kinds = {"small"}
  SsbWords = 2
  Requests <- FarRequests
SPECIFICATION Spec
INVARIANTS NoStaleEntries
