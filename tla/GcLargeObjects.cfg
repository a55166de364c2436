CONSTANTS
  Objects = {a, b}
  Copies = {0, 1}
  Globals = Globals
  Nil = Nil
  Fields = {f1, f2}
  Roots = {r1, r2}
  Ephemeral = 0
  StaticObjs = {}
  Kinds = {"small", "large"}
  SsbWords = 2
  Requests <- NearRequests
SPECIFICATION FairSpec
INVARIANTS OneCopyEach
PROPERTIES ImplementsObjectHeap CollectionEnds
