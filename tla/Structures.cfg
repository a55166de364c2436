SPECIFICATION PartsSpec
CONSTANTS
  Parts = {"extensible bitmap", "remembered set", "location sets", "remset array", "remset bitmaps", "summary matrix", "large objects", "page table", "mark stack", "primitives", "compiled code"}
  WordBits = 2
  LeafWords = 2
  Branch = 8
  Space = 40
  Objects = {4, 6, 9, 33}
  Ranges <- Areas
  MaxGnos = 5
  o1 = o1
  o2 = o2
  o3 = o3
  o4 = o4
  none = none
  free = free
  mark1 = mark1
  static = static
INVARIANTS RemsetsExact SummariesWhole MemoryAccounted MarkingMeasures ArithmeticExact CodeSurvivesCollections
PROPERTIES InterfacesImplemented
