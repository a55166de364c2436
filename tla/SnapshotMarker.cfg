SPECIFICATION Spec
CONSTANTS
    Small = Small  Large = Large  Nil = Nil
    Objects = {Small, Large}
    Size <- MCSize
    Window = 1
    Regions = 1
    MaxRegions = 2
    MaxRoots = 2
    MaxStack = 1
    LateStatic = FALSE
INVARIANTS PointersKept MarkingCovers
PROPERTY UnmarkedOnlyShrinks
CHECK_DEADLOCK FALSE
