CONSTANTS
    Objects = {x, y}
    Nil = Nil
    Regions = 3
    MaxRoots = 2
    MaxWork = 2
    Stars = TRUE
    LateRest = FALSE
    MidPass = FALSE
    Unsummarized = FALSE
SPECIFICATION Spec
INVARIANTS SummariesComplete NothingLost RemsetSound
CHECK_DEADLOCK FALSE
SYMMETRY ObjectSymmetry
