SPECIFICATION Spec
CONSTANTS
    MaxRegions = 4
    EnoughRegions = 2
    CoverInv = 2
    BudgetInv = 2
    Popularity = 4
    MaxStars = 1
    Infamy = 1
    ChosenRises = FALSE
INVARIANTS TypeOK RefinementCounts
PROPERTY InfamyEndsByMarking FinishesInTime
CHECK_DEADLOCK FALSE
