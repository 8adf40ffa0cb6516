CONSTANTS
    p = p
    zero = zero
    Leaf = {p, zero}
    Inst = {1, 2, 3, 4, 5}
    NumBlocks = 2
    SDom <- MCSDom
    Programs <- MCPrograms
SPECIFICATION BothSpec
INVARIANTS
    DominanceKept
    NoRedundantUse
    NoSimplifiableUse
    MeaningKept
CHECK_DEADLOCK FALSE
