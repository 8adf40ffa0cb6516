CONSTANTS
    p = p
    q = q
    Leaf = {p, q}
    Inst = {1, 2, 3, 4, 5}
    NumBlocks = 2
    SDom <- MCSDom
    Programs <- MCPrograms
SPECIFICATION Spec
INVARIANTS
    QueuedUnused
    DominanceKept
    NoRedundantLoad
    MeaningKept
CHECK_DEADLOCK FALSE
