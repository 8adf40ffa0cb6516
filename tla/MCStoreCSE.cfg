CONSTANTS
    p = p
    q = q
    Leaf = {p, q}
    Inst = {1, 2, 3, 4, 5}
    NumBlocks = 2
    VolatileStores = FALSE
    SDom <- MCSDom
    Programs <- MCPrograms
SPECIFICATION Spec
INVARIANTS
    DominanceKept
    QueuedUnused
    CountsErased
    NothingLeftToForward
    MeaningKept
CHECK_DEADLOCK FALSE
