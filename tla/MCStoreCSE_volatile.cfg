CONSTANTS
    p = p
    q = q
    Leaf = {p, q}
    Inst = {1, 2, 3, 4, 5}
    NumBlocks = 2
    VolatileStores = TRUE
    SDom <- MCSDom
    Programs <- MCPrograms
SPECIFICATION Spec
INVARIANT VolatileStoresKept
CHECK_DEADLOCK FALSE
