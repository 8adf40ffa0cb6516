CONSTANTS
    p = p
    zero = zero
    Zero = zero
    Leaf = {p, zero}
    Inst = {1, 2, 3, 4, 5, 6}
    NumFns = 1
    NumBlocks = 2
    SDom <- MCSDom
    Programs <- MCPrograms
SPECIFICATION FairSpec
INVARIANTS
    DominanceKept
    ObservableKept
    EqualAddressesLoadedOnce
    MeaningKept
PROPERTIES
    Terminates
CHECK_DEADLOCK FALSE
