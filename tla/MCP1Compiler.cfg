CONSTANTS
    Programs <- MCPrograms
    W = 8
SPECIFICATION MCSpec
PROPERTY ImplementsLisp
CHECK_DEADLOCK FALSE
