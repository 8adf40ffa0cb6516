CONSTANTS
    a = a
    Leaf = {a}
    Inst = {1, 2, 3, 4}
    NumFns = 2
    Programs <- MCPrograms
SPECIFICATION BothSpec
INVARIANTS
    WorklistLive
    DeadIsPending
    OrderIndependent
PROPERTIES
    ImplementsDeadCode
    ModuleImplementsDeadCode
CHECK_DEADLOCK FALSE
