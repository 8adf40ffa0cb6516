CONSTANTS
    Name = {x, y}
    NoValue = NoValue
    NULL = NULL
    MaxFunctions = 2
    MaxAllocas = 3
    MaxDepth = 3
SPECIFICATION BothSpec
INVARIANTS
    TypeOK
    FindsOwnAlloca
    HashFsck
PROPERTIES
    ImplementsScoping
    ImplementsDictionary
CHECK_DEADLOCK FALSE
