CONSTANTS
    Chars <- ScannerChars
    NUL = "NUL"
    Files <- MCFiles
    States <- ScannerStates
    Stops <- StopStates
    yy_ec <- ec
    Step <- NextState
    yy_accept <- Accept
    yy_start = 1
    JAM = 37
    YY_BUF_SIZE = 2
    YY_READ_BUF_SIZE = 2
SPECIFICATION FairSpec
INVARIANTS
    TypeOK
    NothingLost
PROPERTY ImplementsTokens
CHECK_DEADLOCK FALSE
