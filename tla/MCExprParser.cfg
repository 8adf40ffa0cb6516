CONSTANTS
    Tokens <- MCTokens
    YYINITDEPTH = 4
    YYMAXDEPTH = 10
SPECIFICATION FairSpec
INVARIANTS
    TypeOK
    ReducesHandle
PROPERTY ImplementsLanguage
CHECK_DEADLOCK FALSE
