CONSTANTS
    Functions = {f, g}
    NULL = NULL
    FAULT = FAULT
    Blocks = {1, 2, 3, 4}
    Entry = 1
    Graphs <- MCGraphs
    Asked = {2, 4}
    Walked = {2}
    MaxEdits = 1
    MaxDeeper = 1
SPECIFICATION QuerySpec
INVARIANTS
    AnswersRight
    WalkComplete
PROPERTY WalkEnds
