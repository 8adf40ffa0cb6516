CONSTANTS
    CommandLines <- MCCommandLines
    length <- MClength
    Readable <- MCReadable
    content <- MCcontent
    NULL = NULL
    MAX_IN = 3
    BUF_SIZE = 8
    READ_BUF_SIZE = 4
SPECIFICATION DriverSpec
INVARIANT KeptIsWhole
PROPERTY Ends
CHECK_DEADLOCK FALSE
