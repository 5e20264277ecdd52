SPECIFICATION SpecStructures
CONSTANTS
    DATASIZE = 4
    Values = {1, 2}
    Others <- OtherLists
    Garbage = Garbage
    NR_BALL = 9
    RINGSIZE = 11
    MIN = 1
    FIVEMIN = 1
    HOUR = 2
    Nodes = {1, 2, 3}
    Data = {1, 2, 3}
    MallocFails = TRUE
    JOSE_NUM = 7
    Counts = {2, 3, 4}
    Exponents = {0, 1, 2}
    Coefficients <- Signs
    TreeNodes = {1, 2, 3, 4}
    Ids = {1, 2, 3}
    TreeFails = TRUE
    Words <- WordList
    Descs = {"d", "e"}
    Empty = Empty
    MaxLines = 3
    TrieFails = TRUE
    Chars = {1, 2, 3}
    MaxChars = 3
PROPERTY DeleteRemovesOne
CHECK_DEADLOCK FALSE
