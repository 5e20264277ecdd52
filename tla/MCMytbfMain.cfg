SPECIFICATION FairSpecMain
CONSTANTS
    MYTBF_MAX = 1
    Buckets = {b1}
    NULL = NULL
    CPS = 2
    BURST = 4
    Sizes = {5}
    SiCode = TRUE
    Foreign = TRUE
    Length = 7
    BUFSIZE = 5
    MaxFails = 1
INVARIANTS TokensAreReal HandlerTouchesLive PacedCopy
PROPERTY Ends
CHECK_DEADLOCK FALSE
