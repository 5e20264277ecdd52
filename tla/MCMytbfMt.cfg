SPECIFICATION FairSpec
CONSTANTS
    Threads = {t1, t2}
    Alrm = Alrm
    Nobody = Nobody
    NULL = NULL
    Buckets = {b1, b2}
    MYTBF_MAX = 1
    CPS = 1
    BURST = 2
    Sizes = {0, 1, 3}
INVARIANT TableIsSafe
PROPERTIES ImplementsBucket CallsEnd
CHECK_DEADLOCK FALSE
