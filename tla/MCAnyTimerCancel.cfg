SPECIFICATION FairSpec
CONSTANTS
    JOB_MAX = 2
    Jobs = {j1, j2}
    NULL = NULL
    Secs = {0, 1, 2}
PROPERTY CancelledIsNotOver
CHECK_DEADLOCK FALSE
