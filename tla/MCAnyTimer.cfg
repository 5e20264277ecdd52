SPECIFICATION FairSpec
CONSTANTS
    JOB_MAX = 2
    Jobs = {1, 2, 3}
    NULL = 0
    Secs = {0, 2}
VIEW ButRet
ACTION_CONSTRAINT LowestAddress
INVARIANTS RunsOnTime Kept
PROPERTIES CancelledStops WaitReturns
CHECK_DEADLOCK FALSE
