SPECIFICATION FairSpec
CONSTANTS
    Threads = {1, 2}
    Engine = Engine
    Nobody = Nobody
    NULL = NULL
    REL_JOBMAX = 2
    Fds = {1, 2, 3, 4, 5, 6}
    Jobs <- ThreeJobs
    Machines <- ThreeJobsWays
    Length <- OneWay
    BUFSIZE = 1
    Breaks = {2}
    Fills = {2}
ACTION_CONSTRAINT Bounds
INVARIANT EngineIsSafe
PROPERTY EveryoneIsServed
CHECK_DEADLOCK FALSE
