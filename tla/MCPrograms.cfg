SPECIFICATION SpecPrograms
CONSTANTS
    LAST = 4
    Main = 0
    Threads = {0, 1, 2, 3, 4}
    NoThread = NoThread
    Amounts = {1}
    InitVal = 2
    MaxValue = 9
    CreateFails = TRUE
    LEFT = 5
    RIGHT = 8
    THRNUM = 2
    PoolCreateFails = TRUE
    N = 3
    SpreadFails = TRUE
    RingSize = 3
    RingCreateFails = TRUE
    PROCNUM = 3
    FileFails = TRUE
    Chunks = 3
    QueueSize = 2
    CallsFail = TRUE
    StaticNum = 2
    Guests = {"a", "b", "c"}
    MaxChildren = 3
    StreamFails = TRUE
    FileLength = 3
    CopySize = 2
    TokenBurst = 3
    CopyFails = TRUE
    Lines = 2
    Stars = 2
    MaxSignals = 2
    Commands = 2
    ForksFail = TRUE
    MaxNumbers = 3
    DaemonFails = TRUE
INVARIANTS NoLostWakeup SemaphoreIsKept EveryAdditionCounts ClientsAreAnswered CopiesAreRight SignalsAreAnswered
    ProcessesPrintRight
PROPERTIES ImplementsSemaphore ImplementsWork InTurn EveryoneGetsOn
CHECK_DEADLOCK FALSE
