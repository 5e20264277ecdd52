SPECIFICATION FairSpec
CONSTANTS
    MAXCLIENTS = 3
    MINSPARESERVER = 1
    MAXSPARESERVER = 2
    Pids = {1, 2, 3}
    NoPid = 0
    Clients = {c1, c2}
    NoClient = NoClient
    AcceptFails = FALSE
    ForkFails = FALSE
    Rereads = FALSE
ACTION_CONSTRAINT LowestPid
PROPERTY QueuedIsServed
