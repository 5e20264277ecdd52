SPECIFICATION Spec
CONSTANTS
    MAXCLIENTS = 4
    MINSPARESERVER = 1
    MAXSPARESERVER = 2
    Pids = {p1, p2, p3, p4}
    NoPid = NoPid
    Clients = {c1}
    NoClient = NoClient
    AcceptFails = TRUE
    ForkFails = TRUE
    Rereads = TRUE
SYMMETRY PidsAndClients
INVARIANTS TypeOK TableIsKept CountsUsed Replenished SettledCounts
CHECK_DEADLOCK FALSE
