SPECIFICATION Spec
CONSTANTS
    MAXCLIENTS = 3
    MINSPARESERVER = 1
    MAXSPARESERVER = 2
    Pids = {p1,p2,p3}
    NoPid = NoPid
    Clients = {c1,c2}
    NoClient = NoClient
    AcceptFails = FALSE
    ForkFails = FALSE
    Rereads = FALSE
SYMMETRY PidsAndClients
INVARIANT NoClientDropped
CHECK_DEADLOCK FALSE
