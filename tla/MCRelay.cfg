SPECIFICATION FairSpec
CONSTANTS
    Fds = {1, 2}
    Machines <- BothWays
    Length <- TwoAndOne
    BUFSIZE = 2
    Breaks = {1, 2}
    Fills = {1, 2}
    Versions = {"nonblock", "select", "poll", "epoll"}
INVARIANTS InOrder StopsForAReason
PROPERTIES RelayEnds BytesAreTaken
CHECK_DEADLOCK FALSE
