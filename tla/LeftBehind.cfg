SPECIFICATION FairSpec
CONSTANTS
    c1 = c1
    c2 = c2
    c3 = c3
    NoClient = NoClient
    Clients <- MCClients
    Accept <- MCAccept
    Cap = 16
    KeyCap = 2
    MaxConns = 2
    Fds = {5, 6, 7}
    HsCap = 14
    ChunkCap = 14
    Backlog = 2
    SendRoom = 5
    MaxFaults = 1
    Scripts <- MCFragments
    Leavers = {c1}
PROPERTY
    EveryMessageIsHandled
CHECK_DEADLOCK FALSE
