SPECIFICATION FairSpec
CONSTANTS
    c1 = c1
    c2 = c2
    c3 = c3
    NoClient = NoClient
    Clients <- MCClients
    Accept <- MCAccept
    Cap = 10
    KeyCap = 2
    MaxConns = 2
    Fds = {5, 6, 7}
    HsCap = 14
    ChunkCap = 9
    Backlog = 2
    SendRoom = 5
    MaxFaults = 1
    Scripts <- MCScripts
    Leavers = {c1}
INVARIANTS
    TypeOK
    PoolMatchesKernel
    EventsAreFresh
    RepliesAreExact
    HandlerSeesLive
PROPERTIES
    ImplementsService
    SlotsComeBack
    EveryoneIsServed
CHECK_DEADLOCK FALSE
