CONSTANTS
    c1 = c1
    c2 = c2
    c3 = c3
    None = None
    Clients = {c1, c2}
    Fds = {3, 4, 5, 6}
    Modes = {TRUE, FALSE}
    MaxPipes = 2
SPECIFICATION FairSpec
INVARIANTS TypeOK SocketsOwned PipesOwned ListenerHeld
PROPERTIES EndHasCause  QueuedIsServed NoAcceptAfterStop ImplementsService
