CONSTANTS
    Clients = {c1, c2}
    Fds = {1, 2}
    TimerIds = {1, 2}
    MaxUsers = 2
    BufSize = 1
    Slots = 2
    Workers = {w1, w2}
    MaxRequests = 1
    MaxEmpty = 0
    MaxStale = 0
    Terminates = TRUE
    None = None
SPECIFICATION Spec
SYMMETRY Symmetry
INVARIANTS
    HandledOnce
    ServesOwner
    Attended
    TimerPerConnection
    CountMatches
PROPERTIES
    TickClosesIdleOnly
