CONSTANTS
    Clients = {c1}
    Fds = {1}
    TimerIds = {1, 2}
    MaxUsers = 1
    BufSize = 1
    Slots = 1
    Workers = {w1}
    MaxRequests = 1
    MaxEmpty = 2
    MaxStale = 0
    Terminates = FALSE
    None = None
SPECIFICATION RSpec
INVARIANTS
    HandedOver
    NoDanglingTimer
PROPERTIES
    SpinEnds
    IdleClosed
