CONSTANTS
    Workers = {w1, w2, w3}
    Requests = {r1, r2}
    MaxRequests = 3
    Main = Main
    None = None
SPECIFICATION Spec
INVARIANTS
    TypeOK
    SemCountsTasks
    PopsWhatItRead
PROPERTIES
    ImplementsTaskQueue
    Served
