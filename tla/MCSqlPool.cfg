CONSTANTS
    Threads = {t1, t2, t3, t4}
    Conns = {c1, c2}
    Main = Main
    None = None
    Shutdown = TRUE
SPECIFICATION Spec
INVARIANTS
    CountsAgree
    ExclusiveConnection
    NotUsedAfterClose
PROPERTIES
    ImplementsAllocator
    NullOnlyWhenAllTaken
    NoGridlock
