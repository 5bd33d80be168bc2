CONSTANTS
    Timers = {t1, t2, t3, t4}
    Delay = 2
    MaxNow = 6
    NULL = NULL
SPECIFICATION Spec
SYMMETRY Symmetry
INVARIANTS
    TypeOK
    WellLinked
    AscendingWithClock
PROPERTIES
    ImplementsTimerSeq
    TickLeavesNoExpired
