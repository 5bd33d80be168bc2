CONSTANTS
    Workers = {w1, w2}
    loop = loop
    none = none
    m_splitLines = 2
    m_maxSize = 1
    MaxLines = 4
    MaxAsync = 2
    MaxDay = 1
SYMMETRY Symmetry
SPECIFICATION Spec
INVARIANTS
    LinesKept
    FlushedWhenOver
\* the lines run out; with asynchronous logging every thread may wait for ever
CHECK_DEADLOCK FALSE
