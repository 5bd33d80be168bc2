CONSTANTS
    Workers = {}
    loop = loop
    none = none
    m_splitLines = 800000
    m_maxSize = 800
    MaxLines = 2
    MaxAsync = 0
    MaxDay = 2
SPECIFICATION Spec
INVARIANTS
    KindsApart
CHECK_DEADLOCK FALSE
