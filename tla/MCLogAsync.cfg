CONSTANTS
    Workers = {w1}
    loop = loop
    none = none
    m_splitLines = 800000
    m_maxSize = 800
    MaxLines = 1
    MaxAsync = 1
    MaxDay = 0
SPECIFICATION FairSpec
PROPERTIES
    AsyncWritten
CHECK_DEADLOCK FALSE
