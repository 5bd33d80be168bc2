CONSTANTS
    Requests <- AllRequests
    Whole = TRUE
SPECIFICATION Spec
INVARIANTS
    TypeOK
    AnswerIsRight
    Answered
PROPERTIES
    LoopEnds
