CONSTANTS
    Requests <- AllRequests
    Whole = FALSE
SPECIFICATION SafeSpec
INVARIANTS
    Answered
