SPECIFICATION FairSpec
CONSTANTS
    NStreams = 1
    MaxRetry = 2
    RecursionLimit = 4
    MaxRequests = 1
    MaxTimeouts = 0
    Overlap = FALSE
    Disconnects = FALSE
INVARIANTS TurnSettled 
PROPERTY StreamsEnd
CHECK_DEADLOCK FALSE
