SPECIFICATION Spec
CONSTANTS
    NStreams = 2
    MaxRetry = 1
    RecursionLimit = 1
    MaxRequests = 0
    MaxTimeouts = 1
    Overlap = TRUE
    Disconnects = TRUE
INVARIANTS NothingLeftBehind
PROPERTIES RegistryKept
CHECK_DEADLOCK FALSE
