SPECIFICATION FairSpec
CONSTANTS
    w1 = w1
    w2 = w2
    api = api
    celery = celery
    Writers = {w1, w2}
    Procs = {api, celery}
    ProcOf <- TwoProcesses
    UsesReplica = TRUE
    MaxRetries = 2
    SaveStatuses = {"RUNNING", "CANCELLED"}
    MaxSaves = 1
PROPERTIES TerminalGuard GateCarriedOver LateWritesDropped SaveEnds
CHECK_DEADLOCK FALSE
