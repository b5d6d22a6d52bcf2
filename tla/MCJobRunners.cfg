\* Two workers, a poller and a client share one slot; one batch of two items
\* whose rows may fail to be written, one queue entry, one restart, and
\* midnight or a failed save.
CONSTANTS
    Workers <- MCWorkers
    Pollers <- MCPollers
    Clients <- MCClients
    Threads <- MCThreads
    MaxConcurrent = 1
    HasDeadline = TRUE
    ConcurrentLimit = 2
    MaxFaults = 1
    Items = {"i1"}
    Batches = {"b1"}
    BatchSize = 2
    StoreFails = TRUE
    MaxCrashes = 1
SPECIFICATION FairSpec
INVARIANTS AdmissionSound  JobsSound
PROPERTIES PoolIsSlotPool PendingIsTaken BatchesEnd
