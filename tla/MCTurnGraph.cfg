\* A task and one later run of it (requeued, or a review).
CONSTANTS
    Runs = {r1, r2}
    NoRun = NoRun
    MaxRetry = 2
    RetryBound = 2
    TimeoutActions = {"reject", "escalate"}
SYMMETRY Symmetry
SPECIFICATION Spec
INVARIANTS
    TurnSound
    DeadLetterNotLost
CHECK_DEADLOCK FALSE
