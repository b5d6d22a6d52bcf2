\* One thread is enough to lose the probe of the half-open breaker.
CONSTANTS
    Callers = {c1, c2}
    Retries = 2
    StreamRetries = 0
    Threshold = 2
    HalfOpenMax = 1
SPECIFICATION FairSpec
PROPERTIES BreakerRecovers
