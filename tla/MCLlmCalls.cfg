\* Two threads, so that one records while the other is let in; two attempts
\* of each wrapper, one retry of the stream, a threshold of two failures.
CONSTANTS
    Callers = {c1, c2}
    Retries = 2
    StreamRetries = 1
    Threshold = 2
    HalfOpenMax = 1
SPECIFICATION FairSpec
INVARIANTS BreakerSound
PROPERTIES CallsEnd ProbeDecides
