------------------------------ MODULE RateLimit ------------------------------
(***************************************************************************)
(* The limiter every API request passes (rate_limit.py): one window per    *)
(* user and one per address, kept in this process or, when Redis is        *)
(* configured, in a Redis counter with an expiry.  Each check that Redis   *)
(* cannot answer falls back to the window in memory, so the two backends   *)
(* count side by side.  Requests run in threads: the two keys of a request *)
(* are checked one after the other, and a check in memory reads the clock  *)
(* before it takes the lock.                                               *)
(***************************************************************************)
EXTENDS Integers, FiniteSets, Sequences

CONSTANTS
    Visitors,     \* threads that serve requests
    UserKeys,     \* "user:..." keys
    AddressKeys,  \* "ip:..." keys
    UserLimit,    \* RATE_LIMIT_USER_PER_MIN
    AddressLimit, \* RATE_LIMIT_IP_PER_MIN; 0 admits everything
    Window,       \* RATE_LIMIT_WINDOW_SEC
    WithRedis,    \* RATE_LIMIT_REDIS and a client that connected
    MaxHits,      \* bound: requests
    MaxNow        \* bound: time

Keys == UserKeys \cup AddressKeys

RateAssumption ==
    /\ UserKeys \cap AddressKeys = {}
    /\ {UserLimit, AddressLimit, MaxHits, MaxNow} \subseteq Nat
    /\ Window \in Nat \ {0}
    /\ WithRedis \in BOOLEAN

VARIABLES
    now,      \* time
    windows,  \* RateLimiter._windows: per key the stamps of what memory admitted
    counter,  \* the Redis counters with the time they expire
    visit,    \* per thread: the keys it still has to check
    hits,     \* history: per key, what was asked when, of whom, and the answer
    requested,\* number of requests
    clock     \* per thread: the time its check in memory has read

rateVars == <<now, windows, counter, visit, hits, requested, clock>>

Backends == IF WithRedis THEN {"memory", "redis"} ELSE {"memory"}
LimitOf(k) == IF k \in UserKeys THEN UserLimit ELSE AddressLimit
Unread == -1

RateInit ==
    /\ now = 0
    /\ windows = [k \in Keys |-> {}]
    /\ counter = [k \in Keys |-> [count |-> 0, until |-> 0]]
    /\ visit = [v \in Visitors |-> <<>>]
    /\ hits = [k \in Keys |-> {}]
    /\ requested = 0
    /\ clock = [v \in Visitors |-> Unread]

RateTypeOK ==
    /\ now \in 0 .. MaxNow
    /\ \A k \in Keys : windows[k] \subseteq [at : 0 .. now, n : Nat]
    /\ \A k \in Keys : counter[k] \in [count : Nat, until : 0 .. MaxNow + Window]
    /\ visit \in [Visitors -> {<<>>} \cup {<<k>> : k \in AddressKeys}
                                     \cup (UserKeys \X AddressKeys)]
    /\ requested \in 0 .. MaxHits
    /\ clock \in [Visitors -> {Unread} \cup 0 .. now]

-----------------------------------------------------------------------------
\* Mutant of Pruned: the entry of the oldest instant in the window is dropped too.
PrunedEarly(k, t) == {e \in windows[k] : e.at > t - Window + 1}

\* RateLimiter._prune, with the time the check has read.
Pruned(k, t) == {e \in windows[k] : e.at > t - Window}

\* The next entry of an instant; its number tells it from the others.
Stamp(k, t) == [at |-> t, n |-> Cardinality({e \in windows[k] : e.at = t})]

\* The history of a check: its number tells two at the same time apart.
Note(k, b, t, yes) ==
    hits' = [hits EXCEPT ![k] = @ \cup
        {[at |-> t, by |-> b, admitted |-> yes, n |-> Cardinality(@)]}]

\* RateLimiter._memory_check, under the limiter's lock, at the time t.
MemoryCheck(k, t, yes) ==
    /\ yes = (Cardinality(Pruned(k, t)) < LimitOf(k))
    /\ windows' = [windows EXCEPT ![k] = IF yes THEN Pruned(k, t) \cup {Stamp(k, t)} ELSE Pruned(k, t)]
    /\ Note(k, "memory", t, yes)

\* RateLimiter._redis_check: INCR and EXPIRE in one pipeline.  A refused
\* request counts too, and every request moves the expiry on.
RedisCheck(k, yes) ==
    LET count == 1 + (IF counter[k].until > now THEN counter[k].count ELSE 0)
    IN /\ yes = (count <= LimitOf(k))
       /\ counter' = [counter EXCEPT ![k] = [count |-> count, until |-> now + Window]]
       /\ Note(k, "redis", now, yes)

\* enforce_rate_limits begins: the two keys of the request.
Visit(v) ==
    /\ visit[v] = <<>> /\ requested < MaxHits
    /\ \E u \in UserKeys, a \in AddressKeys : visit' = [visit EXCEPT ![v] = <<u, a>>]
    /\ requested' = requested + 1
    /\ UNCHANGED <<now, windows, counter, hits, clock>>

\* After a check the next key follows; the first refusal answers 429.
Answered(v, yes) == visit' = [visit EXCEPT ![v] = IF yes THEN Tail(@) ELSE <<>>]

\* RateLimiter.check of the next key; a limit of zero admits at once.
Checking(v) == visit[v] # <<>> /\ clock[v] = Unread

CheckNothing(v) ==
    /\ Checking(v) /\ LimitOf(Head(visit[v])) = 0
    /\ Answered(v, TRUE)
    /\ UNCHANGED <<now, windows, counter, hits, requested, clock>>

CheckRedis(v) ==
    /\ Checking(v) /\ LimitOf(Head(visit[v])) # 0 /\ "redis" \in Backends
    /\ \E yes \in BOOLEAN : RedisCheck(Head(visit[v]), yes) /\ Answered(v, yes)
    /\ UNCHANGED <<now, windows, requested, clock>>

\* Redis is not configured, or the call to it raises: _memory_check reads the
\* clock ...
ReadClock(v) ==
    /\ Checking(v) /\ LimitOf(Head(visit[v])) # 0
    /\ clock' = [clock EXCEPT ![v] = now]
    /\ UNCHANGED <<now, windows, counter, visit, hits, requested>>

\* ... and goes on once it has the lock.
CheckMemory(v) ==
    /\ clock[v] # Unread
    /\ \E yes \in BOOLEAN : MemoryCheck(Head(visit[v]), clock[v], yes) /\ Answered(v, yes)
    /\ clock' = [clock EXCEPT ![v] = Unread]
    /\ UNCHANGED <<now, counter, requested>>

Pass == now < MaxNow /\ now' = now + 1 /\ UNCHANGED <<windows, counter, visit, hits, requested, clock>>

RateNext ==
    \/ Pass
    \/ \E v \in Visitors :
          Visit(v) \/ CheckNothing(v) \/ CheckRedis(v) \/ ReadClock(v) \/ CheckMemory(v)

RateSpec == RateInit /\ [][RateNext]_rateVars

-----------------------------------------------------------------------------
(* Properties                                                              *)

\* What backend b admitted of key k in the window that ends at time t.
Admitted(k, b, t) ==
    {h \in hits[k] : h.admitted /\ h.by = b /\ h.at <= t /\ h.at > t - Window}

\* Every window of key k, wherever it ends, is within the limit of the backend.
Exact(k, b) ==
    LimitOf(k) = 0 \/ \A t \in 0 .. now : Cardinality(Admitted(k, b, t)) <= LimitOf(k)

\* No check of key k in memory was overtaken: none took the lock after another
\* one that had read a later time.
InOrder(k) ==
    \A g, h \in hits[k] :
        g.by = "memory" /\ h.by = "memory" /\ g.n < h.n => g.at <= h.at

\* In every window a backend admits no more requests of a key than its limit,
\* whatever the threads do between their checks (rate_limit.py:38-60): Redis
\* always, the memory as long as no check of the key was overtaken while it
\* waited for the lock.  With Redis failing now and then the two backends
\* together may admit twice as many.
WindowBounded ==
    \A k \in Keys : Exact(k, "redis") /\ (InOrder(k) => Exact(k, "memory"))

\* The same without the proviso: an "in-memory sliding window"
\* (rate_limit.py:1).  Does not hold: the check that overtakes another drops
\* the entries which the other, with its earlier time, has still to count.
SlidingWindow == \A k \in Keys, b \in Backends : Exact(k, b)

\* A request is refused only when its key had its full number of requests
\* admitted in the window that ends now: "Rate limit exceeded: {N} requests per
\* {window}s" (rate_limit.py:104, 109).  Does not hold: it is true of the window in memory; the
\* Redis counter goes on counting as long as requests come.
RefusedAtLimit ==
    \A k \in Keys : \A h \in hits[k] :
        ~h.admitted => Cardinality(UNION {Admitted(k, b, h.at) : b \in Backends}) >= LimitOf(k)

=============================================================================
