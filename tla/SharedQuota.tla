----------------------------- MODULE SharedQuota -----------------------------
(***************************************************************************)
(* The tenant quota kept in Redis, which several processes share           *)
(* (RedisQuotaBackend of tenant_quota.py).  The keys carry the UTC day.    *)
(* Admission is a read followed by an increment, and the end of a task a   *)
(* read followed by a decrement: every call to Redis is a step, any of     *)
(* them may fail, and then the process counts in its own memory backend    *)
(* instead.  TaskAdmission models the memory backend and the path of a     *)
(* request through it; here a tenant's tasks only start and end.           *)
(***************************************************************************)
EXTENDS Integers, FiniteSets

CONSTANTS
    Errands,    \* tasks of the tenant
    Processes,  \* processes that serve the tenant
    MaxDaily,   \* max_tasks_per_day; 0 is no limit
    MaxAtOnce,  \* max_concurrent_tasks; 0 is no limit
    LastDay,    \* bound: days
    MaxFaults   \* bound: calls to Redis that fail

SharedQuotaAssumption ==
    {MaxDaily, MaxAtOnce, LastDay, MaxFaults} \subseteq Nat

Dates == 0 .. LastDay

VARIABLES
    date,     \* the UTC day
    shared,   \* per day: the keys tasks_today and active_tasks
    own,      \* per process: its memory backend
    errand,   \* per task: where it is, and the day of that step
    faults    \* calls that failed

quotaVars == <<date, shared, own, errand, faults>>

Zero == [tasks |-> 0, active |-> 0]

QuotaInit ==
    /\ date = 0
    /\ shared = [d \in Dates |-> Zero]
    /\ own = [p \in Processes |-> [day |-> 0, use |-> Zero]]
    /\ errand = [e \in Errands |-> [at |-> "new", day |-> 0]]
    /\ faults = 0

SharedQuotaTypeOK ==
    /\ date \in Dates
    /\ \A d \in Dates : shared[d].tasks \in Nat /\ shared[d].active \in Int
    /\ \A p \in Processes : own[p].use \in [tasks : Nat, active : Nat] /\ own[p].day \in Dates
    /\ errand \in [Errands -> [at : {"new", "checked", "running", "read", "done"},
                               day : Dates]]
    /\ faults \in 0 .. MaxFaults

-----------------------------------------------------------------------------
\* MemoryQuotaBackend._get: a new day begins with new counters.
Today(p) == IF own[p].day = date THEN own[p].use ELSE Zero

\* check_quota for one more task, of the counters that snapshot returned.
Within(use) ==
    /\ MaxDaily > 0 => use.tasks + 1 <= MaxDaily
    /\ MaxAtOnce > 0 => use.active + 1 <= MaxAtOnce

Move(e, to) == errand' = [errand EXCEPT ![e] = [at |-> to, day |-> date]]

\* A call to Redis that raises.
Fault == faults < MaxFaults /\ faults' = faults + 1

\* require_quota: snapshot by MGET, from memory when that fails; a task over
\* the quota is refused (TenantQuotaExceeded).
Require(e, p) ==
    /\ errand[e].at = "new"
    /\ \/ /\ Move(e, IF Within(shared[date]) THEN "checked" ELSE "done")
          /\ UNCHANGED faults
       \/ Fault /\ Move(e, IF Within(Today(p)) THEN "checked" ELSE "done")
    /\ UNCHANGED <<date, shared, own>>

\* task_started: both keys in one pipeline.
Started(e, p) ==
    /\ errand[e].at = "checked"
    /\ Move(e, "running")
    /\ \/ /\ shared' = [shared EXCEPT ![date] = [tasks |-> @.tasks + 1, active |-> @.active + 1]]
          /\ UNCHANGED <<own, faults>>
       \/ /\ Fault
          /\ own' = [own EXCEPT ![p] = [day |-> date,
                use |-> [tasks |-> Today(p).tasks + 1, active |-> Today(p).active + 1]]]
          /\ UNCHANGED shared
    /\ UNCHANGED date

\* The fallback's task_finished.
FinishInMemory(p) ==
    /\ Fault
    /\ own' = [own EXCEPT ![p] = [day |-> date,
          use |-> [Today(p) EXCEPT !.active = IF @ > 0 THEN @ - 1 ELSE 0]]]
    /\ UNCHANGED shared

\* Mutant of FinishRead: the last task of the tenant is not counted down.
FinishReadLast(e, p) ==
    /\ errand[e].at = "running"
    /\ \/ /\ Move(e, IF shared[date].active > 1 THEN "read" ELSE "done")
          /\ UNCHANGED <<shared, own, faults>>
       \/ FinishInMemory(p) /\ Move(e, "done")
    /\ UNCHANGED date

\* task_finished: the GET of today's key.
FinishRead(e, p) ==
    /\ errand[e].at = "running"
    /\ \/ /\ Move(e, IF shared[date].active > 0 THEN "read" ELSE "done")
          /\ UNCHANGED <<shared, own, faults>>
       \/ FinishInMemory(p) /\ Move(e, "done")
    /\ UNCHANGED date

\* task_finished: the DECR, of the day the GET was made on.
FinishDecr(e, p) ==
    /\ errand[e].at = "read"
    /\ errand' = [errand EXCEPT ![e].at = "done"]
    /\ \/ /\ shared' = [shared EXCEPT ![errand[e].day].active = @ - 1]
          /\ UNCHANGED <<own, faults>>
       \/ FinishInMemory(p)
    /\ UNCHANGED date

\* Midnight, UTC.
Turn == date < LastDay /\ date' = date + 1 /\ UNCHANGED <<shared, own, errand, faults>>

QuotaNext ==
    \/ Turn
    \/ \E e \in Errands, p \in Processes :
          Require(e, p) \/ Started(e, p) \/ FinishRead(e, p) \/ FinishDecr(e, p)

QuotaSpec == QuotaInit /\ [][QuotaNext]_quotaVars

-----------------------------------------------------------------------------
(* Properties                                                              *)

\* As long as Redis answers, a tenant none of whose tasks runs is not held back
\* by a count left over: today's active_tasks is at most zero, whichever
\* processes ended its tasks at once and whichever tasks ran over midnight
\* (tenant_quota.py:238).  The count may be negative: tasks of yesterday that
\* end together after midnight are both taken off today's one.
NoGhostQuota ==
    (faults = 0 /\ \A e \in Errands : errand[e].at \notin {"running", "read"})
        => shared[date].active <= 0

=============================================================================
