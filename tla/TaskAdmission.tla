---------------------------- MODULE TaskAdmission ----------------------------
(***************************************************************************)
(* GraphRunner.start_task as seen by the threads that call it: the tenant  *)
(* quota, the graph execution pool with its condition variable, and the    *)
(* way back through the finally clauses.  A call ends in "ok" or "error";  *)
(* what the graph does in between is one step (RunLifecycle has the rest). *)
(* One tenant; quota counters kept in memory.  The lock of the pool makes  *)
(* each of the steps below atomic, sleeping in Condition.wait gives it up. *)
(***************************************************************************)
EXTENDS Naturals, FiniteSets

CONSTANTS
    Threads,          \* the threads that call start_task
    MaxConcurrent,    \* settings.GRAPH_RUNNER_MAX_CONCURRENT, at least 1
    HasDeadline,      \* settings.GRAPH_RUNNER_QUEUE_TIMEOUT_SEC > 0
    ConcurrentLimit,  \* settings.TENANT_MAX_CONCURRENT_TASKS; 0: no limit
    MaxFaults         \* bound: changes of the UTC day and saves that fail before the graph starts

ASSUME AdmissionAssumption ==
    /\ IsFiniteSet(Threads)
    /\ MaxConcurrent \in Nat \ {0}
    /\ HasDeadline \in BOOLEAN
    /\ ConcurrentLimit \in Nat
    /\ MaxFaults \in Nat

VARIABLES
    active,   \* GraphExecutionPool._active
    waiting,  \* GraphExecutionPool._waiting
    call,     \* where each thread is in its call
    usage,    \* _TenantUsage.active_tasks of the current day
    days,     \* number of changes of the day so far
    leaked    \* history: calls that lost their way between quota and try

poolVars == <<active, waiting>>
admissionVars == <<active, waiting, call, usage, days, leaked>>

\* "asleep" and "expired" threads are in Condition._waiters: one whose wait
\* timed out stays there until it has the lock back, and may be notified
\* in between, which makes it "late".
Phase ==
    {"out", "checked", "started", "asleep", "expired", "notified", "late", "running",
     "left_ok", "left_error", "ok", "error"}

In(phases) == {t \in Threads : call[t] \in phases}

Waiters == In({"asleep", "expired"})
Notified == In({"notified", "late"})
Holders == In({"running"})

\* Threads between task_started and task_finished.
Counted == In({"started", "asleep", "expired", "notified", "late",
               "running", "left_ok", "left_error"})

Set(t, phase) == call' = [call EXCEPT ![t] = phase]

AdmissionInit ==
    /\ active = 0
    /\ waiting = 0
    /\ call = [t \in Threads |-> "out"]
    /\ usage = 0
    /\ days = 0
    /\ leaked = 0

-----------------------------------------------------------------------------

\* start_task up to require_quota; the check and task_started are two
\* critical sections.  The call may also fail for the limit of the day, whose
\* counter is left out, or because the turn could not be prepared.
CheckQuota(t) ==
    /\ call[t] = "out"
    /\ \/ /\ ConcurrentLimit = 0 \/ usage + 1 <= ConcurrentLimit
          /\ Set(t, "checked")
       \/ Set(t, "error")
    /\ UNCHANGED <<poolVars, usage, days, leaked>>

\* task_started.
TaskStarted(t) ==
    /\ call[t] = "checked"
    /\ Set(t, "started")
    /\ usage' = usage + 1
    /\ UNCHANGED <<poolVars, days, leaked>>

\* The run is registered and saved outside of the try statement: when that
\* raises, task_finished is never called.
BeginFails(t) ==
    /\ call[t] = "started"
    /\ days + leaked < MaxFaults
    /\ Set(t, "error")
    /\ leaked' = leaked + 1
    /\ UNCHANGED <<poolVars, usage, days>>

\* Mutant of Enter: the comparison is off by one.
EnterOneMore(t) ==
    /\ call[t] = "started"
    /\ IF active <= MaxConcurrent
       THEN /\ Set(t, "running")
            /\ active' = active + 1
            /\ UNCHANGED waiting
       ELSE /\ Set(t, "asleep")
            /\ waiting' = waiting + 1
            /\ UNCHANGED active
    /\ UNCHANGED <<usage, days, leaked>>

\* acquire: take a slot that is free, else sleep; a thread whose time is up
\* before it has the lock is rejected.
Enter(t) ==
    /\ call[t] = "started"
    /\ \/ /\ active < MaxConcurrent
          /\ Set(t, "running")
          /\ active' = active + 1
          /\ UNCHANGED waiting
       \/ /\ active >= MaxConcurrent
          /\ Set(t, "asleep")
          /\ waiting' = waiting + 1
          /\ UNCHANGED active
       \/ /\ active >= MaxConcurrent /\ HasDeadline
          /\ Set(t, "left_error")
          /\ UNCHANGED poolVars
    /\ UNCHANGED <<usage, days, leaked>>

\* Condition.wait times out.
Expire(t) ==
    /\ call[t] = "asleep"
    /\ Set(t, "expired")
    /\ UNCHANGED <<poolVars, usage, days, leaked>>

\* A woken thread has the lock again: it takes a free slot even when its
\* time is up; else it is rejected at its deadline, or sleeps again.
Resume(t) ==
    /\ call[t] \in {"expired", "notified", "late"}
    /\ \/ /\ active < MaxConcurrent
          /\ Set(t, "running")
          /\ active' = active + 1
          /\ waiting' = waiting - 1
       \/ /\ active >= MaxConcurrent /\ HasDeadline
          /\ Set(t, "left_error")
          /\ waiting' = waiting - 1
          /\ UNCHANGED active
       \/ /\ active >= MaxConcurrent
          /\ call[t] = "notified" \/ ~ HasDeadline
          /\ Set(t, "asleep")
          /\ UNCHANGED poolVars
    /\ UNCHANGED <<usage, days, leaked>>

\* Mutant of Leave: the slot is given back, nobody is notified.
LeaveSilently(t) ==
    /\ call[t] = "running"
    /\ active' = active - 1
    /\ Set(t, "left_ok")
    /\ UNCHANGED <<waiting, usage, days, leaked>>

\* The graph returns or raises.  The finally clause of acquire gives the
\* slot back and notifies one waiter (the oldest; here any one).
Leave(t) ==
    /\ call[t] = "running"
    /\ active' = IF active > 0 THEN active - 1 ELSE 0
    /\ \E phase \in {"left_ok", "left_error"} :
          IF Waiters = {} THEN Set(t, phase)
          ELSE \E w \in Waiters :
                  call' = [call EXCEPT ![t] = phase,
                                       ![w] = IF @ = "asleep" THEN "notified" ELSE "late"]
    /\ UNCHANGED <<waiting, usage, days, leaked>>

\* task_finished, in the finally clause of start_task; what follows, the
\* finalization of the turn, may still raise.
Finish(t) ==
    /\ call[t] \in {"left_ok", "left_error"}
    /\ \/ Set(t, "error")
       \/ call[t] = "left_ok" /\ Set(t, "ok")
    /\ usage' = IF usage > 0 THEN usage - 1 ELSE 0
    /\ UNCHANGED <<poolVars, days, leaked>>

\* The counters belong to a day: the first access of a new day finds zeros.
NewDay ==
    /\ days + leaked < MaxFaults
    /\ days' = days + 1
    /\ usage' = 0
    /\ UNCHANGED <<poolVars, call, leaked>>

\* The thread of a request is free for the next one.
Return(t) ==
    /\ call[t] \in {"ok", "error"}
    /\ Set(t, "out")
    /\ UNCHANGED <<poolVars, usage, days, leaked>>

\* The steps of a call that is under way.
CallStep(t) ==
    \/ TaskStarted(t) \/ BeginFails(t) \/ Enter(t)
    \/ Expire(t) \/ Resume(t) \/ Leave(t) \/ Finish(t)

AdmissionNext ==
    \/ \E t \in Threads : CheckQuota(t) \/ CallStep(t) \/ Return(t)
    \/ NewDay

AdmissionSpec == AdmissionInit /\ [][AdmissionNext]_admissionVars

-----------------------------------------------------------------------------
(* Properties                                                              *)

AdmissionTypeOK ==
    /\ active \in Nat
    /\ waiting \in Nat
    /\ call \in [Threads -> Phase]
    /\ usage \in Nat
    /\ days \in 0 .. MaxFaults
    /\ leaked \in 0 .. MaxFaults

\* GraphExecutionPool: the counters that stats() reports are the threads
\* that hold a slot and the threads that wait for one, and no more graphs
\* run than the pool has slots, whatever way the threads came in.
PoolCounts ==
    /\ active = Cardinality(Holders)
    /\ active <= MaxConcurrent
    /\ waiting = Cardinality(Waiters \cup Notified)

\* No wake-up is lost: while a thread sleeps or has just timed out, every
\* free slot has a notified thread of its own on the way to it, although
\* new threads may overtake it (GraphExecutionPool.acquire).
NoLostWakeup ==
    Waiters # {} => MaxConcurrent - active <= Cardinality(Notified)

\* The tenant's place in the quota comes back: when no call is under way,
\* only calls that failed between task_started and the try statement of
\* start_task are still counted, also across midnight.
QuotaReturned ==
    Counted = {} => usage <= leaked

\* The parts that hold in every state.
AdmissionSound == AdmissionTypeOK /\ PoolCounts /\ NoLostWakeup /\ QuotaReturned

\* The pool of the requests that hold a slot and of those that wait for one.
Pool == INSTANCE SlotPool WITH
    Users <- Threads, Slots <- MaxConcurrent,
    free <- MaxConcurrent - active, holders <- Holders, wanting <- Waiters \cup Notified

\* GraphExecutionPool with its condition variable, deadlines, late
\* notifications and overtaking threads is a pool of slots: every step is one
\* of SlotPool or leaves it alone, so that no slot is held twice, lost or given
\* back twice (graph_execution_pool.py:55).
PoolIsSlotPool == Pool!SlotSpec
=============================================================================
