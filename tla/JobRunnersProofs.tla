-------------------------- MODULE JobRunnersProofs --------------------------
(***************************************************************************)
(* The pool, the quota and the job runners for any number of threads,      *)
(* entries and batches.                                                    *)
(*                                                                         *)
(* First the pool and the quota, TaskAdmission alone.  The argument is     *)
(* about numbers of threads per phase: Count(f, S) is how many threads f   *)
(* puts into a phase of S, a move of one thread changes it by at most one  *)
(* (CountMove), and every step of the pool is one or two such moves.       *)
(*                                                                         *)
(* Then the job runners: every step of JobRunners is a step of             *)
(* TaskAdmission, leaves it alone, or restarts the process, so what was    *)
(* shown of the pool is carried over.  The task queue and the batches have *)
(* invariants of their own.                                                *)
(***************************************************************************)
EXTENDS JobRunners, FiniteSetTheorems, TLAPS


Count(f, S) == Cardinality({t \in Threads : f[t] \in S})

\* From f to g only thread t has moved: what that does to the number of
\* threads in the phases S.
Moved(f, g, t, S) ==
    /\ f[t] \in S /\ g[t] \in S => Count(g, S) = Count(f, S)
    /\ f[t] \notin S /\ g[t] \notin S => Count(g, S) = Count(f, S)
    /\ f[t] \notin S /\ g[t] \in S => Count(g, S) = Count(f, S) + 1
    /\ f[t] \in S /\ g[t] \notin S => Count(f, S) = Count(g, S) + 1

\* The inductive invariant: PoolCounts, NoLostWakeup and QuotaReturned in
\* terms of Count.  NoLostWakeup and PoolCounts need each other, and the
\* quota is bounded by the calls that are counted in it.
CountInv ==
    /\ active = Count(call, {"running"})
    /\ active <= MaxConcurrent
    /\ waiting = Count(call, {"asleep", "expired", "notified", "late"})

WakeInv ==
    Count(call, {"asleep", "expired"}) > 0 =>
        MaxConcurrent <= active + Count(call, {"notified", "late"})

QuotaInv ==
    usage <= leaked + Count(call, {"started", "asleep", "expired", "notified", "late",
                                   "running", "left_ok", "left_error"})

IInv == AdmissionTypeOK /\ CountInv /\ WakeInv /\ QuotaInv

-----------------------------------------------------------------------------

\* A number of threads is a natural number.
LEMMA CountNat ==
  ASSUME NEW f, NEW S
  PROVE  /\ Count(f, S) \in Nat
         /\ Count(f, S) = 0 <=> {t \in Threads : f[t] \in S} = {}
<1> DEFINE X == {t \in Threads : f[t] \in S}
<1>1. IsFiniteSet(X)
  BY AdmissionAssumption, FS_Subset DEF AdmissionAssumption
<1> QED
  BY <1>1, FS_CardinalityType, FS_EmptySet DEF Count

\* When one thread goes to another phase, the number of threads in the
\* phases S changes by what that thread contributes.
LEMMA CountMove ==
  ASSUME NEW f \in [Threads -> Phase], NEW t \in Threads, NEW p \in Phase, NEW S
  PROVE  Moved(f, [f EXCEPT ![t] = p], t, S)
<1> DEFINE g == [f EXCEPT ![t] = p]
           X == {u \in Threads : f[u] \in S}
           Y == {u \in Threads : g[u] \in S}
<1>1. IsFiniteSet(X) /\ IsFiniteSet(Y)
  BY AdmissionAssumption, FS_Subset DEF AdmissionAssumption
<1>2. ASSUME (f[t] \in S) <=> (g[t] \in S) PROVE X = Y
  BY <1>2
<1>3. ASSUME f[t] \notin S, g[t] \in S PROVE Y = X \cup {t} /\ t \notin X
  BY <1>3
<1>4. ASSUME f[t] \in S, g[t] \notin S PROVE X = Y \cup {t} /\ t \notin Y
  BY <1>4
<1>5. Count(f, S) = Cardinality(X) /\ Count(g, S) = Cardinality(Y)
  BY DEF Count
<1> HIDE DEF X, Y, g
<1>6. /\ f[t] \notin S /\ g[t] \in S => Cardinality(Y) = Cardinality(X) + 1
      /\ f[t] \in S /\ g[t] \notin S => Cardinality(X) = Cardinality(Y) + 1
  BY <1>1, <1>3, <1>4, FS_AddElement
<1>7. Moved(f, g, t, S)
  BY <1>2, <1>5, <1>6 DEF Moved
<1> QED
  BY <1>7 DEF g

-----------------------------------------------------------------------------

LEMMA InitIInv == AdmissionInit => IInv
<1> SUFFICES ASSUME AdmissionInit PROVE IInv
  OBVIOUS
<1>1. AdmissionTypeOK
  BY AdmissionAssumption DEF AdmissionInit, AdmissionTypeOK, AdmissionAssumption, Phase
<1>2. \A S : "out" \notin S => Count(call, S) = 0
  BY CountNat DEF AdmissionInit
<1>3. /\ Count(call, {"running"}) = 0
      /\ Count(call, {"asleep", "expired", "notified", "late"}) = 0
      /\ Count(call, {"asleep", "expired"}) = 0
      /\ Count(call, {"started", "asleep", "expired", "notified", "late",
                      "running", "left_ok", "left_error"}) = 0
  BY <1>2
<1> QED
  BY <1>1, <1>3, AdmissionAssumption
     DEF IInv, CountInv, WakeInv, QuotaInv, AdmissionInit, AdmissionAssumption

\* Every step keeps the invariant.  In each case the numbers of threads
\* before and after are related by CountMove.
LEMMA StepIInv == IInv /\ [AdmissionNext]_admissionVars => IInv'
<1> SUFFICES ASSUME IInv, [AdmissionNext]_admissionVars PROVE IInv'
  OBVIOUS
<1> DEFINE R == {"running"}
           W == {"asleep", "expired", "notified", "late"}
           A == {"asleep", "expired"}
           N == {"notified", "late"}
           Q == {"started", "asleep", "expired", "notified", "late",
                 "running", "left_ok", "left_error"}
<1> USE AdmissionAssumption DEF AdmissionAssumption
<1>a. /\ call \in [Threads -> Phase]
      /\ active \in Nat /\ waiting \in Nat /\ usage \in Nat
      /\ days \in 0 .. MaxFaults /\ leaked \in 0 .. MaxFaults
  BY DEF IInv, AdmissionTypeOK
<1>b. /\ \A f, S : Count(f, S) \in Nat
      /\ \A S : Count(call, S) \in Nat
      /\ \A S : Count(call', S) \in Nat
  BY CountNat
<1>c. /\ active = Count(call, R) /\ active <= MaxConcurrent
      /\ waiting = Count(call, W)
      /\ Count(call, A) > 0 => MaxConcurrent <= active + Count(call, N)
      /\ usage <= leaked + Count(call, Q)
  BY DEF IInv, CountInv, WakeInv, QuotaInv
\* What remains to be shown of a step.
<1> DEFINE Goal ==
      /\ AdmissionTypeOK'
      /\ active' = Count(call', R) /\ active' <= MaxConcurrent
      /\ waiting' = Count(call', W)
      /\ Count(call', A) > 0 => MaxConcurrent <= active' + Count(call', N)
      /\ usage' <= leaked' + Count(call', Q)
<1>g. SUFFICES Goal
  BY DEF IInv, CountInv, WakeInv, QuotaInv
<1>m. ASSUME NEW t \in Threads, NEW p \in Phase, call' = [call EXCEPT ![t] = p]
      PROVE  /\ call' \in [Threads -> Phase] /\ call'[t] = p
             /\ Moved(call, call', t, R) /\ Moved(call, call', t, W)
             /\ Moved(call, call', t, A) /\ Moved(call, call', t, N)
             /\ Moved(call, call', t, Q)
  <2>1. \A S : Moved(call, [call EXCEPT ![t] = p], t, S)
    BY <1>a, CountMove
  <2>2. call' \in [Threads -> Phase] /\ call'[t] = p
    BY <1>a, <1>m
  <2> QED
    BY <1>m, <2>1, <2>2
<1>1. ASSUME NEW t \in Threads, CheckQuota(t) PROVE Goal
  <2>1. PICK p \in {"checked", "error"} : call' = [call EXCEPT ![t] = p]
    BY <1>1 DEF CheckQuota, Set
  <2> QED
    BY <1>1, <1>a, <1>b, <1>c, <1>m, <2>1 DEF CheckQuota, Moved, Phase, AdmissionTypeOK, poolVars
<1>2. ASSUME NEW t \in Threads, TaskStarted(t) PROVE Goal
  <2>1. /\ call' \in [Threads -> Phase]
        /\ Count(call', R) = Count(call, R)
        /\ Count(call', W) = Count(call, W)
        /\ Count(call', A) = Count(call, A)
        /\ Count(call', N) = Count(call, N)
        /\ Count(call', Q) = Count(call, Q) + 1
    BY <1>2, <1>a, <1>m DEF TaskStarted, Set, Moved, Phase
  <2> QED
    BY <1>2, <1>a, <1>b, <1>c, <2>1 DEF TaskStarted, AdmissionTypeOK, poolVars
<1>3. ASSUME NEW t \in Threads, BeginFails(t) PROVE Goal
  <2>1. /\ call' \in [Threads -> Phase]
        /\ Count(call', R) = Count(call, R)
        /\ Count(call', W) = Count(call, W)
        /\ Count(call', A) = Count(call, A)
        /\ Count(call', N) = Count(call, N)
        /\ Count(call, Q) = Count(call', Q) + 1
    BY <1>3, <1>a, <1>m DEF BeginFails, Set, Moved, Phase
  <2> QED
    BY <1>3, <1>a, <1>b, <1>c, <2>1 DEF BeginFails, AdmissionTypeOK, poolVars
<1>4. ASSUME NEW t \in Threads, Enter(t) PROVE Goal
  BY <1>4, <1>a, <1>b, <1>c, <1>m DEF Enter, Set, Moved, Phase, AdmissionTypeOK, poolVars
<1>5. ASSUME NEW t \in Threads, Expire(t) PROVE Goal
  BY <1>5, <1>a, <1>b, <1>c, <1>m DEF Expire, Set, Moved, Phase, AdmissionTypeOK, poolVars
<1>6. ASSUME NEW t \in Threads, Resume(t) PROVE Goal
  BY <1>6, <1>a, <1>b, <1>c, <1>m DEF Resume, Set, Moved, Phase, AdmissionTypeOK, poolVars
<1>7. ASSUME NEW t \in Threads, Leave(t) PROVE Goal
  <2>1. PICK p \in {"left_ok", "left_error"} :
           IF Waiters = {} THEN Set(t, p)
           ELSE \E w \in Waiters :
                  call' = [call EXCEPT ![t] = p,
                                       ![w] = IF @ = "asleep" THEN "notified" ELSE "late"]
    BY <1>7 DEF Leave
  <2>2. active > 0
    BY <1>7, <1>a, <1>b, <1>c, CountNat DEF Leave
  <2>3. CASE Waiters = {}
    <3>1. call' = [call EXCEPT ![t] = p]
      BY <2>1, <2>3 DEF Set
    <3>2. Count(call, A) = 0
      BY <2>3, CountNat DEF Waiters, In
    <3>3. /\ call' \in [Threads -> Phase]
          /\ Count(call', W) = Count(call, W)
          /\ Count(call', A) = Count(call, A)
          /\ Count(call', N) = Count(call, N)
          /\ Count(call', Q) = Count(call, Q)
          /\ Count(call, R) = Count(call', R) + 1
      BY <1>7, <1>a, <1>m, <3>1 DEF Leave, Moved, Phase
    <3> QED
      BY <1>7, <1>a, <1>b, <1>c, <2>2, <3>2, <3>3 DEF Leave, AdmissionTypeOK
  <2>4. CASE Waiters # {}
    <3>1. PICK w \in Waiters :
             call' = [call EXCEPT ![t] = p,
                                  ![w] = IF @ = "asleep" THEN "notified" ELSE "late"]
      BY <2>1, <2>4
    <3> DEFINE g == [call EXCEPT ![t] = p]
    <3>2. w \in Threads /\ w # t /\ call[w] \in A /\ call[t] = "running"
      BY <1>7 DEF Waiters, In, Leave
    <3>3. PICK n \in {"notified", "late"} : call' = [g EXCEPT ![w] = n]
      BY <3>1, <3>2, <1>a
    <3>4. g \in [Threads -> Phase] /\ g[w] = call[w]
      BY <1>a, <3>2 DEF Phase
    <3>5. \A S : Moved(call, g, t, S)
      BY <1>a, CountMove DEF Phase
    <3>6. \A S : Moved(g, call', w, S)
      BY <3>2, <3>3, <3>4, CountMove DEF Phase
    <3>a. g[t] = p /\ call'[w] = n
      BY <1>a, <3>2, <3>3, <3>4
    <3>7. /\ Count(call, R) = Count(g, R) + 1 /\ Count(call', R) = Count(g, R)
          /\ Count(g, W) = Count(call, W) /\ Count(call', W) = Count(g, W)
          /\ Count(g, A) = Count(call, A) /\ Count(g, A) = Count(call', A) + 1
          /\ Count(g, N) = Count(call, N) /\ Count(call', N) = Count(g, N) + 1
          /\ Count(g, Q) = Count(call, Q) /\ Count(call', Q) = Count(g, Q)
      <4> HIDE DEF g
      <4> QED
        BY <3>2, <3>4, <3>5, <3>6, <3>a DEF Moved
    <3>8. call' \in [Threads -> Phase]
      BY <3>3, <3>4 DEF Phase
    <3> QED
      BY <1>7, <1>a, <1>b, <1>c, <2>2, <3>7, <3>8 DEF Leave, AdmissionTypeOK
  <2> QED
    BY <2>3, <2>4
<1>8. ASSUME NEW t \in Threads, Finish(t) PROVE Goal
  <2>1. PICK p \in {"ok", "error"} : call' = [call EXCEPT ![t] = p]
    BY <1>8 DEF Finish, Set
  <2>2. /\ call' \in [Threads -> Phase]
        /\ Count(call', R) = Count(call, R)
        /\ Count(call', W) = Count(call, W)
        /\ Count(call', A) = Count(call, A)
        /\ Count(call', N) = Count(call, N)
        /\ Count(call, Q) = Count(call', Q) + 1
    BY <1>8, <1>a, <1>m, <2>1 DEF Finish, Moved, Phase
  <2> QED
    BY <1>8, <1>a, <1>b, <1>c, <2>2 DEF Finish, AdmissionTypeOK, poolVars
<1>9. ASSUME NEW t \in Threads, Return(t) PROVE Goal
  BY <1>9, <1>a, <1>b, <1>c, <1>m DEF Return, Set, Moved, Phase, AdmissionTypeOK, poolVars
<1>10. CASE NewDay
  BY <1>10, <1>a, <1>b, <1>c DEF NewDay, AdmissionTypeOK, poolVars
<1>11. CASE UNCHANGED admissionVars
  BY <1>11, <1>a, <1>b, <1>c DEF admissionVars, AdmissionTypeOK
<1> QED
  BY <1>1, <1>2, <1>3, <1>4, <1>5, <1>6, <1>7, <1>8, <1>9, <1>10, <1>11
     DEF AdmissionNext, CallStep

\* The invariant implies the properties of TaskAdmission.
LEMMA IInvProperties == IInv => PoolCounts /\ NoLostWakeup /\ QuotaReturned
<1> SUFFICES ASSUME IInv PROVE PoolCounts /\ NoLostWakeup /\ QuotaReturned
  OBVIOUS
<1>1. /\ Holders = {t \in Threads : call[t] \in {"running"}}
      /\ Waiters = {t \in Threads : call[t] \in {"asleep", "expired"}}
      /\ Notified = {t \in Threads : call[t] \in {"notified", "late"}}
      /\ Waiters \cup Notified =
            {t \in Threads : call[t] \in {"asleep", "expired", "notified", "late"}}
      /\ Counted = {t \in Threads : call[t] \in
                       {"started", "asleep", "expired", "notified", "late",
                        "running", "left_ok", "left_error"}}
  BY DEF Holders, Waiters, Notified, Counted, In
<1>2. /\ Cardinality(Holders) = Count(call, {"running"})
      /\ Cardinality(Notified) = Count(call, {"notified", "late"})
      /\ Cardinality(Waiters \cup Notified)
            = Count(call, {"asleep", "expired", "notified", "late"})
      /\ Waiters # {} => Count(call, {"asleep", "expired"}) > 0
      /\ Counted = {} =>
            Count(call, {"started", "asleep", "expired", "notified", "late",
                         "running", "left_ok", "left_error"}) = 0
      /\ Count(call, {"notified", "late"}) \in Nat
  <2>1. \A S : /\ Count(call, S) \in Nat
               /\ Count(call, S) = Cardinality({t \in Threads : call[t] \in S})
               /\ Count(call, S) = 0 <=> {t \in Threads : call[t] \in S} = {}
    BY CountNat DEF Count
  <2> QED
    BY <1>1, <2>1
<1> QED
  BY <1>2, AdmissionAssumption
     DEF IInv, CountInv, WakeInv, QuotaInv, PoolCounts, NoLostWakeup, QuotaReturned,
         AdmissionTypeOK, AdmissionAssumption

\* GraphExecutionPool and MemoryQuotaBackend, for any number of threads: the
\* counters are right, the limit of the pool holds, no wake-up is lost and
\* the quota is given back.
THEOREM AdmissionCorrect ==
    AdmissionSpec => []AdmissionSound
<1>1. IInv => AdmissionSound
  BY IInvProperties DEF IInv, AdmissionSound
<1> QED
  BY <1>1, InitIInv, StepIInv, PTL DEF AdmissionSpec

-----------------------------------------------------------------------------
(* The pool as a pool of slots: Holders and the waiting threads change as  *)
(* in SlotPool, and MaxConcurrent - active follows the holders.            *)

LEMMA InitIsSlotInit == AdmissionInit => Pool!SlotInit
BY AdmissionAssumption
   DEF AdmissionInit, AdmissionAssumption, Pool!SlotInit, Holders, Waiters, Notified, In

\* Every step is a step of SlotPool or leaves the pool alone.
LEMMA StepIsSlotStep ==
    IInv /\ [AdmissionNext]_admissionVars => [Pool!SlotNext]_(Pool!slotVars)
<1> SUFFICES ASSUME IInv, [AdmissionNext]_admissionVars
             PROVE  [Pool!SlotNext]_(Pool!slotVars)
  OBVIOUS
<1> DEFINE Wanting == Waiters \cup Notified
<1> USE AdmissionAssumption DEF AdmissionAssumption
<1>1. /\ call \in [Threads -> Phase] /\ active \in Nat /\ active <= MaxConcurrent
      /\ \A t \in Threads : call[t] = "running" => active > 0
  <2>1. /\ call \in [Threads -> Phase] /\ active \in Nat /\ active <= MaxConcurrent
        /\ active = Cardinality({t \in Threads : call[t] = "running"})
    BY DEF IInv, AdmissionTypeOK, CountInv, Count
  <2>2. ASSUME NEW t \in Threads, call[t] = "running" PROVE active > 0
    <3>1. IsFiniteSet({u \in Threads : call[u] = "running"})
      BY FS_Subset
    <3> QED
      BY <2>1, <2>2, <3>1, FS_EmptySet
  <2> QED
    BY <2>1, <2>2
\* Holders, Wanting and active decide what a step is to SlotPool.
<1>2. /\ \A u \in Threads : u \in Holders <=> call[u] = "running"
      /\ \A u \in Threads : u \in Wanting <=>
             call[u] \in {"asleep", "expired", "notified", "late"}
  BY DEF Holders, Waiters, Notified, In
<1>3. ASSUME Holders' = Holders, Wanting' = Wanting, active' = active
      PROVE  UNCHANGED Pool!slotVars
  BY <1>3 DEF Pool!slotVars
<1>4. ASSUME NEW t \in Threads, t \notin Holders, active < MaxConcurrent, active' = active + 1,
             Holders' = Holders \cup {t}, Wanting' = Wanting \ {t}
      PROVE  Pool!SlotNext
  BY <1>1, <1>4 DEF Pool!SlotNext, Pool!Take
<1>5. ASSUME NEW t \in Threads, t \notin Holders \cup Wanting, active' = active,
             Holders' = Holders, Wanting' = Wanting \cup {t}
      PROVE  Pool!SlotNext
  BY <1>5 DEF Pool!SlotNext, Pool!Wait
<1>6. ASSUME NEW t \in Threads, t \in Wanting, active' = active,
             Holders' = Holders, Wanting' = Wanting \ {t}
      PROVE  Pool!SlotNext
  BY <1>6 DEF Pool!SlotNext, Pool!Abandon
<1>7. ASSUME NEW t \in Threads, t \in Holders, active' = active - 1,
             Holders' = Holders \ {t}, Wanting' = Wanting
      PROVE  Pool!SlotNext
  BY <1>1, <1>7 DEF Pool!SlotNext, Pool!GiveBack
\* A step that keeps every thread on its side of the pool.
<1>8. ASSUME NEW t \in Threads, NEW p, Set(t, p), active' = active,
             call[t] = "running" <=> p = "running",
             call[t] \in {"asleep", "expired", "notified", "late"}
                <=> p \in {"asleep", "expired", "notified", "late"}
      PROVE  UNCHANGED Pool!slotVars
  <2>1. Holders' = Holders /\ Wanting' = Wanting
    BY <1>1, <1>8 DEF Set, Holders, Waiters, Notified, In
  <2> QED
    BY <2>1, <1>3, <1>8
<1>9. ASSUME NEW t \in Threads, CheckQuota(t) \/ CallStep(t) \/ Return(t)
      PROVE  [Pool!SlotNext]_(Pool!slotVars)
  <2>1. CASE CheckQuota(t)
    BY <2>1, <1>8 DEF CheckQuota, poolVars
  <2>2. CASE TaskStarted(t)
    BY <2>2, <1>8 DEF TaskStarted, poolVars
  <2>3. CASE BeginFails(t)
    BY <2>3, <1>8 DEF BeginFails, poolVars
  <2>4. CASE Enter(t)
    <3>1. CASE active < MaxConcurrent /\ Set(t, "running") /\ active' = active + 1
      <4>1. /\ t \notin Holders /\ Holders' = Holders \cup {t}
            /\ Wanting' = Wanting \ {t}
        BY <1>1, <2>4, <3>1 DEF Enter, Set, Holders, Waiters, Notified, In
      <4> QED
        BY <3>1, <4>1, <1>4
    <3>2. CASE Set(t, "asleep") /\ active' = active
      <4>1. /\ t \notin Holders \cup Wanting /\ Holders' = Holders
            /\ Wanting' = Wanting \cup {t}
        BY <1>1, <2>4, <3>2 DEF Enter, Set, Holders, Waiters, Notified, In
      <4> QED
        BY <3>2, <4>1, <1>5
    <3>3. CASE Set(t, "left_error") /\ active' = active
      BY <2>4, <3>3, <1>8 DEF Enter
    <3> QED
      BY <2>4, <3>1, <3>2, <3>3 DEF Enter, poolVars
  <2>5. CASE Expire(t)
    BY <2>5, <1>8 DEF Expire, poolVars
  <2>6. CASE Resume(t)
    <3>1. CASE active < MaxConcurrent /\ Set(t, "running") /\ active' = active + 1
      <4>1. /\ t \notin Holders /\ Holders' = Holders \cup {t}
            /\ Wanting' = Wanting \ {t}
        BY <1>1, <2>6, <3>1 DEF Resume, Set, Holders, Waiters, Notified, In
      <4> QED
        BY <3>1, <4>1, <1>4
    <3>2. CASE Set(t, "left_error") /\ active' = active
      <4>1. /\ t \in Wanting /\ Holders' = Holders
            /\ Wanting' = Wanting \ {t}
        BY <1>1, <2>6, <3>2 DEF Resume, Set, Holders, Waiters, Notified, In
      <4> QED
        BY <3>2, <4>1, <1>6
    <3>3. CASE Set(t, "asleep") /\ active' = active
      BY <2>6, <3>3, <1>8 DEF Resume
    <3> QED
      BY <2>6, <3>1, <3>2, <3>3 DEF Resume, poolVars
  <2>7. CASE Leave(t)
    <3>1. t \in Holders /\ active' = active - 1
      BY <1>1, <1>2, <2>7 DEF Leave
    <3>2. Holders' = Holders \ {t} /\ Wanting' = Wanting
      <4>1. ASSUME NEW phase \in {"left_ok", "left_error"}, Set(t, phase)
            PROVE  Holders' = Holders \ {t} /\ Wanting' = Wanting
        BY <1>1, <2>7, <4>1 DEF Leave, Set, Holders, Waiters, Notified, In
      <4>2. ASSUME NEW phase \in {"left_ok", "left_error"}, NEW w \in Waiters,
                   call' = [call EXCEPT ![t] = phase,
                                        ![w] = IF @ = "asleep" THEN "notified" ELSE "late"]
            PROVE  Holders' = Holders \ {t} /\ Wanting' = Wanting
        BY <1>1, <2>7, <4>2 DEF Leave, Holders, Waiters, Notified, In
      <4> QED
        BY <2>7, <4>1, <4>2 DEF Leave
    <3> QED
      BY <3>1, <3>2, <1>7
  <2>8. CASE Finish(t)
    BY <2>8, <1>8 DEF Finish, poolVars
  <2>9. CASE Return(t)
    BY <2>9, <1>8 DEF Return, poolVars
  <2> QED
    BY <1>9, <2>1, <2>2, <2>3, <2>4, <2>5, <2>6, <2>7, <2>8, <2>9 DEF CallStep
<1>10. ASSUME NewDay \/ UNCHANGED admissionVars PROVE UNCHANGED Pool!slotVars
  <2>1. call' = call /\ active' = active
    BY <1>10 DEF NewDay, poolVars, admissionVars
  <2> QED
    BY <2>1, <1>3 DEF Holders, Waiters, Notified, In
<1> QED
  BY <1>9, <1>10 DEF AdmissionNext

\* GraphExecutionPool is a pool of slots, for any number of threads and slots:
\* a slot is taken only when one is free, by a thread that has none, and given
\* back once, through every wait, timeout, late notification and overtaking.
THEOREM AdmissionImplementsSlotPool == AdmissionSpec => PoolIsSlotPool
BY InitIInv, StepIInv, InitIsSlotInit, StepIsSlotStep, PTL
   DEF AdmissionSpec, PoolIsSlotPool, Pool!SlotSpec

-----------------------------------------------------------------------------
(* The job runners                                                         *)


\* The rows of the queue and what the pollers know of them.
QueueTypeOK ==
    /\ item \in [Items -> {"NONE", "PENDING", "RUNNING", "COMPLETED", "FAILED"}]
    /\ poller \in [Pollers -> [step : {"idle", "selected", "claimed", "calling"},
                               item : Items \cup {"none"}]]
    /\ \A p \in Pollers : poller[p].step # "idle" <=> poller[p].item \in Items
    /\ runs \in [Items -> Nat]
    /\ crashes \in Nat

\* With one poller its knowledge is never stale: the entry it has selected is
\* still pending, and the one it has claimed was not executed before.
PollerInv ==
    /\ \A i \in Items : runs[i] <= 1
    /\ \A i \in Items : item[i] \in {"NONE", "PENDING"} => runs[i] = 0
    /\ \A p \in Pollers : poller[p].step = "selected" => item[poller[p].item] = "PENDING"
    /\ \A p \in Pollers : poller[p].step = "claimed" =>
          item[poller[p].item] = "RUNNING" /\ runs[poller[p].item] = 0

SinglePoller == \A p, q \in Pollers : p = q

-----------------------------------------------------------------------------
(* The pool and the quota                                                  *)

\* A process that starts again has an empty pool and an empty quota.
LEMMA CrashIInv == IInv /\ Crash => IInv'
<1> SUFFICES ASSUME IInv, Crash PROVE IInv'
  OBVIOUS
<1>1. AdmissionTypeOK'
  BY AdmissionAssumption
     DEF IInv, Crash, AdmissionTypeOK, AdmissionAssumption, Phase
<1>2. \A S : "out" \notin S => Count(call', S) = 0
  <2>1. call' = [t \in Threads |-> "out"]
    BY DEF Crash
  <2> QED
    BY <2>1, CountNat
<1>3. /\ Count(call', {"running"}) = 0
      /\ Count(call', {"asleep", "expired", "notified", "late"}) = 0
      /\ Count(call', {"asleep", "expired"}) = 0
      /\ Count(call', {"started", "asleep", "expired", "notified", "late",
                       "running", "left_ok", "left_error"}) = 0
  BY <1>2
<1> QED
  BY <1>1, <1>3, AdmissionAssumption
     DEF IInv, CountInv, WakeInv, QuotaInv, Crash, AdmissionAssumption

\* The steps of the job runners, as TaskAdmission sees them.
LEMMA StepIsAdmission == Next => [AdmissionNext]_admissionVars \/ Crash
<1> SUFFICES ASSUME Next PROVE [AdmissionNext]_admissionVars \/ Crash
  OBVIOUS
<1> USE JobAssumption DEF JobAssumption
<1>1. ASSUME NEW t \in Threads, CheckQuota(t) \/ CallStep(t) \/ Return(t) PROVE AdmissionNext
  BY <1>1 DEF AdmissionNext
<1>2. ASSUME NEW i \in Items, Enqueue(i) PROVE UNCHANGED admissionVars
  BY <1>2 DEF Enqueue
<1>3. ASSUME NEW p \in Pollers, PollerStep(p) PROVE [AdmissionNext]_admissionVars
  BY <1>1, <1>3 DEF PollerStep, Select, Claim, PollerStarts, PollerMarks
<1>4. ASSUME NEW b \in Batches, Submit(b) PROVE UNCHANGED admissionVars
  BY <1>4 DEF Submit
<1>5. ASSUME NEW w \in Workers, WorkerStep(w) PROVE [AdmissionNext]_admissionVars
  BY <1>1, <1>5
     DEF WorkerStep, Take, ItemRefused, ItemStarts, ItemEnds, BatchEnd, BatchRaises
<1>6. ASSUME NEW t \in Clients, Request(t) PROVE AdmissionNext
  BY <1>1, <1>6 DEF Request
<1>7. ASSUME NEW t \in Threads, InCall(t) PROVE AdmissionNext
  BY <1>1, <1>7 DEF InCall
<1>8. ASSUME Midnight PROVE AdmissionNext
  BY <1>8 DEF Midnight, AdmissionNext
<1> QED
  BY <1>2, <1>3, <1>4, <1>5, <1>6, <1>7, <1>8 DEF Next

\* GraphExecutionPool and MemoryQuotaBackend under the poller, the batch
\* workers and the requests of one process that may restart.
THEOREM JobAdmissionCorrect == Spec => []AdmissionSound
<1>1. Init => IInv
  BY InitIInv DEF Init
<1>2. IInv /\ [Next]_vars => IInv'
  <2>1. ASSUME IInv, Next PROVE IInv'
    BY <2>1, StepIsAdmission, StepIInv, CrashIInv
  <2>2. ASSUME IInv, UNCHANGED vars PROVE IInv'
    <3>1. UNCHANGED admissionVars
      BY <2>2 DEF vars, admissionVars
    <3> QED
      BY <2>2, <3>1, StepIInv
  <2> QED
    BY <2>1, <2>2
<1>3. IInv => AdmissionSound
  BY IInvProperties DEF IInv, AdmissionSound
<1> QED
  BY <1>1, <1>2, <1>3, PTL DEF Spec

\* The pool stays a pool of slots with them, a restart included: the process
\* that starts again has all its slots and no thread that waits.
THEOREM JobsImplementSlotPool == Spec => PoolIsSlotPool
<1>1. Init => IInv /\ Pool!SlotInit
  BY InitIInv, InitIsSlotInit DEF Init
<1>2. Spec => []IInv
  <2>1. IInv /\ [Next]_vars => IInv'
    BY StepIsAdmission, StepIInv, CrashIInv DEF vars, admissionVars
  <2> QED
    BY <1>1, <2>1, PTL DEF Spec
<1>3. Crash => Pool!Restart
  BY AdmissionAssumption
     DEF Crash, AdmissionAssumption, Pool!Restart, Holders, Waiters, Notified, In
<1>4. IInv /\ [Next]_vars => [Pool!SlotNext]_(Pool!slotVars)
  <2> SUFFICES ASSUME IInv, [Next]_vars PROVE [Pool!SlotNext]_(Pool!slotVars)
    OBVIOUS
  <2>1. CASE Crash
    BY <2>1, <1>3 DEF Pool!SlotNext
  <2>2. CASE [AdmissionNext]_admissionVars
    BY <2>2, StepIsSlotStep
  <2>3. CASE UNCHANGED vars
    <3>1. UNCHANGED admissionVars
      BY <2>3 DEF vars, admissionVars
    <3> QED
      BY <3>1, <2>2
  <2> QED
    BY <2>1, <2>2, <2>3, StepIsAdmission
<1> QED
  BY <1>1, <1>2, <1>4, PTL DEF Spec, PoolIsSlotPool, Pool!SlotSpec

-----------------------------------------------------------------------------
(* The task queue                                                          *)

\* Only these steps touch the queue.
LEMMA QueueSteps ==
    [Next]_vars =>
        \/ \E i \in Items : Enqueue(i)
        \/ \E p \in Pollers : PollerStep(p)
        \/ Crash
        \/ UNCHANGED <<queueVars, crashes>>
<1> SUFFICES ASSUME [Next]_vars
             PROVE  \/ \E i \in Items : Enqueue(i)
                    \/ \E p \in Pollers : PollerStep(p)
                    \/ Crash
                    \/ UNCHANGED <<queueVars, crashes>>
  OBVIOUS
<1>1. ASSUME NEW b \in Batches, Submit(b) PROVE UNCHANGED <<queueVars, crashes>>
  BY <1>1 DEF Submit
<1>2. ASSUME NEW w \in Workers, WorkerStep(w) PROVE UNCHANGED <<queueVars, crashes>>
  BY <1>2 DEF WorkerStep, Take, ItemRefused, ItemStarts, ItemEnds, BatchEnd, BatchRaises
<1>3. ASSUME NEW t, Request(t) \/ InCall(t) PROVE UNCHANGED <<queueVars, crashes>>
  BY <1>3 DEF Request, InCall
<1>4. ASSUME Midnight PROVE UNCHANGED <<queueVars, crashes>>
  BY <1>4 DEF Midnight
<1>5. ASSUME UNCHANGED vars PROVE UNCHANGED <<queueVars, crashes>>
  BY <1>5 DEF vars, queueVars
<1> QED
  BY <1>1, <1>2, <1>3, <1>4, <1>5 DEF Next

LEMMA QueueInit == Init => QueueTypeOK /\ RunningHasPoller /\ PollerInv
BY JobAssumption DEF JobAssumption, Init, QueueTypeOK, RunningHasPoller, PollerInv, NoItem

LEMMA QueueType == QueueTypeOK /\ [Next]_vars => QueueTypeOK'
<1> SUFFICES ASSUME QueueTypeOK, [Next]_vars PROVE QueueTypeOK'
  OBVIOUS
<1> USE JobAssumption DEF JobAssumption, QueueTypeOK, NoItem
<1>1. ASSUME NEW i \in Items, Enqueue(i) PROVE QueueTypeOK'
  BY <1>1 DEF Enqueue
<1>2. ASSUME NEW p \in Pollers, PollerStep(p) PROVE QueueTypeOK'
  <2>1. ASSUME NEW i \in Items, Select(p, i) PROVE QueueTypeOK'
    BY <2>1 DEF Select
  <2>2. ASSUME Claim(p) PROVE QueueTypeOK'
    BY <2>2 DEF Claim
  <2>3. ASSUME PollerStarts(p) PROVE QueueTypeOK'
    BY <2>3 DEF PollerStarts
  <2>4. ASSUME PollerMarks(p) PROVE QueueTypeOK'
    BY <2>4 DEF PollerMarks
  <2> QED
    BY <1>2, <2>1, <2>2, <2>3, <2>4 DEF PollerStep
<1>3. ASSUME Crash PROVE QueueTypeOK'
  BY <1>3 DEF Crash
<1>4. ASSUME UNCHANGED <<queueVars, crashes>> PROVE QueueTypeOK'
  BY <1>4 DEF queueVars
<1> QED
  BY <1>1, <1>2, <1>3, <1>4, QueueSteps

\* No entry of the queue is left RUNNING without a poller that works on it,
\* unless a process died (TaskQueueStore and SchedulerService), for any
\* number of pollers.
THEOREM RunningHasPollerHolds == Spec => []RunningHasPoller
<1>1. QueueTypeOK /\ RunningHasPoller /\ [Next]_vars => RunningHasPoller'
  <2> SUFFICES ASSUME QueueTypeOK, RunningHasPoller, [Next]_vars, crashes' = 0,
                      NEW j \in Items, item'[j] = "RUNNING"
               PROVE  \E q \in Pollers : poller'[q].item = j
    BY DEF RunningHasPoller
  <2> USE DEF QueueTypeOK, RunningHasPoller, NoItem
  <2>1. ASSUME NEW i \in Items, Enqueue(i) PROVE \E q \in Pollers : poller'[q].item = j
    BY <2>1 DEF Enqueue
  <2>2. ASSUME NEW p \in Pollers, PollerStep(p)
        PROVE  \E q \in Pollers : poller'[q].item = j
    <3>1. ASSUME NEW i \in Items, Select(p, i) PROVE \E q \in Pollers : poller'[q].item = j
      <4>1. PICK q \in Pollers : poller[q].item = j
        BY <3>1 DEF Select
      <4>2. q # p \/ poller[p].step = "idle"
        BY <3>1 DEF Select
      <4> QED
        BY <3>1, <4>1, <4>2 DEF Select
    <3>2. ASSUME Claim(p) PROVE \E q \in Pollers : poller'[q].item = j
      BY <3>2 DEF Claim
    <3>3. ASSUME PollerStarts(p) PROVE \E q \in Pollers : poller'[q].item = j
      BY <3>3 DEF PollerStarts
    <3>4. ASSUME PollerMarks(p) PROVE \E q \in Pollers : poller'[q].item = j
      BY <3>4 DEF PollerMarks
    <3> QED
      BY <2>2, <3>1, <3>2, <3>3, <3>4 DEF PollerStep
  <2>3. ASSUME Crash PROVE FALSE
    BY <2>3 DEF Crash
  <2>4. ASSUME UNCHANGED <<queueVars, crashes>>
        PROVE  \E q \in Pollers : poller'[q].item = j
    BY <2>4 DEF queueVars
  <2> QED
    BY <2>1, <2>2, <2>3, <2>4, QueueSteps
<1> QED
  BY <1>1, QueueInit, QueueType, PTL DEF Spec

\* With one poller, which is what APScheduler runs in a process, no entry is
\* executed twice, whatever crashes: dequeue_next never returns an entry
\* that it has not really claimed.
THEOREM OncePerEntryHolds == SinglePoller => (Spec => []OncePerEntry)
<1>1. QueueTypeOK /\ PollerInv /\ SinglePoller /\ [Next]_vars => PollerInv'
  <2> SUFFICES ASSUME QueueTypeOK, PollerInv, SinglePoller, [Next]_vars PROVE PollerInv'
    OBVIOUS
  <2> USE DEF QueueTypeOK, PollerInv, SinglePoller, NoItem
  <2>1. ASSUME NEW i \in Items, Enqueue(i) PROVE PollerInv'
    BY <2>1 DEF Enqueue
  <2>2. ASSUME NEW p \in Pollers, PollerStep(p) PROVE PollerInv'
    <3>1. ASSUME NEW i \in Items, Select(p, i) PROVE PollerInv'
      BY <3>1 DEF Select
    <3>2. ASSUME Claim(p) PROVE PollerInv'
      BY <3>2 DEF Claim
    <3>3. ASSUME PollerStarts(p) PROVE PollerInv'
      BY <3>3 DEF PollerStarts
    <3>4. ASSUME PollerMarks(p) PROVE PollerInv'
      BY <3>4 DEF PollerMarks
    <3> QED
      BY <2>2, <3>1, <3>2, <3>3, <3>4 DEF PollerStep
  <2>3. ASSUME Crash PROVE PollerInv'
    BY <2>3 DEF Crash
  <2>4. ASSUME UNCHANGED <<queueVars, crashes>> PROVE PollerInv'
    BY <2>4 DEF queueVars
  <2> QED
    BY <2>1, <2>2, <2>3, <2>4, QueueSteps
<1>2. PollerInv => OncePerEntry
  BY DEF PollerInv, OncePerEntry
<1>3. SUFFICES ASSUME SinglePoller PROVE Spec => []OncePerEntry
  OBVIOUS
<1>4. QueueTypeOK /\ PollerInv /\ [Next]_vars => PollerInv'
  BY <1>1, <1>3
<1> QED
  BY <1>2, <1>4, QueueInit, QueueType, PTL DEF Spec

\* Both at once, for the single poller of one process.
THEOREM QueueCorrect == SinglePoller => (Spec => []QueueSound)
<1>1. RunningHasPoller /\ OncePerEntry => QueueSound
  BY DEF QueueSound
<1> QED
  BY <1>1, RunningHasPollerHolds, OncePerEntryHolds, PTL

-----------------------------------------------------------------------------
(* Batches                                                                 *)

\* The rows of the batches, the executor and its futures.
BatchTypeOK ==
    /\ batch \in [Batches -> {"NONE", "PENDING", "RUNNING", "COMPLETED", "FAILED", "PARTIAL"}]
    /\ entry \in [Batches -> [Positions -> {"PENDING", "COMPLETED", "FAILED"}]]
    /\ jobs \in Seq(Jobs)
    /\ worker \in [Workers -> Jobs \cup {NoJob}]
    /\ future \in [Batches -> [Positions -> {"none", "waiting", "done", "raised"}]]
    /\ crashes \in 0 .. MaxCrashes

\* Every job is in one place: once in the queue of the executor, or with one
\* worker.
UniqueJobs ==
    /\ \A m, n \in 1 .. Len(jobs) : jobs[m] = jobs[n] => m = n
    /\ \A m \in 1 .. Len(jobs), w \in Workers : worker[w] # jobs[m]
    /\ \A v, w \in Workers : worker[v] = worker[w] /\ worker[v] # NoJob => v = w

\* What a future says of the row of its item and of the batch.
FutureInv ==
    \A b \in Batches, k \in Positions :
        /\ future[b][k] = "waiting" => batch[b] = "RUNNING" /\ entry[b][k] = "PENDING"
        /\ future[b][k] = "done" => entry[b][k] # "PENDING"
        /\ future[b][k] # "none" => batch[b] \notin {"NONE", "PENDING"}

\* A job that has not been taken: its batch is pending, its future waits.
Untaken(j) ==
    /\ j.pos = 0 => batch[j.batch] = "PENDING"
    /\ j.pos # 0 => future[j.batch][j.pos] = "waiting"

\* A job at which a worker is: whoever coordinates a batch has a future of every
\* item that is pending.
Taken(j) ==
    /\ j.pos = 0 =>
          /\ batch[j.batch] = "RUNNING"
          /\ \A k \in Positions : future[j.batch][k] = "none" => entry[j.batch][k] # "PENDING"
    /\ j.pos # 0 => future[j.batch][j.pos] = "waiting"

JobInv ==
    /\ \A n \in 1 .. Len(jobs) : Untaken(jobs[n])
    /\ \A w \in Workers : worker[w] # NoJob => Taken(worker[w])

BatchInv == BatchTypeOK /\ UniqueJobs /\ FutureInv /\ JobInv /\ BatchTruthful

\* A worker records the outcome of an item.
RecordStep(w) ==
    /\ worker[w].pos # 0
    /\ \E ok \in BOOLEAN : Record(w, ok)
    /\ UNCHANGED crashes

\* Only these steps touch the batches.
LEMMA BatchSteps ==
    [Next]_vars =>
        \/ \E b \in Batches : Submit(b)
        \/ \E w \in Workers : Take(w) \/ RecordStep(w) \/ BatchEnd(w) \/ BatchRaises(w)
        \/ Crash
        \/ UNCHANGED <<batchVars, crashes>>
<1> SUFFICES ASSUME [Next]_vars
             PROVE  \/ \E b \in Batches : Submit(b)
                    \/ \E w \in Workers : Take(w) \/ RecordStep(w) \/ BatchEnd(w) \/ BatchRaises(w)
                    \/ Crash
                    \/ UNCHANGED <<batchVars, crashes>>
  OBVIOUS
<1>1. ASSUME NEW i \in Items, Enqueue(i) PROVE UNCHANGED <<batchVars, crashes>>
  BY <1>1 DEF Enqueue
<1>2. ASSUME NEW p \in Pollers, PollerStep(p) PROVE UNCHANGED <<batchVars, crashes>>
  BY <1>2 DEF PollerStep, Select, Claim, PollerStarts, PollerMarks
<1>3. ASSUME NEW w \in Workers, ItemRefused(w) PROVE RecordStep(w)
  BY <1>3 DEF ItemRefused, RecordStep
<1>4. ASSUME NEW w \in Workers, ItemEnds(w) PROVE RecordStep(w)
  <2>1. (call[w] = "ok") \in BOOLEAN
    OBVIOUS
  <2> QED
    BY <1>4, <2>1 DEF ItemEnds, RecordStep
<1>5. ASSUME NEW w \in Workers, ItemStarts(w) PROVE UNCHANGED <<batchVars, crashes>>
  BY <1>5 DEF ItemStarts
<1>6. ASSUME NEW t, Request(t) \/ InCall(t) PROVE UNCHANGED <<batchVars, crashes>>
  BY <1>6 DEF Request, InCall
<1>7. ASSUME Midnight PROVE UNCHANGED <<batchVars, crashes>>
  BY <1>7 DEF Midnight
<1>8. ASSUME UNCHANGED vars PROVE UNCHANGED <<batchVars, crashes>>
  BY <1>8 DEF vars, batchVars
<1> QED
  BY <1>1, <1>2, <1>3, <1>4, <1>5, <1>6, <1>7, <1>8 DEF Next, WorkerStep

\* No job is NoJob.
LEMMA JobFacts ==
  /\ NoJob \notin Jobs
  /\ \A j \in Jobs : j.batch \in Batches /\ j.pos \in Nat /\ (j.pos # 0 => j.pos \in Positions)
  /\ \A j \in Jobs : j = [batch |-> j.batch, pos |-> j.pos]
  /\ \A b \in Batches, k \in Positions \cup {0} : [batch |-> b, pos |-> k] \in Jobs
  /\ NoJob.pos = 0
  /\ \A b \in Batches : b # NoJob.batch
BY JobAssumption DEF JobAssumption, Jobs, NoJob, Positions

\* create_batch and submit_batch.
LEMMA BatchSubmit ==
  ASSUME BatchInv, NEW b \in Batches, Submit(b)
  PROVE  BatchInv'
<1> DEFINE j == [batch |-> b, pos |-> 0]
<1>0. BatchTypeOK /\ UniqueJobs /\ FutureInv /\ JobInv /\ BatchTruthful
  BY DEF BatchInv
<1>1. /\ batch[b] = "NONE" /\ batch' = [batch EXCEPT ![b] = "PENDING"]
      /\ jobs' = Append(jobs, j) /\ UNCHANGED <<entry, worker, future, crashes>>
  BY DEF Submit
<1>2. j \in Jobs /\ j.batch = b /\ j.pos = 0
  BY JobFacts
<1> HIDE DEF j
<1>3. BatchTypeOK'
  BY <1>0, <1>1, <1>2 DEF BatchTypeOK
<1>4. /\ Len(jobs') = Len(jobs) + 1 /\ Len(jobs) \in Nat /\ jobs'[Len(jobs) + 1] = j
      /\ \A n \in 1 .. Len(jobs) : jobs'[n] = jobs[n] /\ jobs[n] \in Jobs
  BY <1>0, <1>1, <1>2 DEF BatchTypeOK
<1>5. \A n \in 1 .. Len(jobs) : jobs[n] # j
  BY <1>0, <1>1, <1>2 DEF JobInv, Untaken
<1>6. \A w \in Workers : worker[w] # j
  BY <1>0, <1>1, <1>2, JobFacts DEF JobInv, Taken
<1>7. UniqueJobs'
  BY <1>0, <1>1, <1>4, <1>5, <1>6 DEF UniqueJobs
<1>8. FutureInv'
  BY <1>0, <1>1 DEF BatchTypeOK, FutureInv
<1>9. \A x \in Jobs : /\ Untaken(x) => Untaken(x)'
                      /\ Taken(x) => Taken(x)'
  BY <1>0, <1>1 DEF BatchTypeOK, Untaken, Taken
<1>10. Untaken(j)'
  BY <1>0, <1>1, <1>2 DEF BatchTypeOK, Untaken
<1>11. JobInv'
  <2>1. \A n \in 1 .. Len(jobs') : Untaken(jobs[n])'
    BY <1>0, <1>4, <1>9, <1>10 DEF JobInv, Untaken
  <2>2. \A w \in Workers : worker'[w] # NoJob => Taken(worker[w])'
    BY <1>0, <1>1, <1>9, JobFacts DEF JobInv, Taken, BatchTypeOK
  <2> QED
    BY <2>1, <2>2 DEF JobInv
<1>12. BatchTruthful'
  BY <1>0, <1>1 DEF BatchTypeOK, BatchTruthful
<1> QED
  BY <1>3, <1>7, <1>8, <1>11, <1>12 DEF BatchInv

\* A worker takes an item of a batch.
LEMMA BatchTakeItem ==
  ASSUME BatchInv, NEW w \in Workers, Take(w), Head(jobs).pos # 0
  PROVE  BatchInv'
<1> DEFINE j == Head(jobs)
<1>0. BatchTypeOK /\ UniqueJobs /\ FutureInv /\ JobInv /\ BatchTruthful
  BY DEF BatchInv
<1>1. /\ worker[w] = NoJob /\ jobs # <<>> /\ worker' = [worker EXCEPT ![w] = j]
      /\ jobs' = Tail(jobs) /\ UNCHANGED <<batch, future, entry, crashes>>
  BY DEF Take
<1>2. /\ j \in Jobs /\ j = jobs[1] /\ Len(jobs) \in Nat /\ Len(jobs) > 0
      /\ Tail(jobs) \in Seq(Jobs) /\ Len(Tail(jobs)) = Len(jobs) - 1
      /\ \A n \in 1 .. Len(jobs) - 1 : Tail(jobs)[n] = jobs[n + 1]
  BY <1>0, <1>1 DEF BatchTypeOK
<1>3. j # NoJob /\ j.pos # 0
  BY <1>2, JobFacts
<1> HIDE DEF j
<1>4. BatchTypeOK'
  BY <1>0, <1>1, <1>2 DEF BatchTypeOK
<1>5. UniqueJobs'
  <2>1. \A m, n \in 1 .. Len(jobs') : jobs'[m] = jobs'[n] => m = n
    BY <1>0, <1>1, <1>2 DEF UniqueJobs
  <2>2. \A n \in 1 .. Len(jobs') : jobs'[n] # j
    BY <1>0, <1>1, <1>2 DEF UniqueJobs
  <2>3. \A n \in 1 .. Len(jobs'), v \in Workers : worker'[v] # jobs'[n]
    BY <1>0, <1>1, <1>2, <2>2 DEF UniqueJobs, BatchTypeOK
  <2>4. \A v \in Workers : worker[v] # j
    BY <1>0, <1>2 DEF UniqueJobs
  <2>5. \A u, v \in Workers : worker'[u] = worker'[v] /\ worker'[u] # NoJob => u = v
    BY <1>0, <1>1, <2>4 DEF UniqueJobs, BatchTypeOK
  <2> QED
    BY <2>1, <2>3, <2>5 DEF UniqueJobs
<1>6. FutureInv'
  BY <1>0, <1>1 DEF FutureInv
<1>7. Taken(j)
  BY <1>0, <1>2, <1>3 DEF JobInv, Untaken, Taken
<1>8. \A x : (Untaken(x)' <=> Untaken(x)) /\ (Taken(x)' <=> Taken(x))
  BY <1>1 DEF Untaken, Taken
<1>9. JobInv'
  <2>1. \A n \in 1 .. Len(jobs') : Untaken(jobs[n])'
    BY <1>0, <1>1, <1>2, <1>8 DEF JobInv, Untaken
  <2>2. \A v \in Workers : worker'[v] # NoJob => Taken(worker[v])'
    BY <1>0, <1>1, <1>7, <1>8 DEF JobInv, Taken, BatchTypeOK
  <2> QED
    BY <2>1, <2>2 DEF JobInv
<1>10. BatchTruthful'
  <2>1. future[j.batch][j.pos] = "waiting" /\ j.batch \in Batches /\ j.pos \in Positions
    BY <1>2, <1>3, <1>7, JobFacts DEF Taken
  <2>2. batch[j.batch] = "RUNNING"
    BY <1>0, <2>1 DEF FutureInv
  <2>3. ASSUME NEW b \in Batches, batch[b] = "RUNNING", NEW v \in Workers,
               worker[v] = [batch |-> b, pos |-> 0]
        PROVE  worker'[v] = [batch |-> b, pos |-> 0]
    BY <1>0, <1>1, <2>3, JobFacts DEF BatchTypeOK
  <2>4. \A b \in Batches, v \in Workers : worker'[v].batch = b => worker[v].batch = b \/ b = j.batch
    BY <1>0, <1>1 DEF BatchTypeOK
  <2> QED
    BY <1>0, <1>1, <2>2, <2>3, <2>4 DEF BatchTruthful
<1> QED
  BY <1>4, <1>5, <1>6, <1>9, <1>10 DEF BatchInv

\* The jobs that a coordinator hands to the executor: each for another item
\* that is pending.
LEMMA NewJobs ==
  ASSUME BatchTypeOK, NEW b \in Batches, NEW o \in PendingItems(b)
  PROVE  /\ ItemJobs(b, o) \in Seq(Jobs)
         /\ \A n \in 1 .. Len(ItemJobs(b, o)) :
               /\ ItemJobs(b, o)[n].batch = b /\ ItemJobs(b, o)[n].pos \in Positions
               /\ entry[b][ItemJobs(b, o)[n].pos] = "PENDING"
         /\ \A m, n \in 1 .. Len(ItemJobs(b, o)) :
               ItemJobs(b, o)[m] = ItemJobs(b, o)[n] => m = n
<1> DEFINE pending == {k \in Positions : entry[b][k] = "PENDING"}
           c == Cardinality(pending)
           new == ItemJobs(b, o)
<1>1. c \in Nat
  <2>1. 1 \in Int /\ BatchSize \in Int
    BY JobAssumption DEF JobAssumption
  <2>2. IsFiniteSet(Positions)
    BY <2>1, FS_Interval DEF Positions
  <2> QED
    BY <2>2, FS_Subset, FS_CardinalityType
<1>2. o \in [1 .. c -> pending] /\ \A m, n \in 1 .. c : m < n => o[m] < o[n]
  <2>1. o \in [1 .. c -> pending] /\ \A m, n \in DOMAIN o : m < n => o[m] < o[n]
    BY DEF PendingItems
  <2> QED
    BY <2>1
<1> HIDE DEF c
<1>3. DOMAIN o = 1 .. c /\ DOMAIN new = 1 .. c
  BY <1>2 DEF ItemJobs
<1>4. \A n \in 1 .. c : /\ new[n] = [batch |-> b, pos |-> o[n]]
                        /\ o[n] \in Positions /\ entry[b][o[n]] = "PENDING"
  BY <1>2, <1>3 DEF ItemJobs
<1> HIDE DEF new, pending
<1>5. \A n \in 1 .. c : new[n] \in Jobs /\ new[n].batch = b /\ new[n].pos = o[n]
  <2> SUFFICES ASSUME NEW n \in 1 .. c
               PROVE  new[n] \in Jobs /\ new[n].batch = b /\ new[n].pos = o[n]
    OBVIOUS
  <2>1. PICK k \in Positions : k = o[n]
    BY <1>4
  <2>2. [batch |-> b, pos |-> k] \in Jobs
    BY JobFacts
  <2> QED
    BY <1>4, <2>1, <2>2
<1>6. new \in [1 .. c -> Jobs]
  BY <1>3, <1>5 DEF new, ItemJobs
<1>7. new \in Seq(Jobs) /\ Len(new) = c
  BY <1>1, <1>6
<1>8. \A m, n \in 1 .. c : new[m] = new[n] => m = n
  <2> SUFFICES ASSUME NEW m \in 1 .. c, NEW n \in 1 .. c, new[m] = new[n], m # n PROVE FALSE
    OBVIOUS
  <2>1. o[m] = o[n] /\ o[m] \in Int /\ o[n] \in Int
    <3>1. \A k \in Positions : k \in Int
      BY DEF Positions
    <3> QED
      BY <1>4, <1>5, <3>1
  <2>2. m < n \/ n < m
    BY <1>1
  <2> QED
    BY <1>2, <2>1, <2>2
<1> QED
  BY <1>4, <1>5, <1>7, <1>8 DEF new

\* A worker becomes the coordinator of a batch.
LEMMA BatchTakeBatch ==
  ASSUME BatchInv, NEW w \in Workers, Take(w), Head(jobs).pos = 0
  PROVE  BatchInv'
<1> DEFINE j == Head(jobs)
           b == j.batch
           old == Tail(jobs)
<1>0. BatchTypeOK /\ UniqueJobs /\ FutureInv /\ JobInv /\ BatchTruthful
  BY DEF BatchInv
<1>1. /\ worker[w] = NoJob /\ jobs # <<>> /\ worker' = [worker EXCEPT ![w] = j] /\ j.pos = 0
      /\ UNCHANGED <<entry, crashes>> /\ batch' = [batch EXCEPT ![b] = "RUNNING"]
      /\ future' = [future EXCEPT ![b] =
                      [k \in Positions |-> IF entry[b][k] = "PENDING" THEN "waiting" ELSE "none"]]
  BY DEF Take
<1> HIDE DEF old
<1>2. PICK o \in PendingItems(b) : jobs' = old \o ItemJobs(b, o)
  BY DEF Take, old
<1> HIDE DEF b, j
<1> DEFINE new == ItemJobs(b, o)
<1>3. /\ j \in Jobs /\ j = jobs[1] /\ Len(jobs) \in Nat /\ Len(jobs) > 0
      /\ old \in Seq(Jobs) /\ Len(old) = Len(jobs) - 1
      /\ \A n \in 1 .. Len(old) : old[n] = jobs[n + 1] /\ old[n] \in Jobs
  BY <1>0, <1>1 DEF BatchTypeOK, old, j
<1>4. j # NoJob /\ b \in Batches /\ j = [batch |-> b, pos |-> 0] /\ b = j.batch
  BY <1>1, <1>3, JobFacts DEF b
<1>5. /\ new \in Seq(Jobs)
      /\ \A n \in 1 .. Len(new) :
            /\ new[n].batch = b /\ new[n].pos \in Positions
            /\ entry[b][new[n].pos] = "PENDING"
      /\ \A m, n \in 1 .. Len(new) : new[m] = new[n] => m = n
  BY <1>0, <1>4, NewJobs
<1>6. jobs' = old \o new
  BY <1>2
<1> HIDE DEF new
<1>7. /\ Len(old) \in Nat /\ Len(new) \in Nat /\ Len(jobs') = Len(old) + Len(new)
      /\ jobs' \in Seq(Jobs)
      /\ \A n \in 1 .. Len(old) : jobs'[n] = old[n]
      /\ \A n \in 1 .. Len(new) : jobs'[Len(old) + n] = new[n]
  BY <1>3, <1>5, <1>6
<1>8. \A n \in 1 .. Len(jobs') :
         n \notin 1 .. Len(old) =>
            \E i \in 1 .. Len(new) : n = Len(old) + i /\ jobs'[n] = new[i]
  <2> SUFFICES ASSUME NEW n \in 1 .. Len(jobs'), n \notin 1 .. Len(old)
               PROVE  \E i \in 1 .. Len(new) : n = Len(old) + i /\ jobs'[n] = new[i]
    OBVIOUS
  <2>1. n - Len(old) \in 1 .. Len(new) /\ n = Len(old) + (n - Len(old))
    BY <1>7
  <2> QED
    BY <1>7, <2>1
<1>9. \A n \in 1 .. Len(jobs') :
         n \notin 1 .. Len(old) =>
            /\ jobs'[n].batch = b /\ jobs'[n].pos \in Positions
            /\ entry[b][jobs'[n].pos] = "PENDING"
  <2> SUFFICES ASSUME NEW n \in 1 .. Len(jobs'), n \notin 1 .. Len(old)
               PROVE  /\ jobs'[n].batch = b /\ jobs'[n].pos \in Positions
                      /\ entry[b][jobs'[n].pos] = "PENDING"
    OBVIOUS
  <2>1. PICK i \in 1 .. Len(new) : jobs'[n] = new[i]
    BY <1>8
  <2> QED
    BY <1>5, <2>1
<1>10. batch[b] = "PENDING" /\ batch'[b] = "RUNNING" /\ \A c \in Batches \ {b} : batch'[c] = batch[c]
  BY <1>0, <1>1, <1>3, <1>4 DEF JobInv, Untaken, BatchTypeOK, b
<1>11. /\ \A k \in Positions : future'[b][k] = IF entry[b][k] = "PENDING" THEN "waiting" ELSE "none"
       /\ \A k \in Positions : future[b][k] = "none"
       /\ \A c \in Batches \ {b} : future'[c] = future[c]
  BY <1>0, <1>1, <1>4, <1>10 DEF BatchTypeOK, FutureInv
<1>12. BatchTypeOK'
  <2>1. [k \in Positions |-> IF entry[b][k] = "PENDING" THEN "waiting" ELSE "none"]
           \in [Positions -> {"none", "waiting", "done", "raised"}]
    OBVIOUS
  <2>2. future' \in [Batches -> [Positions -> {"none", "waiting", "done", "raised"}]]
    BY <1>0, <1>1, <1>4, <2>1 DEF BatchTypeOK
  <2> QED
    BY <1>0, <1>1, <1>3, <1>4, <1>7, <2>2 DEF BatchTypeOK
\* Nobody else is at this batch, and no job of an item of it is left.
<1>13. \A x \in Jobs : Untaken(x) /\ x.batch = b => x = j
  BY <1>4, <1>10, <1>11, JobFacts DEF Untaken
<1>14. \A x \in Jobs : Taken(x) => x.batch # b
  BY <1>10, <1>11, JobFacts DEF Taken
<1>15. \A n \in 1 .. Len(old) : Untaken(old[n]) /\ old[n] # j /\ old[n].batch # b
  <2>1. \A n \in 1 .. Len(old) : Untaken(old[n]) /\ old[n] # j
    BY <1>0, <1>3 DEF JobInv, UniqueJobs
  <2> QED
    BY <1>3, <1>13, <2>1
<1>16. \A v \in Workers : v # w => worker'[v] = worker[v] /\ worker[v].batch # b
  BY <1>0, <1>1, <1>4, <1>14, JobFacts DEF BatchTypeOK, JobInv
<1>17. worker'[w] = j
  BY <1>0, <1>1 DEF BatchTypeOK
<1>18. UniqueJobs'
  <2>1. \A m, n \in 1 .. Len(jobs') : jobs'[m] = jobs'[n] => m = n
    <3> SUFFICES ASSUME NEW m \in 1 .. Len(jobs'), NEW n \in 1 .. Len(jobs'), jobs'[m] = jobs'[n]
                 PROVE  m = n
      OBVIOUS
    <3>1. CASE m \in 1 .. Len(old) /\ n \in 1 .. Len(old)
      BY <1>0, <1>3, <1>7, <3>1 DEF UniqueJobs
    <3>2. CASE m \in 1 .. Len(old) /\ n \notin 1 .. Len(old)
      BY <1>7, <1>15, <1>9, <3>2
    <3>3. CASE m \notin 1 .. Len(old) /\ n \in 1 .. Len(old)
      BY <1>7, <1>15, <1>9, <3>3
    <3>4. CASE m \notin 1 .. Len(old) /\ n \notin 1 .. Len(old)
      <4>1. PICK x \in 1 .. Len(new), y \in 1 .. Len(new) :
               /\ m = Len(old) + x /\ jobs'[m] = new[x]
               /\ n = Len(old) + y /\ jobs'[n] = new[y]
        BY <1>8, <3>4
      <4>2. x = y
        BY <1>5, <4>1
      <4> QED
        BY <4>1, <4>2
    <3> QED
      BY <3>1, <3>2, <3>3, <3>4
  <2>2. ASSUME NEW n \in 1 .. Len(jobs'), NEW v \in Workers
        PROVE  worker'[v] # jobs'[n]
    <3>1. CASE n \in 1 .. Len(old)
      <4>1. jobs'[n] = jobs[n + 1] /\ n + 1 \in 1 .. Len(jobs) /\ jobs'[n] # j
        BY <1>3, <1>7, <1>15, <3>1
      <4> QED
        BY <1>0, <1>16, <1>17, <4>1 DEF UniqueJobs
    <3>2. CASE n \notin 1 .. Len(old)
      <4>1. jobs'[n].batch = b /\ jobs'[n].pos \in Positions
        BY <1>9, <3>2
      <4>2. 0 \notin Positions
        BY DEF Positions
      <4> QED
        BY <1>1, <1>16, <1>17, <4>1, <4>2
    <3> QED
      BY <3>1, <3>2
  <2>3. \A u, v \in Workers : worker'[u] = worker'[v] /\ worker'[u] # NoJob => u = v
    BY <1>0, <1>4, <1>16, <1>17 DEF UniqueJobs, b
  <2> QED
    BY <2>1, <2>2, <2>3 DEF UniqueJobs
<1>19. FutureInv'
  BY <1>0, <1>1, <1>10, <1>11 DEF FutureInv
<1>20. JobInv'
  <2>1. \A n \in 1 .. Len(jobs') : Untaken(jobs[n])'
    <3> SUFFICES ASSUME NEW n \in 1 .. Len(jobs') PROVE Untaken(jobs[n])'
      OBVIOUS
    <3>1. CASE n \in 1 .. Len(old)
      <4>1. /\ jobs'[n] = old[n] /\ old[n] \in Jobs /\ Untaken(old[n])
            /\ old[n].batch \in Batches \ {b}
        BY <1>3, <1>7, <1>15, <3>1, JobFacts
      <4> QED
        BY <1>10, <1>11, <4>1 DEF Untaken
    <3>2. CASE n \notin 1 .. Len(old)
      <4>1. /\ jobs'[n].batch = b /\ jobs'[n].pos \in Positions
            /\ entry[b][jobs'[n].pos] = "PENDING"
        BY <1>9, <3>2
      <4>2. 0 \notin Positions
        BY DEF Positions
      <4> QED
        BY <1>11, <4>1, <4>2 DEF Untaken
    <3> QED
      BY <3>1, <3>2
  <2>2. ASSUME NEW v \in Workers, worker'[v] # NoJob
        PROVE  Taken(worker[v])'
    <3>1. CASE v = w
      BY <1>1, <1>4, <1>10, <1>11, <1>17, <3>1 DEF Taken, b
    <3>2. CASE v # w
      <4>1. worker'[v] \in Jobs /\ worker'[v].batch \in Batches \ {b} /\ Taken(worker[v])
            /\ worker'[v] = worker[v]
        BY <1>0, <1>16, <2>2, <3>2, JobFacts DEF BatchTypeOK, JobInv
      <4> QED
        BY <1>1, <1>10, <1>11, <4>1 DEF Taken
    <3> QED
      BY <3>1, <3>2
  <2> QED
    BY <2>1, <2>2 DEF JobInv
<1>21. BatchTruthful'
  <2> SUFFICES ASSUME NEW c \in Batches
               PROVE  /\ batch'[c] \in {"COMPLETED", "FAILED", "PARTIAL"} =>
                            /\ \A k \in Positions : entry'[c][k] # "PENDING"
                            /\ \A v \in Workers : worker'[v].batch # c
                            /\ batch'[c] = "COMPLETED" <=> \A k \in Positions : entry'[c][k] = "COMPLETED"
                            /\ batch'[c] = "FAILED" <=> \A k \in Positions : entry'[c][k] = "FAILED"
                      /\ batch'[c] = "RUNNING" =>
                            \/ \E v \in Workers : worker'[v] = [batch |-> c, pos |-> 0]
                            \/ \E k \in Positions : future'[c][k] = "raised"
                            \/ crashes' > 0
    BY DEF BatchTruthful
  <2>1. CASE c = b
    BY <1>4, <1>10, <1>17, <2>1
  <2>2. CASE c # b
    <3>1. batch'[c] = batch[c] /\ future'[c] = future[c] /\ UNCHANGED <<entry, crashes>>
      BY <1>1, <1>10, <1>11, <2>2
    <3>2. \A v \in Workers : worker'[v].batch = c => worker[v].batch = c
      BY <1>16, <1>17, <2>2 DEF b
    <3>3. \A v \in Workers : worker[v] = [batch |-> c, pos |-> 0] => worker'[v] = worker[v]
      BY <1>1, <1>16, JobFacts
    <3> QED
      BY <1>0, <3>1, <3>2, <3>3 DEF BatchTruthful
  <2> QED
    BY <2>1, <2>2
<1> QED
  BY <1>12, <1>18, <1>19, <1>20, <1>21 DEF BatchInv

\* run_item records an outcome: nobody else has this job.
LEMMA BatchRecord ==
  ASSUME BatchInv, NEW w \in Workers, RecordStep(w)
  PROVE  BatchInv'
<1> DEFINE j == worker[w]
           b == worker[w].batch
           k == worker[w].pos
<1>0. BatchTypeOK /\ UniqueJobs /\ FutureInv /\ JobInv /\ BatchTruthful
  BY DEF BatchInv
<1>1. PICK s \in {"COMPLETED", "FAILED", "PENDING"} :
         /\ entry' = [entry EXCEPT ![b][k] = s]
         /\ future' = [future EXCEPT ![b][k] = IF s = "PENDING" THEN "raised" ELSE "done"]
  BY DEF RecordStep, Record
<1>2. worker' = [worker EXCEPT ![w] = NoJob] /\ UNCHANGED <<batch, jobs, crashes>> /\ k # 0
  BY DEF RecordStep, Record
<1>3. j \in Jobs /\ j # NoJob /\ b \in Batches /\ k \in Positions /\ j = [batch |-> b, pos |-> k]
  BY <1>0, <1>2, JobFacts DEF BatchTypeOK
<1>4. future[b][k] = "waiting" /\ batch[b] = "RUNNING"
  BY <1>0, <1>2, <1>3 DEF JobInv, Taken, FutureInv
<1> HIDE DEF j, b, k
<1> DEFINE f == IF s = "PENDING" THEN "raised" ELSE "done"
<1>5. /\ f \in {"raised", "done"} /\ (f = "done" => s # "PENDING")
      /\ future' = [future EXCEPT ![b][k] = f]
  BY <1>1
<1> HIDE DEF f
<1>6. /\ \A c \in Batches, i \in Positions :
            IF c = b /\ i = k THEN future'[c][i] = f /\ entry'[c][i] = s
            ELSE future'[c][i] = future[c][i] /\ entry'[c][i] = entry[c][i]
  BY <1>0, <1>1, <1>3, <1>5 DEF BatchTypeOK
<1>7. /\ worker'[w] = NoJob
      /\ \A v \in Workers \ {w} : worker'[v] = worker[v] /\ worker[v] # j
  BY <1>0, <1>2, <1>3 DEF BatchTypeOK, UniqueJobs, j
<1>8. BatchTypeOK'
  BY <1>0, <1>1, <1>2, <1>3, <1>5 DEF BatchTypeOK
<1>9. UniqueJobs'
  <2>1. \A n \in 1 .. Len(jobs) : jobs[n] # NoJob
    <3>1. \A n \in 1 .. Len(jobs) : jobs[n] \in Jobs
      BY <1>0 DEF BatchTypeOK
    <3> QED
      BY <3>1, JobFacts
  <2> QED
    BY <1>0, <1>2, <1>7, <2>1 DEF UniqueJobs
<1>10. FutureInv'
  BY <1>0, <1>2, <1>3, <1>4, <1>5, <1>6 DEF FutureInv
<1>11. JobInv'
  <2>1. \A n \in 1 .. Len(jobs) : jobs[n] \in Jobs /\ jobs[n] # j /\ Untaken(jobs[n])
    BY <1>0 DEF BatchTypeOK, UniqueJobs, JobInv, j
  <2>2. \A x \in Jobs : x # j => x.batch # b \/ x.pos # k
    BY <1>3, JobFacts
  <2>3. ASSUME NEW x \in Jobs, x # j, Untaken(x) PROVE Untaken(x)'
    BY <1>2, <1>6, <2>2, <2>3, JobFacts DEF Untaken
  <2>4. ASSUME NEW x \in Jobs, x # j, Taken(x) PROVE Taken(x)'
    <3>1. x.batch \in Batches /\ (x.pos # 0 => x.pos \in Positions)
      BY JobFacts
    <3>2. CASE x.pos # 0
      BY <1>6, <2>2, <2>4, <3>1, <3>2 DEF Taken
    <3>3. CASE x.pos = 0
      <4>1. f # "none"
        BY <1>5
      <4> QED
        BY <1>2, <1>6, <2>4, <3>1, <3>3, <4>1 DEF Taken
    <3> QED
      BY <3>2, <3>3
  <2>5. \A n \in 1 .. Len(jobs') : Untaken(jobs[n])'
    BY <1>2, <2>1, <2>3 DEF Untaken
  <2>6. ASSUME NEW v \in Workers, worker'[v] # NoJob PROVE Taken(worker[v])'
    <3>1. v # w /\ worker'[v] = worker[v] /\ worker[v] # j /\ worker[v] \in Jobs /\ Taken(worker[v])
      BY <1>0, <1>7, <2>6 DEF BatchTypeOK, JobInv
    <3> QED
      BY <2>4, <3>1 DEF Taken
  <2> QED
    BY <2>5, <2>6 DEF JobInv
<1>12. BatchTruthful'
  <2> SUFFICES ASSUME NEW c \in Batches
               PROVE  /\ batch'[c] \in {"COMPLETED", "FAILED", "PARTIAL"} =>
                            /\ \A i \in Positions : entry'[c][i] # "PENDING"
                            /\ \A v \in Workers : worker'[v].batch # c
                            /\ batch'[c] = "COMPLETED" <=> \A i \in Positions : entry'[c][i] = "COMPLETED"
                            /\ batch'[c] = "FAILED" <=> \A i \in Positions : entry'[c][i] = "FAILED"
                      /\ batch'[c] = "RUNNING" =>
                            \/ \E v \in Workers : worker'[v] = [batch |-> c, pos |-> 0]
                            \/ \E i \in Positions : future'[c][i] = "raised"
                            \/ crashes' > 0
    BY DEF BatchTruthful
  <2>1. CASE batch[c] \in {"COMPLETED", "FAILED", "PARTIAL"}
    <3>1. c # b /\ \A i \in Positions : entry'[c][i] = entry[c][i]
      BY <1>4, <1>6, <2>1
    <3>2. \A v \in Workers : worker'[v].batch # c
      BY <1>0, <1>7, <2>1, JobFacts DEF BatchTruthful
    <3> QED
      BY <1>0, <1>2, <2>1, <3>1, <3>2 DEF BatchTruthful
  <2>2. CASE batch[c] = "RUNNING"
    <3>1. CASE \E v \in Workers : worker[v] = [batch |-> c, pos |-> 0]
      <4>1. PICK v \in Workers : worker[v] = [batch |-> c, pos |-> 0]
        BY <3>1
      <4>2. v # w
        BY <1>2, <4>1 DEF k
      <4> QED
        BY <1>2, <1>7, <2>2, <4>1, <4>2
    <3>2. CASE \E i \in Positions : future[c][i] = "raised"
      BY <1>2, <1>4, <1>6, <2>2, <3>2
    <3> QED
      BY <1>0, <1>2, <2>2, <3>1, <3>2 DEF BatchTruthful
  <2> QED
    BY <1>2, <2>1, <2>2
<1> QED
  BY <1>8, <1>9, <1>10, <1>11, <1>12 DEF BatchInv

\* Everybody at a batch is done: the worker that coordinates it writes what the
\* items add up to.
LEMMA BatchEndOK ==
  ASSUME BatchInv, NEW w \in Workers, BatchEnd(w) \/ BatchRaises(w)
  PROVE  BatchInv'
<1> DEFINE j == worker[w]
           b == worker[w].batch
<1>0. BatchTypeOK /\ UniqueJobs /\ FutureInv /\ JobInv /\ BatchTruthful
  BY DEF BatchInv
<1>1. /\ worker' = [worker EXCEPT ![w] = NoJob] /\ UNCHANGED <<entry, jobs, future, crashes>>
      /\ j # NoJob /\ j.pos = 0
  BY DEF BatchEnd, BatchRaises
<1>2. j \in Jobs /\ b \in Batches /\ j = [batch |-> b, pos |-> 0] /\ b = j.batch
  BY <1>0, <1>1, JobFacts DEF BatchTypeOK
<1>3. /\ batch[b] = "RUNNING"
      /\ \A k \in Positions : future[b][k] = "none" => entry[b][k] # "PENDING"
  BY <1>0, <1>1, <1>2 DEF JobInv, Taken
<1>4. \/ /\ AllDone(b) /\ batch' = [batch EXCEPT ![b] = Refreshed(b)]
      \/ /\ \E k \in Positions : future[b][k] = "raised"
         /\ UNCHANGED batch
  BY DEF BatchEnd, BatchRaises
<1> HIDE DEF b, j
<1>5. AllDone(b) => \A k \in Positions : entry[b][k] \in {"COMPLETED", "FAILED"}
  BY <1>0, <1>2, <1>3 DEF AllDone, FutureInv, BatchTypeOK
<1>6. AllDone(b) =>
         /\ Refreshed(b) \in {"COMPLETED", "FAILED", "PARTIAL"}
         /\ Refreshed(b) = "COMPLETED" <=> \A k \in Positions : entry[b][k] = "COMPLETED"
         /\ Refreshed(b) = "FAILED" <=> \A k \in Positions : entry[b][k] = "FAILED"
  <2>1. 1 \in Positions
    BY JobAssumption DEF JobAssumption, Positions
  <2> QED
    BY <1>5, <2>1 DEF Refreshed
<1>7. /\ worker'[w] = NoJob
      /\ \A v \in Workers \ {w} : worker'[v] = worker[v] /\ worker[v] # j
      /\ \A c \in Batches \ {b} : batch'[c] = batch[c]
  BY <1>0, <1>1, <1>2, <1>4 DEF BatchTypeOK, UniqueJobs, j
<1>8. BatchTypeOK'
  BY <1>0, <1>1, <1>2, <1>4, <1>6 DEF BatchTypeOK
<1>9. UniqueJobs'
  <2>1. \A n \in 1 .. Len(jobs) : jobs[n] \in Jobs
    BY <1>0 DEF BatchTypeOK
  <2>2. \A n \in 1 .. Len(jobs) : jobs[n] # NoJob
    BY <2>1, JobFacts
  <2> QED
    BY <1>0, <1>1, <1>7, <2>2 DEF UniqueJobs
<1>10. AllDone(b) => \A k \in Positions : future[b][k] \notin {"waiting", "raised"}
  BY DEF AllDone
<1>11. ASSUME UNCHANGED batch
       PROVE  FutureInv' /\ JobInv'
  <2>1. FutureInv'
    BY <1>0, <1>1, <1>11 DEF FutureInv
  <2>2. \A n \in 1 .. Len(jobs') : Untaken(jobs[n])'
    BY <1>0, <1>1, <1>11 DEF JobInv, Untaken
  <2>3. ASSUME NEW v \in Workers, worker'[v] # NoJob PROVE Taken(worker[v])'
    <3>1. worker'[v] = worker[v] /\ Taken(worker[v])
      BY <1>0, <1>7, <2>3 DEF JobInv
    <3> QED
      BY <1>1, <1>11, <3>1 DEF Taken
  <2> QED
    BY <2>1, <2>2, <2>3 DEF JobInv
<1>12. ASSUME AllDone(b), batch' = [batch EXCEPT ![b] = Refreshed(b)]
       PROVE  FutureInv' /\ JobInv' /\ BatchTruthful'
  <2>1. batch'[b] = Refreshed(b)
    BY <1>0, <1>2, <1>12 DEF BatchTypeOK
  <2>2. FutureInv'
    BY <1>0, <1>1, <1>6, <1>7, <1>10, <1>12, <2>1 DEF FutureInv
  <2>4. \A n \in 1 .. Len(jobs) : jobs[n] \in Jobs /\ jobs[n] # j /\ Untaken(jobs[n])
    BY <1>0 DEF BatchTypeOK, UniqueJobs, JobInv, j
  <2>5. ASSUME NEW x \in Jobs, Untaken(x) PROVE x.batch \in Batches \ {b}
    BY <1>3, <1>10, <1>12, <2>5, JobFacts DEF Untaken
  <2>6. \A n \in 1 .. Len(jobs') : Untaken(jobs[n])'
    <3> SUFFICES ASSUME NEW n \in 1 .. Len(jobs) PROVE Untaken(jobs[n])'
      BY <1>1
    <3>1. jobs[n].batch \in Batches \ {b} /\ Untaken(jobs[n])
      BY <2>4, <2>5
    <3> QED
      BY <1>1, <1>7, <3>1 DEF Untaken
  <2>7. ASSUME NEW x \in Jobs, Taken(x), x # j PROVE x.batch \in Batches \ {b}
    <3>1. x.pos # 0 => x.batch # b
      BY <1>10, <1>12, <2>7, JobFacts DEF Taken
    <3>2. x.pos = 0 => x.batch # b
      BY <1>2, <2>7, JobFacts
    <3> QED
      BY <3>1, <3>2, JobFacts
  <2>8. \A v \in Workers \ {w} : worker[v] # NoJob =>
           worker[v] \in Jobs /\ Taken(worker[v]) /\ worker[v].batch \in Batches \ {b}
    <3> SUFFICES ASSUME NEW v \in Workers \ {w}, worker[v] # NoJob
                 PROVE  worker[v] \in Jobs /\ Taken(worker[v]) /\ worker[v].batch \in Batches \ {b}
      OBVIOUS
    <3>1. worker[v] \in Jobs /\ Taken(worker[v]) /\ worker[v] # j
      BY <1>0, <1>7 DEF BatchTypeOK, JobInv
    <3> QED
      BY <2>7, <3>1
  <2>9. ASSUME NEW v \in Workers, worker'[v] # NoJob PROVE Taken(worker[v])'
    <3>1. /\ worker'[v] = worker[v] /\ Taken(worker[v])
          /\ worker[v].batch \in Batches \ {b}
      BY <1>7, <2>8, <2>9
    <3> QED
      BY <1>1, <1>7, <3>1 DEF Taken
  <2>10. JobInv'
    BY <2>6, <2>9 DEF JobInv
  <2>11. \A v \in Workers : worker'[v].batch # b
    BY <1>2, <1>7, <2>8, JobFacts
  <2>13. ASSUME NEW c \in Batches \ {b}
         PROVE  /\ batch'[c] = batch[c] /\ entry'[c] = entry[c] /\ future'[c] = future[c]
                /\ \A v \in Workers : worker'[v].batch = c => worker[v].batch = c
                /\ \A v \in Workers : worker[v] = [batch |-> c, pos |-> 0] => worker'[v] = worker[v]
    BY <1>1, <1>2, <1>7, JobFacts DEF j
  <2>14. BatchTruthful'
    <3> SUFFICES ASSUME NEW c \in Batches
                 PROVE  /\ batch'[c] \in {"COMPLETED", "FAILED", "PARTIAL"} =>
                              /\ \A i \in Positions : entry'[c][i] # "PENDING"
                              /\ \A v \in Workers : worker'[v].batch # c
                              /\ batch'[c] = "COMPLETED" <=> \A i \in Positions : entry'[c][i] = "COMPLETED"
                              /\ batch'[c] = "FAILED" <=> \A i \in Positions : entry'[c][i] = "FAILED"
                        /\ batch'[c] = "RUNNING" =>
                              \/ \E v \in Workers : worker'[v] = [batch |-> c, pos |-> 0]
                              \/ \E i \in Positions : future'[c][i] = "raised"
                              \/ crashes' > 0
      BY DEF BatchTruthful
    <3>1. CASE c = b
      BY <1>1, <1>5, <1>6, <1>12, <2>1, <2>11, <3>1
    <3>2. CASE c # b
      BY <1>0, <1>1, <2>13, <3>2 DEF BatchTruthful
    <3> QED
      BY <3>1, <3>2
  <2> QED
    BY <2>2, <2>10, <2>14
<1>13. ASSUME UNCHANGED batch, \E k \in Positions : future[b][k] = "raised"
       PROVE  BatchTruthful'
  <2>1. \A v \in Workers, c \in Batches :
           /\ worker'[v].batch = c => worker[v].batch = c
           /\ worker[v] = [batch |-> c, pos |-> 0] => worker'[v] = worker[v] \/ c = b
    BY <1>2, <1>7, JobFacts DEF j
  <2> SUFFICES ASSUME NEW c \in Batches
               PROVE  /\ batch[c] \in {"COMPLETED", "FAILED", "PARTIAL"} =>
                            /\ \A i \in Positions : entry[c][i] # "PENDING"
                            /\ \A v \in Workers : worker'[v].batch # c
                            /\ batch[c] = "COMPLETED" <=> \A i \in Positions : entry[c][i] = "COMPLETED"
                            /\ batch[c] = "FAILED" <=> \A i \in Positions : entry[c][i] = "FAILED"
                      /\ batch[c] = "RUNNING" =>
                            \/ \E v \in Workers : worker'[v] = [batch |-> c, pos |-> 0]
                            \/ \E i \in Positions : future[c][i] = "raised"
                            \/ crashes > 0
    BY <1>1, <1>13 DEF BatchTruthful
  <2>2. CASE c = b
    BY <1>3, <1>13, <2>2
  <2>3. CASE c # b
    BY <1>0, <2>1, <2>3 DEF BatchTruthful
  <2> QED
    BY <2>2, <2>3
<1> QED
  BY <1>4, <1>8, <1>9, <1>11, <1>12, <1>13 DEF BatchInv

\* What a batch says of its items is true, for every number of workers, batches
\* and items, with rows that cannot be written and a process that restarts: a
\* final status is only there when no item is pending and no worker is at the
\* batch, and a batch that stays RUNNING has a coordinator, or a reason.
THEOREM JobsCorrect == Spec => []JobsSound
<1>1. Init => BatchInv
  <2> SUFFICES ASSUME Init PROVE BatchInv
    OBVIOUS
  <2>1. BatchTypeOK
    BY JobAssumption DEF JobAssumption, Init, BatchTypeOK
  <2>2. UniqueJobs /\ FutureInv /\ JobInv /\ BatchTruthful
    BY DEF Init, UniqueJobs, FutureInv, JobInv, BatchTruthful
  <2> QED
    BY <2>1, <2>2 DEF BatchInv
<1>2. BatchInv /\ [Next]_vars => BatchInv'
  <2> SUFFICES ASSUME BatchInv, [Next]_vars PROVE BatchInv'
    OBVIOUS
  <2>1. CASE Crash
    <3>1. BatchTypeOK'
      BY <2>1, JobAssumption DEF JobAssumption, Crash, BatchInv, BatchTypeOK
    <3>2. UniqueJobs' /\ JobInv'
      BY <2>1 DEF Crash, UniqueJobs, JobInv
    <3>3. FutureInv'
      BY <2>1 DEF Crash, FutureInv
    <3>4. crashes' > 0
      BY <2>1 DEF Crash, BatchInv, BatchTypeOK
    <3>5. \A w \in Workers, b \in Batches : worker'[w].batch # b
      BY <2>1, JobFacts DEF Crash
    <3>6. UNCHANGED <<batch, entry>>
      BY <2>1 DEF Crash
    <3> QED
      BY <3>1, <3>2, <3>3, <3>4, <3>5, <3>6 DEF BatchInv, BatchTruthful
  <2>2. CASE UNCHANGED <<batchVars, crashes>>
    <3>1. UNCHANGED <<batch, entry, jobs, worker, future, crashes>>
      BY <2>2 DEF batchVars
    <3>2. BatchTypeOK' /\ UniqueJobs'
      BY <3>1 DEF BatchInv, BatchTypeOK, UniqueJobs
    <3>3. FutureInv' /\ JobInv'
      BY <3>1 DEF BatchInv, FutureInv, JobInv, Untaken, Taken
    <3>4. BatchTruthful'
      BY <3>1 DEF BatchInv, BatchTruthful
    <3> QED
      BY <3>2, <3>3, <3>4 DEF BatchInv
  <2> QED
    BY <2>1, <2>2, BatchSteps, BatchSubmit, BatchTakeItem, BatchTakeBatch, BatchRecord, BatchEndOK
<1>3. AdmissionSound /\ QueueTypeOK /\ BatchInv => JobsSound
  BY DEF AdmissionSound, QueueTypeOK, BatchInv, BatchTypeOK, TypeOK, JobsSound
<1> QED
  BY <1>1, <1>2, <1>3, JobAdmissionCorrect, QueueInit, QueueType, PTL DEF Spec
=============================================================================
