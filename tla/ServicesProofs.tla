--------------------------- MODULE ServicesProofs ---------------------------
(***************************************************************************)
(* The services around a turn, for every value of the constants: the quota *)
(* that processes share in Redis, the published skills, the rate limiter,  *)
(* the dispatch of scheduled tasks, the caches of the model's answers, and *)
(* the log of model calls with the searches of memories.                   *)
(* Each has an inductive invariant of its own; the state of the other      *)
(* services does not matter, for a behaviour belongs to one of them.       *)
(***************************************************************************)
EXTENDS MCServices, Integers, FiniteSets, Sequences, FiniteSetTheorems, SequenceTheorems,
        WellFoundedInduction, TLAPS

-----------------------------------------------------------------------------
(* The shared quota (SharedQuota)                                          *)

Uses == [tasks : Nat, active : Nat]
Stages == {"new", "checked", "running", "read", "done"}

QuotaTypeInv ==
    /\ v1 \in Q!Dates
    /\ v2 \in [Q!Dates -> [tasks : Nat, active : Int]]
    /\ v3 \in [Processes -> [day : Q!Dates, use : Uses]]
    /\ v4 \in [Errands -> [at : Stages, day : Q!Dates]]
    /\ v5 \in 0 .. MaxFaults

\* The tasks that today's count may still hold: those that run, and those
\* whose end has read today's count but has not yet taken itself off it.
Counted == {e \in Errands : v4[e].at = "running" \/ (v4[e].at = "read" /\ v4[e].day = v1)}

\* No task is ahead of the day; as long as Redis answers, today's count is
\* covered by such tasks, and the days to come are not counted yet.
QuotaCovered ==
    /\ IsFiniteSet(Counted)
    /\ \A e \in Errands : v4[e].day <= v1
    /\ v5 = 0 => /\ v2[v1].active <= Cardinality(Counted)
                 /\ \A d \in Q!Dates : d > v1 => v2[d].active = 0

QuotaInv == part = "quota" => QuotaTypeInv /\ QuotaCovered

-----------------------------------------------------------------------------
(* Skills                                                                  *)

AnyDraft == S!Drafts \cup {S!Blank}
Files == [status : S!Statuses, ver : Nat, draft : AnyDraft]
Kinds == {"none", "save", "clone", "publish", "archived", "disabled", "delete", "rollback", "attach"}

Points == {"idle", "read", "snapshot", "write", "forget"}
ClerkRows == [kind : Kinds, skill : Skills \cup {S!NoRequest.skill}, pc : Points,
              draft : AnyDraft, ver : Nat, seen : Files]
Versions == 0 .. MaxVersion
Archive == [Skills -> [Versions -> {<<>>} \cup {<<d>> : d \in AnyDraft}]]

SkillsTypeInv ==
    /\ v1 \in [Skills -> Files]
    /\ v2 \in Archive
    /\ v4 \subseteq OwnTools \cup LentTools
    /\ v6 \in [Clerks -> ClerkRows]

SnapshotsSound ==
    \A s \in Skills, v \in Versions : v2[s][v] # <<>> => S!Sound(v2[s][v][1])

\* What a clerk is about to publish was validated when it was read.
ClerkSound(r) ==
    /\ r.pc # "idle" => r.skill \in Skills
    /\ r.pc = "snapshot" => r.kind = "publish" /\ S!Sound(r.seen.draft)
    /\ r.pc = "write" /\ r.seen.status = "published" => S!Sound(r.seen.draft)
    /\ r.kind = "rollback" /\ r.pc = "read" => r.ver \in Versions

SkillsState ==
    /\ SkillsTypeInv /\ SnapshotsSound
    /\ \A c \in Clerks : ClerkSound(v6[c])
    /\ S!PublishedWasValidated

SkillsInv == part = "skills" => SkillsState

-----------------------------------------------------------------------------
(* Dispatch                                                                *)

TicketRows == [of : Schedules, runs : Nat, status : {"PENDING", "RUNNING", "COMPLETED", "FAILED"}]

DispatchTypeInv ==
    /\ v1 \in [Schedules -> {"absent", "on", "off", "deleted"}]
    /\ v2 \subseteq Schedules
    /\ v3 \in [Schedules -> SUBSET {"add", "remove"}]
    /\ v4 \in [Schedules -> {"idle", "read", "stored"}]
    /\ v5 \in Seq(TicketRows) /\ Len(v5) <= MaxTickets
    /\ v6 \subseteq 1 .. Len(v5)
    /\ v7 \in [D!TicketIds -> Nat]
    /\ v8 \in [Hands -> [ticket : 0 .. MaxTickets, read : {"none", "PENDING", "RUNNING", "started"}]]
    /\ v9 \in 0 .. MaxAgain

\* q is the newest entry of the schedule s.
Newest(rows, s, q) ==
    /\ q \in 1 .. Len(rows) /\ rows[q].of = s
    /\ \A r \in q + 1 .. Len(rows) : rows[r].of # s

\* Apart from messages delivered again, an entry has at most one message, and
\* none before it is stored.
MailCounted == \A q \in D!TicketIds : v7[q] <= 1 + v9 /\ (q > Len(v5) => v7[q] = 0)

\* A firing that has stored its entry finds it as its schedule's newest, and
\* nobody has sent a message for it.
FiringUnsent ==
    \A s \in Schedules : v4[s] = "stored" =>
        /\ \E q \in D!TicketIds : Newest(v5, s, q)
        /\ \A q \in D!TicketIds : Newest(v5, s, q) => v7[q] = 0

\* A worker works on an entry there is.
HandsOnRows == \A h \in Hands : v8[h].ticket <= Len(v5) /\ (v8[h].read # "none" => v8[h].ticket > 0)

DispatchState == DispatchTypeInv /\ MailCounted /\ FiringUnsent /\ HandsOnRows

DispatchInv == part = "dispatch" => DispatchState

-----------------------------------------------------------------------------
(* The rate limiter (RateLimit)                                            *)

Stamps == [at : Nat, n : Nat]
HitRows == [at : Nat, by : {"memory", "redis"}, admitted : BOOLEAN, n : Nat]
Visits == {<<>>} \cup {<<k>> : k \in AddressKeys} \cup (UserKeys \X AddressKeys)

Since(E, x) == {e \in E : e.at > x}
Granted(H, b) == {h \in H : h.admitted /\ h.by = b}
WindowOf(G, t) == {g \in Since(G, t - Window) : g.at <= t}
Bounded(G, limit) == limit = 0 \/ \A t \in Int : Cardinality(WindowOf(G, t)) <= limit

\* The number of an entry is below the number of entries of its instant.
Numbered(E) == \A e \in E : e.n < Cardinality({f \in E : f.at = e.at})

\* No check in memory was overtaken.
Ordered(H) == \A g, h \in H : g.by = "memory" /\ h.by = "memory" /\ g.n < h.n => g.at <= h.at

\* The window in memory still has an entry for whatever it admitted since x, if
\* no check has pruned at a time that leaves x out.
KeepsCount(E, H) ==
    \A x \in Int :
        (\A h \in H : h.by = "memory" => x >= h.at - Window)
            => Cardinality(Since(Granted(H, "memory"), x)) <= Cardinality(Since(E, x))

\* The Redis counter lives until the window of every request it saw has passed,
\* and counts at least those it admitted in the window that ends now.
CountsAll(c, H, t) ==
    /\ \A h \in H : h.by = "redis" => h.at + Window <= c.until
    /\ Cardinality(Since(Granted(H, "redis"), t - Window)) <= c.count

KeyTypes(E, c, H, t) ==
    /\ E \subseteq [at : 0 .. t, n : Nat] /\ IsFiniteSet(E)
    /\ c \in [count : Nat, until : 0 .. MaxNow + Window]
    /\ H \subseteq HitRows /\ IsFiniteSet(H)
    /\ \A h \in H : h.at <= t /\ h.n < Cardinality(H)

KeyState(E, c, H, t, limit) ==
    /\ KeyTypes(E, c, H, t)
    /\ Numbered(E)
    /\ Ordered(H) => KeepsCount(E, H) /\ Bounded(Granted(H, "memory"), limit)
    /\ CountsAll(c, H, t)
    /\ Bounded(Granted(H, "redis"), limit)

\* A thread that has read the clock has a key to check.
RateTypeInv ==
    /\ v1 \in 0 .. MaxNow
    /\ v2 \in [L!Keys -> SUBSET Stamps]
    /\ v3 \in [L!Keys -> [count : Nat, until : 0 .. MaxNow + Window]]
    /\ v4 \in [Visitors -> Visits]
    /\ v5 \in [L!Keys -> SUBSET HitRows]
    /\ v6 \in 0 .. MaxHits
    /\ v7 \in [Visitors -> {L!Unread} \cup 0 .. v1]
    /\ \A v \in Visitors : v7[v] # L!Unread => v4[v] # <<>> /\ L!LimitOf(Head(v4[v])) # 0

KeysSound == \A k \in L!Keys : KeyState(v2[k], v3[k], v5[k], v1, L!LimitOf(k))

RateState == RateTypeInv /\ KeysSound

RateInv == part = "rate" => RateState

-----------------------------------------------------------------------------
(* The answers of the model (ModelAnswers)                                 *)

\* A thread's request, and what a cache holds per key.
RequestRows ==
    [at : {"idle", "keyed", "calling", "answered", "billed", "failed"}, way : A!Caches,
     purpose : A!Purposes, key : Engines, by : Engines, text : A!Texts,
     try : 1 .. Attempts, began : Engines,
     out : {"none", "parsed", "inner", "repaired", "fallback", "error", "stopped"}]
Entries == [by : Engines, text : A!Texts]
Memos == [A!Caches -> [A!Purposes -> [Engines -> SUBSET Entries]]]

AnswersTypeInv ==
    /\ v1 \in Engines /\ v2 \in BOOLEAN /\ v3 \in 1 .. MaxSwaps
    /\ v4 \in [Engines -> 0 .. MaxSwaps] /\ v5 \in BOOLEAN
    /\ v6 \in Memos /\ v7 \in [Askers -> RequestRows] /\ v8 \in 0 .. MaxAsks

\* The configuration in force is the latest one.
EngineLatest == v4[v1] = v3 /\ \A e \in Engines : v4[e] <= v3

\* A cached answer is of the configuration its key names, or of a later one.
MemoFollows ==
    \A c \in A!Caches, p \in A!Purposes, e \in Engines : \A h \in v6[c][p][e] :
        v4[e] >= 1 /\ v4[h.by] >= v4[e]

\* A request took its key no earlier than it began, and its model no earlier
\* than its key.
RequestFollows(r) ==
    /\ r.at # "idle" => v4[r.began] >= 1 /\ v4[r.key] >= v4[r.began]
    /\ r.at \in {"calling", "answered", "billed"} => v4[r.by] >= v4[r.key]
    /\ r.at = "idle" /\ r.out \in {"parsed", "inner", "repaired", "fallback"} =>
          v4[r.began] >= 1 /\ v4[r.by] >= v4[r.began]

AnswersState ==
    /\ AnswersTypeInv /\ EngineLatest
    /\ ~ v5 => MemoFollows /\ \A a \in Askers : RequestFollows(v7[a])

AnswersInv == part = "answers" => AnswersState

-----------------------------------------------------------------------------
(* Proof for the shared quota                                              *)

LEMMA QuotaConstants == MaxFaults \in Nat /\ LastDay \in Nat
  BY ServicesAssumptions DEF ServicesAssumptions, Q!SharedQuotaAssumption

LEMMA QuotaStart == Init => QuotaInv
<1> SUFFICES ASSUME Init, part = "quota" PROVE QuotaTypeInv /\ QuotaCovered
  BY DEF QuotaInv
<1>1. Q!QuotaInit
  BY DEF Init
<1>2. QuotaTypeInv
  BY <1>1, QuotaConstants DEF Q!QuotaInit, QuotaTypeInv, Q!Zero, Q!Dates, Uses, Stages
<1>3. Counted = {} /\ v1 = 0 /\ v2[v1].active = 0
  BY <1>1, QuotaConstants DEF Q!QuotaInit, Counted, Q!Zero, Q!Dates
<1>4. QuotaCovered
  BY <1>1, <1>3, QuotaConstants, FS_EmptySet DEF QuotaCovered, Q!QuotaInit, Q!Zero, Q!Dates
<1> QED
  BY <1>2, <1>4

\* What the pieces of a step do to the state they touch.
LEMMA ErrandMoves ==
    ASSUME QuotaTypeInv, NEW e \in Errands, NEW to \in Stages, Q!Move(e, to)
    PROVE  v4' \in [Errands -> [at : Stages, day : Q!Dates]]
  BY DEF QuotaTypeInv, Q!Move

LEMMA CallFails ==
    ASSUME QuotaTypeInv, Q!Fault
    PROVE  v5' \in 0 .. MaxFaults /\ v5' # 0
  BY QuotaConstants DEF QuotaTypeInv, Q!Fault

LEMMA MemoryToday == ASSUME QuotaTypeInv, NEW p \in Processes PROVE Q!Today(p) \in Uses
  BY DEF QuotaTypeInv, Q!Today, Q!Zero, Uses

LEMMA MemoryFinish ==
    ASSUME QuotaTypeInv, NEW p \in Processes, Q!FinishInMemory(p)
    PROVE  /\ v3' \in [Processes -> [day : Q!Dates, use : Uses]]
           /\ v2' = v2 /\ v5' \in 0 .. MaxFaults /\ v5' # 0
<1>1. v3' \in [Processes -> [day : Q!Dates, use : Uses]]
  BY MemoryToday DEF Q!FinishInMemory, QuotaTypeInv, Uses
<1> QED
  BY <1>1, CallFails DEF Q!FinishInMemory

LEMMA QuotaStepTypes == ASSUME QuotaTypeInv, Q!QuotaNext PROVE QuotaTypeInv'
<1>1. CASE Q!Turn
  BY <1>1, QuotaConstants DEF Q!Turn, QuotaTypeInv, Q!Dates
<1>2. ASSUME NEW e \in Errands, NEW p \in Processes, Q!Require(e, p) PROVE QuotaTypeInv'
  <2>1. /\ \E to \in Stages : Q!Move(e, to)
        /\ v5' = v5 \/ Q!Fault
        /\ UNCHANGED <<v1, v2, v3>>
    BY <1>2 DEF Q!Require, Stages
  <2> QED
    BY <2>1, ErrandMoves, CallFails DEF QuotaTypeInv
<1>3. ASSUME NEW e \in Errands, NEW p \in Processes, Q!Started(e, p) PROVE QuotaTypeInv'
  <2>1. v4' \in [Errands -> [at : Stages, day : Q!Dates]]
    BY <1>3, ErrandMoves DEF Q!Started, Stages
  <2>2. v2' \in [Q!Dates -> [tasks : Nat, active : Int]]
    BY <1>3 DEF Q!Started, QuotaTypeInv
  <2>3. v3' \in [Processes -> [day : Q!Dates, use : Uses]]
    BY <1>3, MemoryToday DEF Q!Started, QuotaTypeInv, Uses
  <2>4. v5' \in 0 .. MaxFaults /\ v1' = v1
    BY <1>3, CallFails DEF Q!Started, QuotaTypeInv
  <2> QED
    BY <2>1, <2>2, <2>3, <2>4 DEF QuotaTypeInv
<1>4. ASSUME NEW e \in Errands, NEW p \in Processes, Q!FinishRead(e, p) PROVE QuotaTypeInv'
  <2>1. /\ \E to \in Stages : Q!Move(e, to)
        /\ UNCHANGED <<v2, v3, v5>> \/ Q!FinishInMemory(p)
        /\ v1' = v1
    BY <1>4 DEF Q!FinishRead, Stages
  <2> QED
    BY <2>1, ErrandMoves, MemoryFinish DEF QuotaTypeInv
<1>5. ASSUME NEW e \in Errands, NEW p \in Processes, Q!FinishDecr(e, p) PROVE QuotaTypeInv'
  <2>1. v4' \in [Errands -> [at : Stages, day : Q!Dates]]
    BY <1>5 DEF Q!FinishDecr, QuotaTypeInv, Stages
  <2>2. v2' \in [Q!Dates -> [tasks : Nat, active : Int]]
    <3>1. v2' = v2 \/ v2' = [v2 EXCEPT ![v4[e].day].active = @ - 1]
      BY <1>5, MemoryFinish DEF Q!FinishDecr
    <3>2. v4[e].day \in Q!Dates
      BY DEF QuotaTypeInv
    <3> QED
      BY <3>1, <3>2 DEF QuotaTypeInv
  <2>3. v1' = v1 /\ (UNCHANGED <<v3, v5>> \/ Q!FinishInMemory(p))
    BY <1>5 DEF Q!FinishDecr
  <2> QED
    BY <2>1, <2>2, <2>3, MemoryFinish DEF QuotaTypeInv
<1> QED
  BY <1>1, <1>2, <1>3, <1>4, <1>5 DEF Q!QuotaNext

\* A task that starts is counted and covered; the end of one takes it off the
\* count, or finds the count at zero.
LEMMA QuotaStepCovered ==
    ASSUME QuotaTypeInv, QuotaCovered, Q!QuotaNext PROVE QuotaCovered'
<1>0. /\ Cardinality(Counted) \in Nat /\ v1 \in Q!Dates
      /\ \A d \in Q!Dates : v2[d].active \in Int
  BY FS_CardinalityType DEF QuotaCovered, QuotaTypeInv
<1>1. CASE Q!Turn
  <2>1. \A e \in Errands : v4[e].day \in 0 .. LastDay
    BY DEF QuotaTypeInv, Q!Dates
  <2>2. v1' = v1 + 1 /\ v1' \in Q!Dates /\ v1 \in Nat /\ UNCHANGED <<v2, v4, v5>>
    BY <1>1, <1>0, QuotaConstants DEF Q!Turn, Q!Dates
  <2>3. IsFiniteSet(Counted') /\ Cardinality(Counted') \in Nat
    <3>1. \A e \in Counted' : v4[e].at = "running" \/ (v4[e].at = "read" /\ v4[e].day = v1 + 1)
      BY <2>2 DEF Counted
    <3>2. Counted' \subseteq Counted \cup {e \in Errands : v4[e].day = v1 + 1}
      BY <2>2 DEF Counted
    <3>3. \A e \in Errands : v4[e].day <= v1
      BY DEF QuotaCovered
    <3>4. Counted' \subseteq Counted
      BY <2>1, <2>2, <3>2, <3>3
    <3> QED
      BY <3>4, FS_Subset, FS_CardinalityType DEF QuotaCovered
  <2>4. \A e \in Errands : v4[e].day <= v1 + 1
    BY <2>1, <2>2 DEF QuotaCovered
  <2> QED
    BY <2>2, <2>3, <2>4, <1>0 DEF QuotaCovered, Q!Dates
<1>2. ASSUME NEW e \in Errands, NEW p \in Processes, Q!Require(e, p) PROVE QuotaCovered'
  <2>1. PICK to \in Stages : Q!Move(e, to) /\ to \in {"checked", "done"}
    BY <1>2 DEF Q!Require, Stages
  <2>2. Counted' = Counted /\ \A x \in Errands : v4'[x].day <= v1
    BY <1>0, <1>2, <2>1 DEF Q!Require, Q!Move, Counted, QuotaTypeInv, QuotaCovered, Q!Dates
  <2>3. UNCHANGED <<v1, v2>> /\ (v5' = 0 => v5 = 0)
    BY <1>2, CallFails DEF Q!Require
  <2> QED
    BY <2>2, <2>3 DEF QuotaCovered
<1>3. ASSUME NEW e \in Errands, NEW p \in Processes, Q!Started(e, p) PROVE QuotaCovered'
  <2>1. /\ Counted' = Counted \cup {e} /\ e \notin Counted
        /\ \A x \in Errands : v4'[x].day <= v1
    BY <1>0, <1>3 DEF Q!Started, Q!Move, Counted, QuotaTypeInv, QuotaCovered, Q!Dates
  <2>2. IsFiniteSet(Counted') /\ Cardinality(Counted') = Cardinality(Counted) + 1
    BY <2>1, FS_AddElement DEF QuotaCovered
  <2>3. /\ v1' = v1
        /\ v5' = 0 => /\ v5 = 0 /\ v2'[v1].active = v2[v1].active + 1
                      /\ \A d \in Q!Dates \ {v1} : v2'[d] = v2[d]
    BY <1>0, <1>3, CallFails DEF Q!Started, QuotaTypeInv
  <2>4. \A d \in Q!Dates : d > v1 => d # v1
    BY <1>0 DEF Q!Dates
  <2> QED
    BY <1>0, <2>1, <2>2, <2>3, <2>4 DEF QuotaCovered
<1>4. ASSUME NEW e \in Errands, Counted' = Counted \ {e}
      PROVE /\ IsFiniteSet(Counted') /\ Cardinality(Counted') \in Nat
            /\ Cardinality(Counted') = IF e \in Counted THEN Cardinality(Counted) - 1 ELSE Cardinality(Counted)
  BY <1>4, FS_RemoveElement, FS_CardinalityType DEF QuotaCovered
<1>5. ASSUME NEW e \in Errands, NEW p \in Processes, Q!FinishRead(e, p) PROVE QuotaCovered'
  <2>0. v1' = v1 /\ v2' = v2 /\ (v5' = 0 => v5 = 0)
    BY <1>5, MemoryFinish DEF Q!FinishRead
  <2>1. CASE Q!Move(e, "read")
    <3>1. Counted' = Counted /\ \A x \in Errands : v4'[x].day <= v1
      BY <1>0, <1>5, <2>0, <2>1 DEF Q!FinishRead, Q!Move, Counted, QuotaTypeInv, QuotaCovered, Q!Dates
    <3> QED
      BY <2>0, <3>1 DEF QuotaCovered
  <2>2. CASE Q!Move(e, "done") /\ (v5' = 0 => ~ v2[v1].active > 0)
    <3>1. Counted' = Counted \ {e} /\ \A x \in Errands : v4'[x].day <= v1
      BY <1>0, <1>5, <2>0, <2>2 DEF Q!FinishRead, Q!Move, Counted, QuotaTypeInv, QuotaCovered, Q!Dates
    <3>2. IsFiniteSet(Counted') /\ Cardinality(Counted') \in Nat
      BY <1>4, <3>1
    <3>3. v5' = 0 => v5 = 0 /\ v2[v1].active <= 0
      BY <1>0, <2>0, <2>2
    <3>4. v5' = 0 => v2'[v1'].active <= Cardinality(Counted')
      BY <1>0, <2>0, <3>2, <3>3
    <3> QED
      BY <2>0, <3>1, <3>2, <3>4 DEF QuotaCovered
  <2> QED
    BY <1>5, <2>1, <2>2, MemoryFinish DEF Q!FinishRead
<1>6. ASSUME NEW e \in Errands, NEW p \in Processes, Q!FinishDecr(e, p) PROVE QuotaCovered'
  <2>1. /\ Counted' = Counted \ {e} /\ v1' = v1
        /\ \A x \in Errands : v4'[x].day = v4[x].day
    BY <1>6 DEF Q!FinishDecr, Counted, QuotaTypeInv
  <2>2. v5' = 0 => v5 = 0 /\ v2' = [v2 EXCEPT ![v4[e].day].active = @ - 1]
    BY <1>6, MemoryFinish DEF Q!FinishDecr
  <2>3. /\ v4[e].day \in Q!Dates /\ v4[e].day <= v1
        /\ e \in Counted <=> v4[e].day = v1
    BY <1>6 DEF Q!FinishDecr, Counted, QuotaTypeInv, QuotaCovered
  <2>4. ASSUME v5' = 0
        PROVE /\ v2'[v1].active <= Cardinality(Counted')
              /\ \A d \in Q!Dates : d > v1 => v2'[d].active = 0
    <3>1. v2'[v1].active = IF v4[e].day = v1 THEN v2[v1].active - 1 ELSE v2[v1].active
      BY <1>0, <2>2, <2>3, <2>4 DEF QuotaTypeInv
    <3>2. \A d \in Q!Dates : d > v1 => d # v4[e].day
      BY <2>3, <1>0 DEF Q!Dates
    <3>3. \A d \in Q!Dates : d > v1 => v2'[d].active = v2[d].active
      BY <2>2, <3>2, <2>4 DEF QuotaTypeInv
    <3>4. Cardinality(Counted') = IF v4[e].day = v1 THEN Cardinality(Counted) - 1 ELSE Cardinality(Counted)
      BY <1>4, <2>1, <2>3
    <3>5. v2[v1].active <= Cardinality(Counted) /\ \A d \in Q!Dates : d > v1 => v2[d].active = 0
      BY <2>2, <2>4 DEF QuotaCovered
    <3>6. v2'[v1].active <= Cardinality(Counted')
      BY <1>0, <3>1, <3>4, <3>5
    <3> QED
      BY <3>3, <3>5, <3>6
  <2> QED
    BY <1>4, <2>1, <2>4 DEF QuotaCovered
<1> QED
  BY <1>1, <1>2, <1>3, <1>5, <1>6 DEF Q!QuotaNext

LEMMA QuotaSteps == QuotaInv /\ [Next]_vars => QuotaInv'
<1> SUFFICES ASSUME QuotaInv, [Next]_vars, part' = "quota"
             PROVE QuotaTypeInv' /\ QuotaCovered'
  BY DEF QuotaInv
<1>1. CASE UNCHANGED vars
  <2>1. Counted' = Counted
    BY <1>1 DEF vars, Counted
  <2> QED
    BY <1>1, <2>1 DEF vars, QuotaInv, QuotaTypeInv, QuotaCovered
<1>2. CASE Next
  BY <1>2, QuotaStepTypes, QuotaStepCovered DEF QuotaInv, Next
<1> QED
  BY <1>1, <1>2

\* As long as Redis answers, no count left over holds a tenant back, for any
\* number of tasks, processes and days (tenant_quota.py:238).
THEOREM NoGhostQuotaHolds == Spec => []NoGhostQuota
<1>1. QuotaInv => NoGhostQuota
  <2> SUFFICES ASSUME QuotaInv, part = "quota" PROVE Q!SharedQuotaTypeOK /\ Q!NoGhostQuota
    BY DEF NoGhostQuota
  <2>1. Q!SharedQuotaTypeOK
    BY DEF QuotaInv, QuotaTypeInv, Q!SharedQuotaTypeOK, Uses, Stages
  <2>2. ASSUME v5 = 0, \A e \in Errands : v4[e].at \notin {"running", "read"}
        PROVE v2[v1].active <= 0
    <3>1. Counted = {}
      BY <2>2 DEF Counted
    <3> QED
      BY <2>2, <3>1, FS_EmptySet DEF QuotaInv, QuotaCovered
  <2> QED
    BY <2>1, <2>2 DEF Q!NoGhostQuota
<1> QED
  BY <1>1, QuotaStart, QuotaSteps, PTL DEF Spec

-----------------------------------------------------------------------------
(* Proof for skills                                                        *)

\* The empty definition and the files made of it.
LEMMA BlankFiles ==
    /\ S!Blank \in AnyDraft /\ S!Sound(S!Blank)
    /\ S!NoFile \in Files /\ S!NoFile.status = "absent"
<1>1. S!Blank \in AnyDraft /\ S!Sound(S!Blank)
  BY DEF AnyDraft, S!Sound, S!Blank
<1> QED
  BY <1>1 DEF S!NoFile, S!File, Files, S!Statuses

LEMMA IdleClerk == S!NoRequest \in ClerkRows /\ ClerkSound(S!NoRequest)
<1>1. S!NoRequest.skill \in Skills \cup {S!NoRequest.skill}
  OBVIOUS
<1>2. /\ S!NoRequest.kind = "none" /\ S!NoRequest.pc = "idle" /\ S!NoRequest.draft = S!Blank
      /\ S!NoRequest.ver = 0 /\ S!NoRequest.seen = S!NoFile
  BY DEF S!NoRequest
<1>3. S!NoRequest = [kind |-> "none", skill |-> S!NoRequest.skill, pc |-> "idle",
                     draft |-> S!Blank, ver |-> 0, seen |-> S!NoFile]
  BY DEF S!NoRequest
<1>4. S!NoRequest \in ClerkRows
  BY <1>1, <1>3, BlankFiles DEF ClerkRows, Kinds, Points
<1> QED
  BY <1>2, <1>4 DEF ClerkSound

\* What the registry serves as a definition is a file; a published one is sound.
LEMMA LoadedFile ==
    ASSUME SkillsState, NEW s \in Skills
    PROVE  /\ S!LoadDefinition(s) \in Files
           /\ S!LoadDefinition(s).status = "published" => S!Sound(S!LoadDefinition(s).draft)
<1>1. CASE s \in BuiltinSkills
  BY <1>1, BlankFiles DEF S!LoadDefinition, S!File, Files, S!Statuses
<1>2. CASE s \notin BuiltinSkills
  BY <1>2 DEF S!LoadDefinition, SkillsState, SkillsTypeInv, S!PublishedWasValidated
<1> QED
  BY <1>1, <1>2

\* What the store writes is published only by publish, with the draft it read.
LEMMA WrittenFile ==
    ASSUME NEW r \in ClerkRows, NEW f \in Files,
           r.kind \in {"save", "clone", "publish", "archived", "disabled"}
    PROVE  /\ S!NewFile(r, f) \in Files
           /\ S!NewFile(r, f).status = "published" => r.kind = "publish"
           /\ r.kind = "publish" => S!NewFile(r, f).draft = f.draft
<1> USE DEF S!NewFile, S!File, Files, ClerkRows, S!Statuses
<1>1. CASE r.kind = "save"
  BY <1>1
<1>2. CASE r.kind = "clone"
  BY <1>2
<1>3. CASE r.kind = "publish"
  BY <1>3
<1>4. CASE r.kind \in {"archived", "disabled"}
  BY <1>4
<1> QED
  BY <1>1, <1>2, <1>3, <1>4

\* One clerk's request becomes r, and the files and snapshots stay sound.
LEMMA ClerkChange ==
    ASSUME SkillsState, NEW c \in Clerks, NEW r \in ClerkRows, ClerkSound(r),
           v6' = [v6 EXCEPT ![c] = r],
           v1' \in [Skills -> Files],
           \A s \in Skills : v1'[s].status = "published" => S!Sound(v1'[s].draft),
           v2' \in Archive, SnapshotsSound', v4' = v4, S!Sound(v8'.draft)
    PROVE  SkillsState'
<1>1. SkillsTypeInv'
  BY DEF SkillsState, SkillsTypeInv
<1>2. \A x \in Clerks : ClerkSound(v6'[x])
  BY DEF SkillsState, SkillsTypeInv
<1>3. S!PublishedWasValidated'
  BY DEF S!PublishedWasValidated
<1> QED
  BY <1>1, <1>2, <1>3 DEF SkillsState

\* The same where only the clerk moves.
LEMMA OnlyClerk ==
    ASSUME SkillsState, NEW c \in Clerks, NEW r \in ClerkRows, ClerkSound(r),
           v6' = [v6 EXCEPT ![c] = r], UNCHANGED <<v1, v2, v4, v8>>
    PROVE  SkillsState'
<1>1. v1' \in [Skills -> Files] /\ v2' \in Archive
  BY DEF SkillsState, SkillsTypeInv
<1>2. SnapshotsSound'
  BY DEF SkillsState, SnapshotsSound
<1>3. /\ \A s \in Skills : v1'[s].status = "published" => S!Sound(v1'[s].draft)
      /\ S!Sound(v8'.draft)
  BY DEF SkillsState, S!PublishedWasValidated
<1> QED
  BY <1>1, <1>2, <1>3, ClerkChange

\* The request of a clerk that goes on with the file f.
LEMMA ClerkGoes ==
    ASSUME SkillsState, NEW c \in Clerks, NEW pc \in Points, NEW f \in Files, S!Goes(c, pc, f)
    PROVE  /\ [v6[c] EXCEPT !.pc = pc, !.seen = f] \in ClerkRows
           /\ v6' = [v6 EXCEPT ![c] = [v6[c] EXCEPT !.pc = pc, !.seen = f]]
           /\ v6[c] \in ClerkRows
           /\ v6[c].pc # "idle" /\ pc = "write" /\ f.status # "published" => ClerkSound([v6[c] EXCEPT !.pc = pc, !.seen = f])
           /\ v6[c].pc # "idle" /\ pc = "write" /\ S!Sound(f.draft) => ClerkSound([v6[c] EXCEPT !.pc = pc, !.seen = f])
<1>1. v6[c] \in ClerkRows
  BY DEF SkillsState, SkillsTypeInv
<1>2. [v6[c] EXCEPT !.pc = pc, !.seen = f] \in ClerkRows
  BY <1>1 DEF ClerkRows
<1>3. v6' = [v6 EXCEPT ![c] = [v6[c] EXCEPT !.pc = pc, !.seen = f]]
  BY DEF S!Goes, SkillsState, SkillsTypeInv
<1>4. /\ [v6[c] EXCEPT !.pc = pc, !.seen = f].pc = pc
      /\ [v6[c] EXCEPT !.pc = pc, !.seen = f].seen = f
      /\ [v6[c] EXCEPT !.pc = pc, !.seen = f].skill = v6[c].skill
  BY <1>1 DEF ClerkRows
<1>5. v6[c].pc # "idle" => v6[c].skill \in Skills
  BY DEF SkillsState, ClerkSound
<1> QED
  BY <1>1, <1>2, <1>3, <1>4, <1>5 DEF ClerkSound

LEMMA ClerkDone ==
    ASSUME SkillsState, NEW c \in Clerks, S!Done1(c), UNCHANGED <<v1, v2, v4, v8>>
    PROVE  SkillsState'
  BY IdleClerk, OnlyClerk DEF S!Done1

\* A clerk takes a request.
LEMMA RequestSteps == ASSUME SkillsState, NEW c \in Clerks, S!Requests(c) PROVE SkillsState'
<1>0. SkillsTypeInv
  BY DEF SkillsState
<1>1. ASSUME NEW kind \in Kinds, NEW s \in Skills, NEW d \in AnyDraft, NEW ver \in Nat, NEW seen \in Files,
             S!Take(c, kind, s, d, ver, seen), kind = "rollback" => ver \in Versions
      PROVE  SkillsState'
  <2> DEFINE r == [kind |-> kind, skill |-> s, pc |-> "read", draft |-> d, ver |-> ver, seen |-> seen]
  <2>1. r \in ClerkRows /\ ClerkSound(r)
    BY <1>1 DEF ClerkRows, ClerkSound, Points
  <2>2. v6' = [v6 EXCEPT ![c] = r] /\ UNCHANGED <<v1, v2, v4, v8>>
    BY <1>1 DEF S!Take
  <2> HIDE DEF r
  <2> QED
    BY <2>1, <2>2, OnlyClerk
<1>2. ASSUME NEW s \in Skills, NEW d \in S!Drafts, S!CreateSkill(c, s, d) \/ S!UpdateSkill(c, s, d)
      PROVE  SkillsState'
  <2>1. d \in AnyDraft /\ v1[s] \in Files /\ v1[s].ver \in Nat /\ "save" \in Kinds
    BY <1>0 DEF SkillsTypeInv, AnyDraft, Files, Kinds
  <2> QED
    BY <1>1, <1>2, <2>1, BlankFiles DEF S!CreateSkill, S!UpdateSkill
<1>3. ASSUME NEW s \in Skills, NEW t \in Skills, S!CloneSkill(c, s, t) PROVE SkillsState'
  <2>1. S!LoadDefinition(s).draft \in AnyDraft /\ "clone" \in Kinds
    BY LoadedFile DEF Files, Kinds
  <2> QED
    BY <1>1, <1>3, <2>1, BlankFiles DEF S!CloneSkill
<1>4. ASSUME NEW s \in Skills, NEW kind \in {"publish", "archived", "disabled", "delete", "attach"},
             S!Take(c, kind, s, S!Blank, 0, S!NoFile)
      PROVE  SkillsState'
  <2>1. kind \in Kinds /\ kind # "rollback"
    BY DEF Kinds
  <2> QED
    BY <1>1, <1>4, <2>1, BlankFiles
<1>5. ASSUME NEW s \in Skills, NEW v \in 0 .. MaxVersion, S!RollbackSkill(c, s, v) PROVE SkillsState'
  <2>1. "rollback" \in Kinds /\ v \in Nat /\ v \in Versions
    BY DEF Kinds, Versions
  <2> QED
    BY <1>1, <1>5, <2>1, BlankFiles DEF S!RollbackSkill
<1> QED
  BY <1>2, <1>3, <1>4, <1>5
     DEF S!Requests, S!PublishSkill, S!ArchiveSkill, S!DisableSkill, S!DeleteSkill, S!AttachSkill

\* The store reads, and goes on with a file or gives up.
LEMMA ReadSteps ==
    ASSUME SkillsState, NEW c \in Clerks,
           S!ReadDraft(c) \/ S!ReadStatus(c) \/ S!ReadClone(c) \/ S!ReadPublish(c) \/ S!Rollback(c)
    PROVE  SkillsState'
<1> DEFINE r == v6[c]
           f == v1[r.skill]
<1>0. /\ r \in ClerkRows /\ r.pc = "read" /\ r.skill \in Skills /\ f \in Files
      /\ f.status = "published" => S!Sound(f.draft)
      /\ r.kind = "rollback" => r.ver \in Versions
      /\ "write" \in Points /\ "snapshot" \in Points
      /\ UNCHANGED <<v1, v2, v4, v8>>
  <2>1. r.pc = "read" /\ UNCHANGED <<v1, v2, v4, v8>>
    BY DEF S!ReadDraft, S!ReadStatus, S!ReadClone, S!ReadPublish, S!Rollback
  <2>2. r \in ClerkRows /\ r.skill \in Skills /\ (r.kind = "rollback" => r.ver \in Versions)
    BY <2>1 DEF SkillsState, SkillsTypeInv, ClerkSound
  <2> QED
    BY <2>1, <2>2 DEF SkillsState, SkillsTypeInv, Points, S!PublishedWasValidated
<1>1. ASSUME S!Done1(c) PROVE SkillsState'
  BY <1>0, <1>1, ClerkDone
<1>2. ASSUME NEW g \in Files, S!Goes(c, "write", g), g.status # "published" \/ S!Sound(g.draft)
      PROVE  SkillsState'
  BY <1>0, <1>2, ClerkGoes, OnlyClerk
<1>3. ASSUME NEW g \in Files, r.kind \in {"save", "clone", "archived", "disabled"},
             S!Goes(c, "write", S!NewFile(r, g))
      PROVE  SkillsState'
  <2>1. S!NewFile(r, g) \in Files /\ S!NewFile(r, g).status # "published"
    BY <1>0, <1>3, WrittenFile
  <2> QED
    BY <1>3, <1>2, <2>1
<1>4. CASE S!ReadDraft(c)
  BY <1>0, <1>3, <1>4 DEF S!ReadDraft
<1>5. CASE S!ReadStatus(c)
  BY <1>0, <1>1, <1>3, <1>5 DEF S!ReadStatus
<1>6. CASE S!ReadClone(c)
  BY <1>0, <1>1, <1>3, <1>6, BlankFiles DEF S!ReadClone
<1>7. CASE S!ReadPublish(c)
  <2>1. ASSUME NEW g \in Files, S!Goes(c, "snapshot", g), S!Sound(g.draft) PROVE SkillsState'
    <3> DEFINE n == [v6[c] EXCEPT !.pc = "snapshot", !.seen = g]
    <3>1. n \in ClerkRows /\ v6' = [v6 EXCEPT ![c] = n]
      <4>1. "snapshot" \in Points
        BY DEF Points
      <4>2. n \in ClerkRows
        BY <2>1, <4>1, ClerkGoes
      <4>3. v6' = [v6 EXCEPT ![c] = n]
        BY <2>1, <4>1, ClerkGoes
      <4> QED
        BY <4>2, <4>3
    <3>2. n.pc = "snapshot" /\ n.seen = g /\ n.kind = "publish" /\ n.skill = r.skill
      BY <1>0, <1>7 DEF ClerkRows, S!ReadPublish
    <3>3. ClerkSound(n)
      BY <1>0, <2>1, <3>2 DEF ClerkSound
    <3> HIDE DEF n
    <3> QED
      BY <1>0, <3>1, <3>3, OnlyClerk
  <2>2. S!ValidateSkillDefinition(f.draft) => S!Sound(f.draft)
    BY DEF S!Sound, S!ValidateSkillDefinition, SkillsState, SkillsTypeInv
  <2> QED
    BY <1>0, <1>1, <1>7, <2>1, <2>2 DEF S!ReadPublish
<1>8. CASE S!Rollback(c)
  <2>1. CASE v2[r.skill][r.ver] # <<>> /\ S!Goes(c, "write", S!File("published", r.ver, v2[r.skill][r.ver][1]))
    <3> DEFINE snap == v2[r.skill][r.ver]
               g == S!File("published", r.ver, snap[1])
    <3>1. r.kind = "rollback" /\ r.ver \in Nat
      BY <1>0, <1>8 DEF S!Rollback, ClerkRows
    <3>2. snap[1] \in AnyDraft /\ S!Sound(snap[1])
      BY <1>0, <2>1, <3>1 DEF SkillsState, SkillsTypeInv, Archive, SnapshotsSound
    <3>3. g \in Files /\ g.draft = snap[1]
      BY <3>1, <3>2 DEF Files, S!File, S!Statuses
    <3> QED
      BY <2>1, <3>2, <3>3, <1>2
  <2> QED
    BY <1>1, <1>8, <2>1 DEF S!Rollback
<1> QED
  BY <1>4, <1>5, <1>6, <1>7, <1>8

\* The snapshot of what was validated, or none any more.
LEMMA SnapshotSteps ==
    ASSUME SkillsState, NEW c \in Clerks, S!ArchiveVersion(c) \/ S!DeleteVersions(c)
    PROVE  SkillsState'
<1> DEFINE r == v6[c]
<1>0. /\ r \in ClerkRows /\ ClerkSound(r) /\ UNCHANGED <<v1, v4, v8>> /\ v1 \in [Skills -> Files]
      /\ \A s \in Skills : v1[s].status = "published" => S!Sound(v1[s].draft)
      /\ S!Sound(v8.draft)
  BY DEF S!ArchiveVersion, S!DeleteVersions, SkillsState, SkillsTypeInv, S!PublishedWasValidated
<1>1. CASE S!ArchiveVersion(c)
  <2>1. /\ r.pc = "snapshot" /\ r.kind = "publish" /\ S!Sound(r.seen.draft) /\ r.seen \in Files
        /\ r.seen.draft \in AnyDraft
    BY <1>0, <1>1 DEF S!ArchiveVersion, ClerkSound, ClerkRows, Files
  <2>2. v2' = [v2 EXCEPT ![r.skill][r.seen.ver] = <<r.seen.draft>>]
    BY <1>1 DEF S!ArchiveVersion
  <2>3. v2' \in Archive
    BY <2>1, <2>2 DEF SkillsState, SkillsTypeInv, Archive
  <2>4. SnapshotsSound'
    BY <2>1, <2>2 DEF SkillsState, SkillsTypeInv, Archive, SnapshotsSound
  <2> DEFINE g == S!NewFile(r, r.seen)
             n == [r EXCEPT !.pc = "write", !.seen = g]
  <2>5. g \in Files /\ S!Sound(g.draft)
    BY <1>0, <2>1, WrittenFile
  <2>6. n \in ClerkRows /\ ClerkSound(n) /\ v6' = [v6 EXCEPT ![c] = n]
    <3>1. S!Goes(c, "write", g) /\ "write" \in Points
      BY <1>1 DEF S!ArchiveVersion, Points
    <3> HIDE DEF g
    <3> QED
      BY <2>1, <2>5, <3>1, ClerkGoes
  <2> HIDE DEF n
  <2> QED
    BY <1>0, <2>3, <2>4, <2>6, ClerkChange
<1>2. CASE S!DeleteVersions(c)
  <2>1. v2' = [v2 EXCEPT ![r.skill] = [v \in Versions |-> <<>>]] /\ v6' = [v6 EXCEPT ![c] = S!NoRequest]
    BY <1>2 DEF S!DeleteVersions, S!Done1, Versions
  <2>2. v2' \in Archive
    BY <2>1 DEF SkillsState, SkillsTypeInv, Archive
  <2>3. SnapshotsSound'
    BY <2>1 DEF SkillsState, SkillsTypeInv, Archive, SnapshotsSound
  <2> QED
    BY <1>0, <2>1, <2>2, <2>3, IdleClerk, ClerkChange
<1> QED
  BY <1>1, <1>2

\* The file is replaced whole, or removed.
LEMMA FileSteps ==
    ASSUME SkillsState, NEW c \in Clerks, S!WriteDefinition(c) \/ S!Delete(c)
    PROVE  SkillsState'
<1> DEFINE r == v6[c]
<1>0. /\ r \in ClerkRows /\ ClerkSound(r) /\ UNCHANGED <<v2, v4, v8>>
      /\ v1 \in [Skills -> Files] /\ v2 \in Archive /\ SnapshotsSound
      /\ \A s \in Skills : v1[s].status = "published" => S!Sound(v1[s].draft)
      /\ S!Sound(v8.draft)
  BY DEF S!WriteDefinition, S!Delete, SkillsState, SkillsTypeInv, S!PublishedWasValidated
<1>1. v2' \in Archive /\ SnapshotsSound' /\ S!Sound(v8'.draft)
  BY <1>0 DEF SnapshotsSound
\* The clerk goes on with n once the file of its skill is g.
<1>2. ASSUME NEW g \in Files, g.status = "published" => S!Sound(g.draft),
             v1' = [v1 EXCEPT ![r.skill] = g],
             NEW n \in ClerkRows, ClerkSound(n), v6' = [v6 EXCEPT ![c] = n]
      PROVE  SkillsState'
  <2>1. v1' \in [Skills -> Files] /\ \A s \in Skills : v1'[s].status = "published" => S!Sound(v1'[s].draft)
    BY <1>0, <1>2
  <2> QED
    BY <1>0, <1>1, <1>2, <2>1, ClerkChange
<1>3. CASE S!WriteDefinition(c)
  <2>1. /\ r.pc = "write" /\ r.seen \in Files /\ v1' = [v1 EXCEPT ![r.skill] = r.seen]
        /\ r.seen.status = "published" => S!Sound(r.seen.draft)
    BY <1>0, <1>3 DEF S!WriteDefinition, ClerkSound, ClerkRows
  <2>2. CASE S!Done1(c)
    BY <1>2, <2>1, <2>2, IdleClerk DEF S!Done1
  <2>3. CASE r.kind = "clone" /\ v6' = [v6 EXCEPT ![c].kind = "save", ![c].pc = "read"]
    <3> DEFINE n == [r EXCEPT !.kind = "save", !.pc = "read"]
    <3>1. n \in ClerkRows /\ v6' = [v6 EXCEPT ![c] = n]
      BY <1>0, <2>3 DEF ClerkRows, Kinds, Points, SkillsState, SkillsTypeInv
    <3>2. ClerkSound(n)
      BY <1>0, <2>1 DEF ClerkRows, ClerkSound
    <3> HIDE DEF n
    <3> QED
      BY <1>2, <2>1, <3>1, <3>2
  <2> QED
    BY <1>3, <2>2, <2>3 DEF S!WriteDefinition
<1>4. CASE S!Delete(c)
  <2>1. CASE S!Done1(c) /\ v1' = v1
    BY <1>0, <2>1, ClerkDone
  <2>2. CASE v1' = [v1 EXCEPT ![r.skill] = S!NoFile] /\ S!Goes(c, "forget", S!NoFile)
    <3> DEFINE n == [r EXCEPT !.pc = "forget", !.seen = S!NoFile]
    <3>1. n \in ClerkRows /\ v6' = [v6 EXCEPT ![c] = n]
      BY <2>2, ClerkGoes, BlankFiles DEF Points
    <3>2. ClerkSound(n)
      BY <1>0, <1>4 DEF S!Delete, ClerkRows, ClerkSound
    <3> HIDE DEF n
    <3> QED
      BY <1>2, <2>2, <3>1, <3>2, BlankFiles
  <2> QED
    BY <1>4, <2>1, <2>2 DEF S!Delete
<1> QED
  BY <1>3, <1>4

\* A task starts under a skill that is published.
LEMMA AttachStep == ASSUME SkillsState, NEW c \in Clerks, S!Attach(c) PROVE SkillsState'
<1> DEFINE f == S!LoadDefinition(v6[c].skill)
<1>1. v6[c].skill \in Skills /\ v6' = [v6 EXCEPT ![c] = S!NoRequest] /\ UNCHANGED <<v1, v2, v4>>
  BY DEF S!Attach, S!Done1, SkillsState, ClerkSound
<1>2. v8' = v8 \/ (f.status = "published" /\ v8'.draft = f.draft)
  BY DEF S!Attach, S!IsUsableByTask
<1>3. S!Sound(v8'.draft)
  BY <1>1, <1>2, LoadedFile DEF SkillsState, S!PublishedWasValidated
<1>4. /\ v1' \in [Skills -> Files] /\ v2' \in Archive /\ SnapshotsSound'
      /\ \A s \in Skills : v1'[s].status = "published" => S!Sound(v1'[s].draft)
  BY <1>1 DEF SkillsState, SkillsTypeInv, SnapshotsSound, S!PublishedWasValidated
<1> QED
  BY <1>1, <1>3, <1>4, IdleClerk, ClerkChange

LEMMA SkillsSteps == SkillsInv /\ [Next]_vars => SkillsInv'
<1> SUFFICES ASSUME SkillsInv, [Next]_vars, part' = "skills" PROVE SkillsState'
  BY DEF SkillsInv
<1>0. ASSUME SkillsState, UNCHANGED <<v1, v2, v6, v8>>, v4' \subseteq OwnTools \cup LentTools
      PROVE SkillsState'
  BY <1>0 DEF SkillsState, SkillsTypeInv, SnapshotsSound, S!PublishedWasValidated
<1>1. CASE UNCHANGED vars
  <2>1. SkillsState
    BY <1>1 DEF vars, SkillsInv
  <2> QED
    BY <1>0, <1>1, <2>1 DEF vars, SkillsState, SkillsTypeInv
<1>2. CASE Next
  <2>1. SkillsState /\ S!SkillsNext
    BY <1>2 DEF Next, SkillsInv
  <2>2. ASSUME NEW c \in Clerks, S!Requests(c) \/ S!StoreSteps(c) PROVE SkillsState'
    BY <2>1, <2>2, RequestSteps, ReadSteps, SnapshotSteps, FileSteps, AttachStep DEF S!StoreSteps
  <2>3. ASSUME NEW banned \in SUBSET Skills, S!SetGlobalDisabled(banned) PROVE SkillsState'
    BY <2>1, <2>3, <1>0 DEF S!SetGlobalDisabled, SkillsState, SkillsTypeInv
  <2>4. ASSUME NEW up \in BOOLEAN, S!Probe(up) PROVE SkillsState'
    BY <2>1, <2>4, <1>0 DEF S!Probe, SkillsState, SkillsTypeInv
  <2>5. ASSUME NEW up \in BOOLEAN, S!Restart1(up) PROVE SkillsState'
    <3>1. /\ v4' \subseteq OwnTools \cup LentTools /\ UNCHANGED <<v1, v2, v8>>
          /\ v6' = [c \in Clerks |-> S!NoRequest]
      BY <2>5 DEF S!Restart1, S!BootstrapTools
    <3>2. SkillsTypeInv'
      BY <2>1, <3>1, IdleClerk DEF SkillsState, SkillsTypeInv
    <3>3. \A c \in Clerks : ClerkSound(v6'[c])
      BY <3>1, IdleClerk
    <3> QED
      BY <2>1, <3>1, <3>2, <3>3 DEF SkillsState, SnapshotsSound, S!PublishedWasValidated
  <2> QED
    BY <2>1, <2>2, <2>3, <2>4, <2>5 DEF S!SkillsNext
<1> QED
  BY <1>1, <1>2

\* Whatever the order of drafts, publications, rollbacks and deletions of any
\* number of threads, a published file and the definition a task was given have
\* a name and name tools that exist (skill_registry.py, skill_store.py).
THEOREM PublishedWasValidatedHolds == Spec => []PublishedWasValidated
<1>1. Init => SkillsInv
  <2> SUFFICES ASSUME Init, part = "skills" PROVE SkillsState
    BY DEF SkillsInv
  <2>1. S!SkillsInit
    BY DEF Init
  <2>2. SkillsTypeInv
    BY <2>1, BlankFiles, IdleClerk DEF S!SkillsInit, SkillsTypeInv, Archive, Versions, S!BootstrapTools
  <2>3. \A s \in Skills, v \in Versions : v2[s][v] = <<>>
    BY <2>1 DEF S!SkillsInit, Versions
  <2>4. \A c \in Clerks : ClerkSound(v6[c])
    BY <2>1, IdleClerk DEF S!SkillsInit
  <2>5. S!PublishedWasValidated
    BY <2>1, BlankFiles DEF S!SkillsInit, S!PublishedWasValidated
  <2> QED
    BY <2>2, <2>3, <2>4, <2>5 DEF SkillsState, SnapshotsSound
<1>2. SkillsInv => PublishedWasValidated
  BY DEF SkillsInv, SkillsState, PublishedWasValidated
<1> QED
  BY <1>1, <1>2, SkillsSteps, PTL DEF Spec

-----------------------------------------------------------------------------
(* Proof for the answers of the model                                      *)

LEMMA AnswerConstants ==
    /\ Local \in Engines /\ \E e \in Engines : e # Local
    /\ Attempts \in Nat \ {0} /\ MaxSwaps \in Nat \ {0} /\ MaxAsks \in Nat
  BY ServicesAssumptions DEF ServicesAssumptions, A!AnswerAssumption

LEMMA IdleRequest ==
    A!NoRequest \in RequestRows /\ A!NoRequest.at = "idle" /\ A!NoRequest.out = "none"
  BY AnswerConstants DEF A!NoRequest, RequestRows, A!Caches, A!Purposes, A!Texts

LEMMA AnswerStart == Init => AnswersInv
<1> SUFFICES ASSUME Init, part = "answers" PROVE AnswersState
  BY DEF AnswersInv
<1>1. A!AnswersInit
  BY DEF Init
<1>2. v1 \in Engines
  BY <1>1, AnswerConstants DEF A!AnswersInit
<1>3. v3 = 1 /\ v4 = [e \in Engines |-> IF e = v1 THEN 1 ELSE 0] /\ v2 = FALSE /\ v5 = FALSE /\ v8 = 0
  BY <1>1 DEF A!AnswersInit
<1>4. A!NoRequest \in RequestRows /\ A!NoRequest.at = "idle" /\ A!NoRequest.out = "none"
  BY IdleRequest
<1>5. v6 \in Memos /\ \A c \in A!Caches, p \in A!Purposes, e \in Engines : v6[c][p][e] = {}
  BY <1>1 DEF A!AnswersInit, Memos
<1>6. v7 \in [Askers -> RequestRows] /\ \A a \in Askers : RequestFollows(v7[a])
  BY <1>1, <1>4 DEF A!AnswersInit, RequestFollows
<1>7. AnswersTypeInv
  <2>0. MaxSwaps \in Nat /\ MaxSwaps >= 1 /\ MaxAsks \in Nat
    BY AnswerConstants
  <2>1. v4 \in [Engines -> 0 .. MaxSwaps]
    BY <1>3, <2>0
  <2>2. v2 \in BOOLEAN /\ v5 \in BOOLEAN
    BY <1>3, Zenon
  <2>3. v3 = 1 /\ v8 = 0
    BY <1>3, Zenon
  <2>4. v3 \in 1 .. MaxSwaps /\ v8 \in 0 .. MaxAsks
    BY <2>0, <2>3
  <2> QED
    BY <1>2, <1>5, <1>6, <2>1, <2>2, <2>4 DEF AnswersTypeInv
<1> QED
  BY <1>2, <1>3, <1>5, <1>6, <1>7 DEF AnswersState, EngineLatest, MemoFollows

\* A request changes to r and the cache stays as it has to be.
LEMMA RequestChange ==
    ASSUME AnswersState, NEW a \in Askers, NEW r \in RequestRows, ~ v5 => RequestFollows(r),
           v7' = [v7 EXCEPT ![a] = r], UNCHANGED <<v1, v2, v3, v4, v5>>,
           v6' \in Memos, ~ v5 => MemoFollows', v8' \in 0 .. MaxAsks
    PROVE  AnswersState'
<1>1. AnswersTypeInv'
  BY DEF AnswersState, AnswersTypeInv
<1>2. EngineLatest'
  BY DEF AnswersState, EngineLatest
<1>3. ASSUME ~ v5, NEW b \in Askers PROVE RequestFollows(v7[b])'
  <2>1. v7'[b] = IF b = a THEN r ELSE v7[b]
    BY DEF AnswersState, AnswersTypeInv
  <2>2. RequestFollows(v7'[b])
    BY <1>3, <2>1 DEF AnswersState
  <2> QED
    BY <2>2 DEF RequestFollows
<1> QED
  BY <1>1, <1>2, <1>3 DEF AnswersState

LEMMA RequestOnly ==
    ASSUME AnswersState, NEW a \in Askers, NEW r \in RequestRows, ~ v5 => RequestFollows(r),
           v7' = [v7 EXCEPT ![a] = r], UNCHANGED <<v1, v2, v3, v4, v5, v6>>, v8' \in 0 .. MaxAsks
    PROVE  AnswersState'
<1>1. v6' \in Memos
  BY DEF AnswersState, AnswersTypeInv
<1>2. ~ v5 => MemoFollows'
  BY DEF AnswersState, MemoFollows
<1> QED
  BY <1>1, <1>2, RequestChange

\* An entry put under the key of a request, whose model is no older than it.
LEMMA MemoPut ==
    ASSUME AnswersState, NEW c \in A!Caches, NEW p \in A!Purposes, NEW e \in Engines,
           NEW h \in Entries, v6' = [v6 EXCEPT ![c][p][e] = {h}], v4' = v4,
           ~ v5 => v4[e] >= 1 /\ v4[h.by] >= v4[e]
    PROVE  v6' \in Memos /\ (~ v5 => MemoFollows')
<1>1. v6 \in Memos
  BY DEF AnswersState, AnswersTypeInv
<1>2. v6' \in Memos
  BY <1>1 DEF Memos
<1>3. ASSUME ~ v5 PROVE MemoFollows'
  <2> SUFFICES ASSUME NEW d \in A!Caches, NEW q \in A!Purposes, NEW f \in Engines, NEW g \in v6'[d][q][f]
               PROVE  v4[f] >= 1 /\ v4[g.by] >= v4[f]
    BY DEF MemoFollows
  <2>1. CASE d = c /\ q = p /\ f = e
    BY <1>1, <1>3, <2>1 DEF Memos
  <2>2. CASE ~ (d = c /\ q = p /\ f = e)
    <3>1. v6'[d][q][f] = v6[d][q][f]
      BY <1>1, <2>2 DEF Memos
    <3> QED
      BY <1>3, <3>1 DEF AnswersState, MemoFollows
  <2> QED
    BY <2>1, <2>2
<1> QED
  BY <1>2, <1>3

\* The entry of the function: the key is the configuration in force, and a hit
\* is no older than it.
LEMMA LookupFollows ==
    ASSUME AnswersState, NEW r \in RequestRows, ~ v5 => v4[r.began] >= 1
    PROVE  A!Lookup(r) \in RequestRows /\ (~ v5 => RequestFollows(A!Lookup(r)))
<1> DEFINE held == v6[r.way][r.purpose][v1]
<1>0. /\ r.way \in A!Caches /\ r.purpose \in A!Purposes /\ r.began \in Engines /\ v1 \in Engines
      /\ held \in SUBSET Entries /\ v4[v1] \in Nat /\ v4[r.began] \in Nat /\ v4[r.began] <= v4[v1]
  BY DEF RequestRows, AnswersState, AnswersTypeInv, Memos, EngineLatest
<1>1. CASE held = {}
  <2> DEFINE n == [r EXCEPT !.at = "keyed", !.key = v1]
  <2>1. A!Lookup(r) = n
    BY <1>1 DEF A!Lookup, A!Key
  <2>2. n \in RequestRows /\ n.at = "keyed" /\ n.key = v1 /\ n.began = r.began
    BY <1>0 DEF RequestRows
  <2> QED
    BY <1>0, <2>1, <2>2 DEF RequestFollows
<1>2. CASE held # {}
  <2> DEFINE hit == CHOOSE h \in held : TRUE
             at == IF r.way = "stream" THEN "billed" ELSE "idle"
             n == [r EXCEPT !.at = at, !.key = v1, !.by = hit.by, !.text = hit.text, !.out = "parsed"]
  <2>1. A!Lookup(r) = n
    BY <1>2 DEF A!Lookup, A!Key
  <2>2. hit \in held
    BY <1>2
  <2>3. hit \in Entries /\ (~ v5 => v4[hit.by] >= v4[v1])
    BY <1>0, <2>2 DEF AnswersState, MemoFollows
  <2>4. at \in {"billed", "idle"} /\ hit.by \in Engines /\ hit.text \in A!Texts
    BY <2>3 DEF Entries
  <2> HIDE DEF at, hit
  <2>5. n \in RequestRows /\ n.at = at /\ n.key = v1 /\ n.by = hit.by /\ n.began = r.began
    BY <1>0, <2>4 DEF RequestRows
  <2>6. v4[hit.by] \in Nat
    BY <2>4 DEF AnswersState, AnswersTypeInv
  <2> HIDE DEF n
  <2>7. ~ v5 => RequestFollows(n)
    BY <1>0, <2>3, <2>4, <2>5, <2>6 DEF RequestFollows
  <2> QED
    BY <2>1, <2>5, <2>7
<1> QED
  BY <1>1, <1>2

\* A change of the configuration; unless one comes back, what was taken from
\* an earlier one keeps its place.
LEMMA SwapStep == ASSUME AnswersState, A!Swap PROVE AnswersState'
<1>1. PICK e \in Engines \ {v1} :
         v1' = e /\ v4' = [v4 EXCEPT ![e] = v3'] /\ v5' = (v5 \/ v4[e] > 0)
  BY DEF A!Swap
<1>2. v3' = v3 + 1 /\ v3' \in 1 .. MaxSwaps /\ v3 \in Nat /\ v2' = TRUE /\ UNCHANGED <<v6, v7, v8>>
  BY AnswerConstants DEF A!Swap, AnswersState, AnswersTypeInv
<1>3. AnswersTypeInv'
  <2>1. v4' \in [Engines -> 0 .. MaxSwaps]
    BY <1>1, <1>2 DEF AnswersState, AnswersTypeInv
  <2>2. v5' \in BOOLEAN
    BY <1>1 DEF AnswersState, AnswersTypeInv
  <2> QED
    BY <1>1, <1>2, <2>1, <2>2 DEF AnswersState, AnswersTypeInv
<1>4. \A x \in Engines : v4[x] \in Nat /\ v4'[x] = IF x = e THEN v3 + 1 ELSE v4[x]
  BY <1>1, <1>2 DEF AnswersState, AnswersTypeInv
<1>5. EngineLatest'
  BY <1>1, <1>2, <1>4 DEF AnswersState, EngineLatest
<1>6. ~ v5' => ~ v5 /\ v4[e] = 0
  <2>1. ~ v5' => ~ v5 /\ ~ (v4[e] > 0)
    BY <1>1, Zenon
  <2>2. ~ (v4[e] > 0) => v4[e] = 0
    BY <1>4
  <2> QED
    BY <2>1, <2>2
<1>7. ASSUME ~ v5' PROVE \A x \in Engines : v4[x] >= 1 => v4'[x] = v4[x]
  BY <1>4, <1>6, <1>7
<1>8. ASSUME ~ v5' PROVE MemoFollows'
  <2> SUFFICES ASSUME NEW c \in A!Caches, NEW p \in A!Purposes, NEW f \in Engines, NEW h \in v6[c][p][f]
               PROVE  v4'[f] >= 1 /\ v4'[h.by] >= v4'[f]
    BY <1>2 DEF MemoFollows
  <2>1. h.by \in Engines
    BY DEF AnswersState, AnswersTypeInv, Memos, Entries
  <2>2. v4[f] >= 1 /\ v4[h.by] >= v4[f]
    BY <1>6, <1>8 DEF AnswersState, MemoFollows
  <2> QED
    BY <1>4, <1>7, <1>8, <2>1, <2>2
<1>9. ASSUME ~ v5', NEW a \in Askers PROVE RequestFollows(v7[a])'
  <2> DEFINE r == v7[a]
  <2>1. r.began \in Engines /\ r.key \in Engines /\ r.by \in Engines
    BY DEF AnswersState, AnswersTypeInv, RequestRows
  <2>2. RequestFollows(r)
    BY <1>6, <1>9 DEF AnswersState
  <2>3. v4[r.began] >= 1 => v4'[r.began] = v4[r.began]
    BY <1>7, <1>9, <2>1
  <2>4. v4[r.key] >= 1 => v4'[r.key] = v4[r.key]
    BY <1>7, <1>9, <2>1
  <2>5. v4[r.by] >= 1 => v4'[r.by] = v4[r.by]
    BY <1>7, <1>9, <2>1
  <2>6. v4[r.began] \in Nat /\ v4[r.key] \in Nat /\ v4[r.by] \in Nat
    BY <1>4, <2>1
  <2>7. v7'[a] = r
    BY <1>2
  <2> QED
    BY <2>2, <2>3, <2>4, <2>5, <2>6, <2>7 DEF RequestFollows
<1> QED
  BY <1>3, <1>5, <1>6, <1>8, <1>9 DEF AnswersState

\* The caches are cleared, or an entry is forgotten.
LEMMA CacheSteps == ASSUME AnswersState, A!Invalidate \/ A!Forget PROVE AnswersState'
<1>1. UNCHANGED <<v1, v3, v4, v5, v7, v8>> /\ v2' \in BOOLEAN
  BY DEF A!Invalidate, A!Forget, A!others, AnswersState, AnswersTypeInv
<1>2. v6 \in Memos
  BY DEF AnswersState, AnswersTypeInv
<1>3. /\ v6' \in Memos
      /\ \A c \in A!Caches, p \in A!Purposes, e \in Engines : v6'[c][p][e] \subseteq v6[c][p][e]
  <2>1. CASE A!Invalidate
    BY <2>1 DEF A!Invalidate, Memos
  <2>2. CASE A!Forget
    <3>1. PICK c \in A!Caches, p \in A!Purposes, e \in Engines : v6' = [v6 EXCEPT ![c][p][e] = {}]
      BY <2>2 DEF A!Forget
    <3> QED
      BY <1>2, <3>1 DEF Memos
  <2> QED
    BY <2>1, <2>2
<1>4. AnswersTypeInv' /\ EngineLatest'
  BY <1>1, <1>3 DEF AnswersState, AnswersTypeInv, EngineLatest
<1>5. ~ v5' => MemoFollows'
  BY <1>1, <1>3 DEF AnswersState, MemoFollows
<1>6. ~ v5' => \A a \in Askers : RequestFollows(v7[a])'
  BY <1>1 DEF AnswersState, RequestFollows
<1> QED
  BY <1>4, <1>5, <1>6 DEF AnswersState

\* A request begins, or is made again after an error.
LEMMA LookupSteps ==
    ASSUME AnswersState, NEW a \in Askers, A!Ask(a) \/ A!Retry(a) PROVE AnswersState'
<1>0. /\ v1 \in Engines /\ v4[v1] >= 1 /\ v7[a] \in RequestRows /\ (~ v5 => RequestFollows(v7[a]))
      /\ v8 \in 0 .. MaxAsks /\ v4[v1] \in Nat
  BY DEF AnswersState, AnswersTypeInv, EngineLatest
<1>1. CASE A!Ask(a)
  <2>1. PICK way \in A!Caches, purpose \in A!Purposes :
           v7' = [v7 EXCEPT ![a] = A!Lookup([A!NoRequest EXCEPT !.way = way, !.purpose = purpose, !.began = v1])]
    BY <1>1 DEF A!Ask
  <2> DEFINE r == [A!NoRequest EXCEPT !.way = way, !.purpose = purpose, !.began = v1]
  <2>2. r \in RequestRows /\ r.began = v1
    BY <1>0, IdleRequest DEF RequestRows
  <2>3. v8' \in 0 .. MaxAsks /\ UNCHANGED <<v1, v2, v3, v4, v5, v6>>
    <3>1. MaxAsks \in Nat
      BY AnswerConstants
    <3>2. v8 < MaxAsks /\ v8' = v8 + 1 /\ UNCHANGED <<v1, v2, v3, v4, v5, v6>>
      BY <1>1 DEF A!Ask, A!others
    <3> QED
      BY <1>0, <3>1, <3>2
  <2> HIDE DEF r
  <2>4. A!Lookup(r) \in RequestRows /\ (~ v5 => RequestFollows(A!Lookup(r)))
    BY <1>0, <2>2, LookupFollows
  <2>5. v7' = [v7 EXCEPT ![a] = A!Lookup(r)]
    BY <2>1 DEF r
  <2> QED
    BY <2>3, <2>4, <2>5, RequestOnly
<1>2. CASE A!Retry(a)
  <2> DEFINE r == [v7[a] EXCEPT !.try = @ + 1]
  <2>1. v7[a].at = "failed" /\ v7[a].try < Attempts /\ v7' = [v7 EXCEPT ![a] = A!Lookup(r)]
    BY <1>2 DEF A!Retry
  <2>2. r \in RequestRows /\ r.began = v7[a].began
    BY <1>0, <2>1, AnswerConstants DEF RequestRows
  <2>3. v8' \in 0 .. MaxAsks /\ UNCHANGED <<v1, v2, v3, v4, v5, v6>>
    BY <1>0, <1>2 DEF A!Retry, A!others
  <2>4. ~ v5 => v4[r.began] >= 1
    BY <1>0, <2>1, <2>2 DEF RequestFollows
  <2> HIDE DEF r
  <2>5. A!Lookup(r) \in RequestRows /\ (~ v5 => RequestFollows(A!Lookup(r)))
    BY <2>2, <2>4, LookupFollows
  <2> QED
    BY <2>1, <2>3, <2>5, RequestOnly
<1> QED
  BY <1>1, <1>2

\* The steps of a request that leave the caches alone.
LEMMA QuietSteps ==
    ASSUME AnswersState, NEW a \in Askers,
           A!Answer(a) \/ A!AnswerNothing(a) \/ A!Break(a) \/ A!GiveUp(a)
    PROVE  AnswersState'
<1> DEFINE r == v7[a]
<1>0. /\ r \in RequestRows /\ (~ v5 => RequestFollows(r)) /\ v8' \in 0 .. MaxAsks
      /\ UNCHANGED <<v1, v2, v3, v4, v5, v6>>
  BY DEF AnswersState, AnswersTypeInv, A!Answer, A!AnswerNothing, A!Break, A!GiveUp, A!others
<1>1. CASE A!Answer(a)
  <2>1. PICK t \in A!Texts : v7' = [v7 EXCEPT ![a].at = "answered", ![a].text = t]
    BY <1>1 DEF A!Answer
  <2> DEFINE n == [r EXCEPT !.at = "answered", !.text = t]
  <2>2. n \in RequestRows /\ v7' = [v7 EXCEPT ![a] = n]
    BY <1>0, <2>1 DEF RequestRows, AnswersState, AnswersTypeInv
  <2>3. ~ v5 => RequestFollows(n)
    BY <1>0, <1>1 DEF RequestRows, RequestFollows, A!Answer
  <2> HIDE DEF n
  <2> QED
    BY <1>0, <2>2, <2>3, RequestOnly
<1>2. CASE A!AnswerNothing(a)
  <2> DEFINE at == IF r.way = "structured" THEN "answered" ELSE "billed"
             n == [r EXCEPT !.at = at, !.text = "empty"]
  <2>1. v7' = [v7 EXCEPT ![a].text = "empty", ![a].at = at] /\ at \in {"answered", "billed"}
    BY <1>2 DEF A!AnswerNothing
  <2> HIDE DEF at
  <2>2. n \in RequestRows /\ v7' = [v7 EXCEPT ![a] = n]
    BY <1>0, <2>1 DEF RequestRows, AnswersState, AnswersTypeInv, A!Texts
  <2>3. n.at = at /\ n.by = r.by /\ n.key = r.key /\ n.began = r.began /\ r.at = "calling"
    BY <1>0, <1>2 DEF RequestRows, A!AnswerNothing
  <2> HIDE DEF n
  <2>4. ~ v5 => RequestFollows(n)
    BY <1>0, <2>1, <2>3 DEF RequestFollows
  <2> QED
    BY <1>0, <2>2, <2>4, RequestOnly
<1>3. CASE A!Break(a)
  <2> DEFINE n == [r EXCEPT !.at = "failed"]
  <2>1. n \in RequestRows /\ v7' = [v7 EXCEPT ![a] = n]
    BY <1>0, <1>3 DEF RequestRows, AnswersState, AnswersTypeInv, A!Break, A!Now
  <2>2. ~ v5 => RequestFollows(n)
    BY <1>0, <1>3 DEF RequestRows, RequestFollows, A!Break
  <2> HIDE DEF n
  <2> QED
    BY <1>0, <2>1, <2>2, RequestOnly
<1>4. CASE A!GiveUp(a)
  <2> DEFINE n == [r EXCEPT !.at = "idle", !.out = "error"]
  <2>1. n \in RequestRows /\ v7' = [v7 EXCEPT ![a] = n]
    BY <1>0, <1>4 DEF RequestRows, AnswersState, AnswersTypeInv, A!GiveUp, A!Over
  <2>2. ~ v5 => RequestFollows(n)
    BY <1>0 DEF RequestRows, RequestFollows
  <2> HIDE DEF n
  <2> QED
    BY <1>0, <2>1, <2>2, RequestOnly
<1> QED
  BY <1>1, <1>2, <1>3, <1>4

\* The model is taken now, after the key.
LEMMA GetLlmStep == ASSUME AnswersState, NEW a \in Askers, A!GetLlm(a) PROVE AnswersState'
<1> DEFINE r == v7[a]
<1>0. /\ r \in RequestRows /\ (~ v5 => RequestFollows(r)) /\ v8' \in 0 .. MaxAsks /\ r.at = "keyed"
      /\ UNCHANGED <<v1, v2, v3, v4, v5>> /\ v1 \in Engines
      /\ v4[r.key] \in Nat /\ v4[r.began] \in Nat /\ v4[v1] \in Nat /\ v4[r.key] <= v4[v1]
  BY DEF AnswersState, AnswersTypeInv, A!GetLlm, A!others, RequestRows, EngineLatest
<1>1. CASE v1 = Local
  <2> DEFINE n == [r EXCEPT !.at = "idle", !.by = Local, !.out = "parsed"]
  <2>1. /\ v7' = [v7 EXCEPT ![a].at = "idle", ![a].by = Local, ![a].out = "parsed"]
        /\ v6' = [v6 EXCEPT ![r.way][r.purpose][r.key] = {A!LocalAnswer}]
    BY <1>1 DEF A!GetLlm
  <2>2. A!LocalAnswer \in Entries /\ A!LocalAnswer.by = v1
    BY <1>1, AnswerConstants DEF A!LocalAnswer, Entries, A!Texts
  <2>3. r.way \in A!Caches /\ r.purpose \in A!Purposes /\ r.key \in Engines
    BY <1>0 DEF RequestRows
  <2>4. ~ v5 => v4[r.key] >= 1 /\ v4[A!LocalAnswer.by] >= v4[r.key]
    BY <1>0, <2>2 DEF RequestFollows
  <2>5. v6' \in Memos /\ (~ v5 => MemoFollows')
    BY <1>0, <2>1, <2>2, <2>3, <2>4, MemoPut
  <2>6. n \in RequestRows /\ v7' = [v7 EXCEPT ![a] = n]
    BY <1>0, <1>1, <2>1 DEF RequestRows, AnswersState, AnswersTypeInv
  <2>7. n.at = "idle" /\ n.by = v1 /\ n.began = r.began
    BY <1>0, <1>1 DEF RequestRows
  <2> HIDE DEF n
  <2>8. ~ v5 => RequestFollows(n)
    BY <1>0, <2>7 DEF RequestFollows
  <2> QED
    BY <1>0, <2>5, <2>6, <2>8, RequestChange
<1>2. CASE v1 # Local
  <2> DEFINE n == [r EXCEPT !.at = "calling", !.by = v1]
  <2>1. v7' = [v7 EXCEPT ![a].at = "calling", ![a].by = v1] /\ v6' = v6
    BY <1>2 DEF A!GetLlm
  <2>2. n \in RequestRows /\ v7' = [v7 EXCEPT ![a] = n]
    BY <1>0, <2>1 DEF RequestRows, AnswersState, AnswersTypeInv
  <2>3. n.at = "calling" /\ n.by = v1 /\ n.began = r.began /\ n.key = r.key
    BY <1>0 DEF RequestRows
  <2> HIDE DEF n
  <2>4. ~ v5 => RequestFollows(n)
    BY <1>0, <2>3 DEF RequestFollows
  <2> QED
    BY <1>0, <2>1, <2>2, <2>4, RequestOnly
<1> QED
  BY <1>1, <1>2

\* A text is billed and parsed; on the way it is cached under the key.
LEMMA CachingSteps == ASSUME AnswersState, NEW a \in Askers, A!Bill(a) \/ A!Parse(a) PROVE AnswersState'
<1> DEFINE r == v7[a]
           h == [by |-> r.by, text |-> r.text]
<1>0. /\ r \in RequestRows /\ (~ v5 => RequestFollows(r)) /\ v8' \in 0 .. MaxAsks
      /\ r.at \in {"answered", "billed"}
      /\ UNCHANGED <<v1, v2, v3, v4, v5>>
      /\ v4[r.key] \in Nat /\ v4[r.began] \in Nat /\ v4[r.by] \in Nat
  BY DEF AnswersState, AnswersTypeInv, A!Bill, A!Parse, A!others, RequestRows
<1>1. v6' \in Memos /\ (~ v5 => MemoFollows')
  <2>1. r.way \in A!Caches /\ r.purpose \in A!Purposes /\ r.key \in Engines /\ h \in Entries
    BY <1>0 DEF RequestRows, Entries
  <2>2. ~ v5 => v4[r.key] >= 1 /\ v4[h.by] >= v4[r.key]
    BY <1>0 DEF RequestFollows
  <2>3. CASE v6' = [v6 EXCEPT ![r.way][r.purpose][r.key] = {h}]
    BY <1>0, <2>1, <2>2, <2>3, MemoPut
  <2>4. CASE v6' = v6
    BY <1>0, <2>4 DEF AnswersState, AnswersTypeInv, MemoFollows
  <2> QED
    BY <2>3, <2>4 DEF A!Bill, A!Parse
<1>2. CASE A!Bill(a)
  <2> DEFINE n == [r EXCEPT !.at = "billed"]
  <2>1. n \in RequestRows /\ v7' = [v7 EXCEPT ![a] = n]
    BY <1>0, <1>2 DEF RequestRows, AnswersState, AnswersTypeInv, A!Bill, A!Now
  <2>2. n.at = "billed" /\ n.by = r.by /\ n.began = r.began /\ n.key = r.key
    BY <1>0 DEF RequestRows
  <2> HIDE DEF n
  <2>3. ~ v5 => RequestFollows(n)
    BY <1>0, <2>2 DEF RequestFollows
  <2> QED
    BY <1>0, <1>1, <2>1, <2>3, RequestChange
<1>3. CASE A!Parse(a)
  <2>1. PICK o \in A!Outcomes(r.way, r.purpose, r.text) :
           IF o = "error" THEN A!Now(a, "failed") ELSE A!Over(a, o)
    BY <1>3 DEF A!Parse
  <2>2. r.at = "billed"
    BY <1>3 DEF A!Parse
  <2>3. o \in {"parsed", "inner", "repaired", "fallback", "error"}
    BY DEF A!Outcomes, A!Extract, A!Objects, A!Closed, A!PlanAsked, A!Fallback, A!ReasoningAsked
  <2>4. CASE o = "error"
    <3> DEFINE n == [r EXCEPT !.at = "failed"]
    <3>1. n \in RequestRows /\ v7' = [v7 EXCEPT ![a] = n]
      BY <1>0, <2>1, <2>4 DEF RequestRows, AnswersState, AnswersTypeInv, A!Now
    <3>2. n.at = "failed" /\ n.began = r.began /\ n.key = r.key
      BY <1>0 DEF RequestRows
    <3> HIDE DEF n
    <3>3. ~ v5 => RequestFollows(n)
      BY <1>0, <3>2 DEF RequestFollows
    <3> QED
      BY <1>0, <1>1, <3>1, <3>3, RequestChange
  <2>5. CASE o # "error"
    <3> DEFINE n == [r EXCEPT !.at = "idle", !.out = o]
    <3>1. n \in RequestRows /\ v7' = [v7 EXCEPT ![a] = n]
      BY <1>0, <2>1, <2>3, <2>5 DEF RequestRows, AnswersState, AnswersTypeInv, A!Over
    <3>2. n.at = "idle" /\ n.by = r.by /\ n.began = r.began
      BY <1>0 DEF RequestRows
    <3> HIDE DEF n
    <3>3. ~ v5 => RequestFollows(n)
      BY <1>0, <3>2 DEF RequestFollows
    <3> QED
      BY <1>0, <1>1, <3>1, <3>3, RequestChange
  <2> QED
    BY <2>4, <2>5
<1> QED
  BY <1>2, <1>3

LEMMA AnswersSteps == AnswersInv /\ [Next]_vars => AnswersInv'
<1> SUFFICES ASSUME AnswersInv, [Next]_vars, part' = "answers" PROVE AnswersState'
  BY DEF AnswersInv
<1>1. CASE UNCHANGED vars
  <2>1. AnswersState
    BY <1>1 DEF vars, AnswersInv
  <2>2. AnswersTypeInv' /\ EngineLatest'
    BY <1>1, <2>1 DEF vars, AnswersState, AnswersTypeInv, EngineLatest
  <2>3. ~ v5' => MemoFollows' /\ \A a \in Askers : RequestFollows(v7[a])'
    BY <1>1, <2>1 DEF vars, AnswersState, MemoFollows, RequestFollows
  <2> QED
    BY <2>2, <2>3 DEF AnswersState
<1>2. CASE Next
  BY <1>2, SwapStep, CacheSteps, LookupSteps, QuietSteps, GetLlmStep, CachingSteps
     DEF Next, AnswersInv, A!AnswersNext
<1> QED
  BY <1>1, <1>2

\* As long as no configuration comes back, a request is never answered by one
\* that was replaced before it began, for any number of threads, requests and
\* configurations (runtime_model_config.py:115, llm_client.py:637).
THEOREM AnswersFollowConfigHolds == Spec => []AnswersFollowConfig
<1>1. AnswersInv => AnswersFollowConfig
  <2> SUFFICES ASSUME AnswersState PROVE A!AnswersTypeOK /\ A!AnswersFollowConfig
    BY DEF AnswersInv, AnswersFollowConfig
  <2>1. A!AnswersTypeOK
    BY DEF AnswersState, AnswersTypeInv, A!AnswersTypeOK, Memos, Entries, RequestRows
  <2>2. A!AnswersFollowConfig
    BY DEF AnswersState, A!AnswersFollowConfig, RequestFollows
  <2> QED
    BY <2>1, <2>2
<1> QED
  BY <1>1, AnswerStart, AnswersSteps, PTL DEF Spec

-----------------------------------------------------------------------------
(* Proof for dispatch                                                      *)

LEMMA DispatchConstants == MaxTickets \in Nat /\ MaxAgain \in Nat
  BY ServicesAssumptions DEF ServicesAssumptions, D!DispatchAssumption

LEMMA DispatchStart == Init => DispatchInv
<1> SUFFICES ASSUME Init, part = "dispatch" PROVE DispatchState
  BY DEF DispatchInv
<1>1. D!DispatchInit
  BY DEF Init
<1>2. v5 = <<>> /\ v5 \in Seq(TicketRows) /\ Len(v5) = 0
  BY <1>1 DEF D!DispatchInit
<1>3. DispatchTypeInv
  BY <1>1, <1>2, DispatchConstants DEF D!DispatchInit, DispatchTypeInv, D!TicketIds, D!Resting
<1>4. MailCounted /\ FiringUnsent /\ HandsOnRows
  BY <1>1, <1>2, DispatchConstants
     DEF D!DispatchInit, MailCounted, FiringUnsent, HandsOnRows, D!Resting
<1> QED
  BY <1>3, <1>4 DEF DispatchState

\* Schedules change and the queue does not.
LEMMA ScheduleChange ==
    ASSUME DispatchState, UNCHANGED <<v5, v6, v7, v8, v9>>,
           v1' \in [Schedules -> {"absent", "on", "off", "deleted"}], v2' \subseteq Schedules,
           v3' \in [Schedules -> SUBSET {"add", "remove"}],
           v4' \in [Schedules -> {"idle", "read", "stored"}],
           \A s \in Schedules : v4'[s] = "stored" => v4[s] = "stored"
    PROVE  DispatchState'
<1>1. DispatchTypeInv'
  BY DEF DispatchState, DispatchTypeInv
<1>2. MailCounted' /\ HandsOnRows'
  BY DEF DispatchState, MailCounted, HandsOnRows
<1>3. FiringUnsent'
  BY DEF DispatchState, FiringUnsent
<1> QED
  BY <1>1, <1>2, <1>3 DEF DispatchState

LEMMA ScheduleSteps ==
    ASSUME DispatchState,
           \/ D!RestartApi
           \/ \E s \in Schedules : D!Create(s) \/ D!Add(s) \/ D!DeleteRow(s) \/ D!Remove(s) \/ D!Fire(s)
    PROVE  DispatchState'
<1>0. /\ v1 \in [Schedules -> {"absent", "on", "off", "deleted"}] /\ v2 \subseteq Schedules
      /\ v3 \in [Schedules -> SUBSET {"add", "remove"}]
      /\ v4 \in [Schedules -> {"idle", "read", "stored"}]
  BY DEF DispatchState, DispatchTypeInv
<1>1. CASE D!RestartApi
  BY <1>0, <1>1, ScheduleChange DEF D!RestartApi, D!Registered
<1>2. ASSUME NEW s \in Schedules, D!Create(s) PROVE DispatchState'
  <2>1. UNCHANGED <<v2, v4, v5, v6, v7, v8, v9>>
    BY <1>2 DEF D!Create, D!queueSide
  <2>2. v1' \in [Schedules -> {"absent", "on", "off", "deleted"}] /\ v3' \in [Schedules -> SUBSET {"add", "remove"}]
    BY <1>0, <1>2 DEF D!Create
  <2> QED
    BY <1>0, <2>1, <2>2, ScheduleChange
<1>3. ASSUME NEW s \in Schedules, D!Add(s) \/ D!Remove(s) PROVE DispatchState'
  <2>1. UNCHANGED <<v1, v4, v5, v6, v7, v8, v9>>
    BY <1>3 DEF D!Add, D!Remove, D!queueSide
  <2>2. v2' \subseteq Schedules /\ v3' \in [Schedules -> SUBSET {"add", "remove"}]
    BY <1>0, <1>3 DEF D!Add, D!Remove, D!Registered
  <2> QED
    BY <1>0, <2>1, <2>2, ScheduleChange
<1>4. ASSUME NEW s \in Schedules, D!DeleteRow(s) PROVE DispatchState'
  <2>1. UNCHANGED <<v2, v4, v5, v6, v7, v8, v9>>
    BY <1>4 DEF D!DeleteRow, D!queueSide
  <2>2. v1' \in [Schedules -> {"absent", "on", "off", "deleted"}] /\ v3' \in [Schedules -> SUBSET {"add", "remove"}]
    BY <1>0, <1>4 DEF D!DeleteRow
  <2> QED
    BY <1>0, <2>1, <2>2, ScheduleChange
<1>5. ASSUME NEW s \in Schedules, D!Fire(s) PROVE DispatchState'
  <2>1. UNCHANGED <<v1, v2, v3, v5, v6, v7, v8, v9>>
    BY <1>5 DEF D!Fire, D!queueSide
  <2>2. /\ v4' \in [Schedules -> {"idle", "read", "stored"}]
        /\ \A x \in Schedules : v4'[x] = "stored" => v4[x] = "stored"
    BY <1>0, <1>5 DEF D!Fire
  <2> QED
    BY <1>0, <2>1, <2>2, ScheduleChange
<1> QED
  BY <1>1, <1>2, <1>3, <1>4, <1>5

\* A firing stores its entry: the schedule's newest one, without a message.
LEMMA PutTicketStep == ASSUME DispatchState, NEW s \in Schedules, D!PutTicket(s) PROVE DispatchState'
<1> DEFINE row == [of |-> s, status |-> "PENDING", runs |-> 0]
           n == Len(v5)
<1>0. /\ v5 \in Seq(TicketRows) /\ n \in Nat /\ n < MaxTickets /\ row \in TicketRows
      /\ v5' = Append(v5, row) /\ v4' = [v4 EXCEPT ![s] = "stored"]
      /\ UNCHANGED <<v1, v2, v3, v6, v7, v8, v9>>
  BY LenProperties DEF D!PutTicket, DispatchState, DispatchTypeInv, TicketRows
<1>1. /\ v5' \in Seq(TicketRows) /\ Len(v5') = n + 1
      /\ \A q \in 1 .. n : v5'[q] = v5[q]
      /\ v5'[n + 1] = row
  <2> HIDE DEF row
  <2> QED
    BY <1>0, AppendProperties
<1> HIDE DEF n
<1>2. DispatchTypeInv'
  <2>1. v6' \subseteq 1 .. Len(v5')
    BY <1>0, <1>1 DEF DispatchState, DispatchTypeInv, n
  <2>2. v4' \in [Schedules -> {"idle", "read", "stored"}]
    BY <1>0 DEF DispatchState, DispatchTypeInv
  <2>3. Len(v5') <= MaxTickets
    BY <1>0, <1>1, DispatchConstants
  <2> QED
    BY <1>0, <1>1, <2>1, <2>2, <2>3 DEF DispatchState, DispatchTypeInv
<1>3. MailCounted'
  BY <1>0, <1>1, DispatchConstants DEF DispatchState, MailCounted, D!TicketIds, n
<1>4. HandsOnRows'
  <2>1. \A h \in Hands : v8[h].ticket \in 0 .. MaxTickets
    BY DEF DispatchState, DispatchTypeInv
  <2> QED
    BY <1>0, <1>1, <2>1 DEF DispatchState, HandsOnRows, n
<1>5. FiringUnsent'
  <2> SUFFICES ASSUME NEW x \in Schedules, v4'[x] = "stored"
               PROVE  /\ \E q \in D!TicketIds : Newest(v5', x, q)
                      /\ \A q \in D!TicketIds : Newest(v5', x, q) => v7'[q] = 0
    BY DEF FiringUnsent
  <2>1. CASE x = s
    <3>1. n + 1 \in D!TicketIds
      BY <1>0, DispatchConstants DEF D!TicketIds
    <3>2. v5'[n + 1].of = s
      BY <1>1
    <3>3. Newest(v5', s, n + 1)
      BY <1>0, <1>1, <3>2 DEF Newest
    <3>4. \A q \in D!TicketIds : Newest(v5', s, q) => q = n + 1
      BY <1>0, <1>1, <3>2, DispatchConstants DEF Newest, D!TicketIds
    <3>5. v7[n + 1] = 0
      BY <1>0, <3>1 DEF DispatchState, MailCounted, n
    <3> QED
      BY <1>0, <2>1, <3>1, <3>3, <3>4, <3>5
  <2>2. CASE x # s
    <3>1. v4[x] = "stored"
      BY <1>0, <2>2 DEF DispatchState, DispatchTypeInv
    <3>2. v5'[n + 1].of # x
      BY <1>1, <2>2
    <3>3. \A q \in D!TicketIds : Newest(v5', x, q) <=> Newest(v5, x, q)
      BY <1>0, <1>1, <3>2, DispatchConstants DEF Newest, D!TicketIds, n
    <3> QED
      BY <1>0, <3>1, <3>3 DEF DispatchState, FiringUnsent
  <2> QED
    BY <2>1, <2>2
<1> QED
  BY <1>2, <1>3, <1>4, <1>5 DEF DispatchState

\* The firing sends the message of the entry it has stored, or fails to.
LEMMA SendStep == ASSUME DispatchState, NEW s \in Schedules, D!Send(s) PROVE DispatchState'
<1> DEFINE q == D!NewTicket(s)
<1>0. /\ v4[s] = "stored" /\ v4' = [v4 EXCEPT ![s] = "idle"]
      /\ UNCHANGED <<v1, v2, v3, v5, v8, v9>>
      /\ v6' = v6 \/ v6' = v6 \cup {q}
      /\ v7' = v7 \/ v7' = [v7 EXCEPT ![q] = @ + 1]
  BY DEF D!Send
<1>1. q \in D!TicketIds /\ q \in 1 .. Len(v5) /\ Newest(v5, s, q) /\ v7[q] = 0
  <2>1. PICK x \in D!TicketIds : Newest(v5, s, x)
    BY <1>0 DEF DispatchState, FiringUnsent
  <2>2. Newest(v5, s, q)
    BY <2>1 DEF Newest, D!NewTicket
  <2>3. q \in 1 .. Len(v5)
    BY <2>2 DEF Newest
  <2>4. q \in D!TicketIds
    BY <2>3, DispatchConstants, LenProperties DEF D!TicketIds, DispatchState, DispatchTypeInv
  <2> QED
    BY <1>0, <2>2, <2>3, <2>4 DEF DispatchState, FiringUnsent
<1> HIDE DEF q
<1>2. /\ v7' \in [D!TicketIds -> Nat]
      /\ \A x \in D!TicketIds : v7'[x] = v7[x] \/ (x = q /\ v7'[x] = 1)
  BY <1>0, <1>1 DEF DispatchState, DispatchTypeInv
<1>3. DispatchTypeInv'
  BY <1>0, <1>1, <1>2 DEF DispatchState, DispatchTypeInv
<1>4. MailCounted'
  <2>1. v9 \in Nat /\ Len(v5) \in Nat
    BY LenProperties DEF DispatchState, DispatchTypeInv
  <2> QED
    BY <1>0, <1>1, <1>2, <2>1 DEF DispatchState, MailCounted, D!TicketIds
<1>5. HandsOnRows'
  BY <1>0 DEF DispatchState, HandsOnRows
<1>6. FiringUnsent'
  <2> SUFFICES ASSUME NEW x \in Schedules, v4'[x] = "stored"
               PROVE  /\ \E y \in D!TicketIds : Newest(v5, x, y)
                      /\ \A y \in D!TicketIds : Newest(v5, x, y) => v7'[y] = 0
    BY <1>0 DEF FiringUnsent
  <2>1. v4[x] = "stored" /\ x # s
    BY <1>0 DEF DispatchState, DispatchTypeInv
  <2>2. ~ Newest(v5, x, q)
    BY <1>1, <2>1 DEF Newest
  <2> QED
    BY <1>2, <2>1, <2>2 DEF DispatchState, FiringUnsent
<1> QED
  BY <1>3, <1>4, <1>5, <1>6 DEF DispatchState

\* A message is delivered again, or received.
LEMMA MailSteps ==
    ASSUME DispatchState, NEW q \in D!TicketIds,
           D!Redeliver(q) \/ \E h \in Hands : D!Receive(h, q)
    PROVE  DispatchState'
<1>0. /\ v7 \in [D!TicketIds -> Nat] /\ v9 \in 0 .. MaxAgain /\ v7[q] > 0 /\ Len(v5) \in Nat
      /\ UNCHANGED <<v1, v2, v3, v4, v5, v6>>
  BY LenProperties DEF D!Redeliver, D!Receive, D!scheduleSide, DispatchState, DispatchTypeInv
<1>1. q \in 1 .. Len(v5)
  BY <1>0 DEF DispatchState, MailCounted, D!TicketIds
\* An entry that had no message has none now.
<1>2. ASSUME v7' \in [D!TicketIds -> Nat], \A x \in D!TicketIds : v7[x] = 0 => v7'[x] = 0
      PROVE  FiringUnsent'
  <2> SUFFICES ASSUME NEW s \in Schedules, v4[s] = "stored"
               PROVE  /\ \E x \in D!TicketIds : Newest(v5, s, x)
                      /\ \A x \in D!TicketIds : Newest(v5, s, x) => v7'[x] = 0
    BY <1>0 DEF FiringUnsent
  <2> QED
    BY <1>2 DEF DispatchState, FiringUnsent
<1>3. CASE D!Redeliver(q)
  <2>1. v7' = [v7 EXCEPT ![q] = @ + 1] /\ v9' = v9 + 1 /\ v9 < MaxAgain /\ v8' = v8
    BY <1>3 DEF D!Redeliver
  <2>2. /\ v7' \in [D!TicketIds -> Nat]
        /\ \A x \in D!TicketIds : v7'[x] = IF x = q THEN v7[x] + 1 ELSE v7[x]
    BY <1>0, <2>1
  <2>3. DispatchTypeInv'
    BY <1>0, <2>1, <2>2, DispatchConstants DEF DispatchState, DispatchTypeInv
  <2>4. MailCounted'
    BY <1>0, <1>1, <2>1, <2>2 DEF DispatchState, MailCounted, D!TicketIds
  <2>5. HandsOnRows'
    BY <1>0, <2>1 DEF DispatchState, HandsOnRows
  <2> QED
    BY <1>0, <1>2, <2>2, <2>3, <2>4, <2>5 DEF DispatchState
<1>4. ASSUME NEW h \in Hands, D!Receive(h, q) PROVE DispatchState'
  <2>1. v7' = [v7 EXCEPT ![q] = @ - 1] /\ v9' = v9
    BY <1>4 DEF D!Receive
  <2>2. /\ v7' \in [D!TicketIds -> Nat]
        /\ \A x \in D!TicketIds : v7'[x] = IF x = q THEN v7[x] - 1 ELSE v7[x]
    BY <1>0, <2>1
  <2> DEFINE status == v5[q].status
  <2>3. v8' = v8 \/ (/\ v8' = [v8 EXCEPT ![h] = [ticket |-> q, read |-> status]]
                     /\ status \in {"PENDING", "RUNNING"})
    BY <1>4 DEF D!Receive
  <2> HIDE DEF status
  <2>4. v8' \in [Hands -> [ticket : 0 .. MaxTickets, read : {"none", "PENDING", "RUNNING", "started"}]]
    <3>1. q \in 0 .. MaxTickets
      BY DispatchConstants DEF D!TicketIds
    <3>2. v8 \in [Hands -> [ticket : 0 .. MaxTickets, read : {"none", "PENDING", "RUNNING", "started"}]]
      BY DEF DispatchState, DispatchTypeInv
    <3>3. CASE status \in {"PENDING", "RUNNING"} /\ v8' = [v8 EXCEPT ![h] = [ticket |-> q, read |-> status]]
      BY <3>1, <3>2, <3>3
    <3> QED
      BY <2>3, <3>2, <3>3
  <2>5. DispatchTypeInv'
    BY <1>0, <2>1, <2>2, <2>4 DEF DispatchState, DispatchTypeInv
  <2>6. MailCounted'
    BY <1>0, <2>1, <2>2 DEF DispatchState, MailCounted
  <2>7. HandsOnRows'
    <3>1. \A x \in Hands : v8'[x] = v8[x] \/ v8'[x].ticket = q
      BY <2>3 DEF DispatchState, DispatchTypeInv
    <3>2. HandsOnRows /\ q > 0 /\ q <= Len(v5) /\ v5' = v5
      BY <1>0, <1>1 DEF DispatchState
    <3> QED
      BY <3>1, <3>2 DEF HandsOnRows
  <2>8. FiringUnsent'
    BY <1>0, <1>2, <2>2
  <2> QED
    BY <2>5, <2>6, <2>7, <2>8 DEF DispatchState
<1> QED
  BY <1>3, <1>4

\* What a worker does to its entry: the schedule it is of stays.
LEMMA RowChange ==
    ASSUME DispatchState, UNCHANGED <<v1, v2, v3, v4, v6, v7, v9>>,
           v5' \in Seq(TicketRows), Len(v5') = Len(v5),
           \A q \in 1 .. Len(v5) : v5'[q].of = v5[q].of,
           v8' \in [Hands -> [ticket : 0 .. MaxTickets, read : {"none", "PENDING", "RUNNING", "started"}]],
           \A h \in Hands : v8'[h] = D!Resting \/ (v8'[h].ticket = v8[h].ticket /\ v8[h].read # "none")
                            \/ v8'[h] = v8[h]
    PROVE  DispatchState'
<1>0. Len(v5) \in Nat
  BY LenProperties DEF DispatchState, DispatchTypeInv
<1>1. DispatchTypeInv' /\ MailCounted'
  BY DEF DispatchState, DispatchTypeInv, MailCounted
<1>2. HandsOnRows'
  BY <1>0 DEF DispatchState, HandsOnRows, D!Resting
<1>3. FiringUnsent'
  <2>1. \A s \in Schedules, q \in D!TicketIds : Newest(v5', s, q) <=> Newest(v5, s, q)
    BY <1>0 DEF Newest
  <2> QED
    BY <2>1 DEF DispatchState, FiringUnsent
<1> QED
  BY <1>1, <1>2, <1>3 DEF DispatchState

LEMMA HandSteps ==
    ASSUME DispatchState, NEW h \in Hands, D!StartTicket(h) \/ D!Settle(h) \/ D!StopHand(h)
    PROVE  DispatchState'
<1> DEFINE t == v8[h].ticket
<1>0. /\ v5 \in Seq(TicketRows) /\ Len(v5) \in Nat
      /\ v8 \in [Hands -> [ticket : 0 .. MaxTickets, read : {"none", "PENDING", "RUNNING", "started"}]]
      /\ UNCHANGED <<v1, v2, v3, v4, v6, v7, v9>>
      /\ v8[h].read # "none" => t \in 1 .. Len(v5) /\ v5[t] \in TicketRows
  <2>1. v5 \in Seq(TicketRows) /\ v5 \in [1 .. Len(v5) -> TicketRows] /\ Len(v5) \in Nat
    BY LenProperties DEF DispatchState, DispatchTypeInv
  <2>2. v8[h].read # "none" => t \in 1 .. Len(v5)
    BY <2>1 DEF DispatchState, DispatchTypeInv, HandsOnRows
  <2>3. UNCHANGED <<v1, v2, v3, v4, v6, v7, v9>>
    BY DEF D!StartTicket, D!Settle, D!StopHand, D!scheduleSide
  <2> QED
    BY <2>1, <2>2, <2>3 DEF DispatchState, DispatchTypeInv
<1>1. ASSUME NEW row \in TicketRows, v8[h].read # "none", row.of = v5[t].of, v5' = [v5 EXCEPT ![t] = row]
      PROVE  v5' \in Seq(TicketRows) /\ Len(v5') = Len(v5) /\ \A q \in 1 .. Len(v5) : v5'[q].of = v5[q].of
  BY <1>0, <1>1, ExceptSeq
<1>2. CASE D!StartTicket(h)
  <2> DEFINE status == IF v8[h].read = "PENDING" /\ v5[t].status = "PENDING" THEN "RUNNING" ELSE v5[t].status
             row == [v5[t] EXCEPT !.runs = v5[t].runs + 1, !.status = status]
  <2>1. v8[h].read \in {"PENDING", "RUNNING"} /\ v8' = [v8 EXCEPT ![h].read = "started"]
    BY <1>2 DEF D!StartTicket
  <2>2. v5[t] \in TicketRows /\ v5 \in [1 .. Len(v5) -> TicketRows] /\ t \in 1 .. Len(v5)
    BY <1>0, <2>1, LenProperties
  <2>3. v5' = [v5 EXCEPT ![t].runs = @ + 1,
                         ![t].status = IF v8[h].read = "PENDING" /\ @ = "PENDING" THEN "RUNNING" ELSE @]
    BY <1>2 DEF D!StartTicket
  <2>4. v5' = [v5 EXCEPT ![t] = row]
    BY <2>2, <2>3 DEF TicketRows
  <2>5. status \in {"PENDING", "RUNNING", "COMPLETED", "FAILED"} /\ v5[t].of \in Schedules /\ v5[t].runs \in Nat
    BY <2>2 DEF TicketRows
  <2> HIDE DEF status
  <2>6. row \in TicketRows /\ row.of = v5[t].of
    <3>1. ASSUME NEW x \in TicketRows, NEW n \in Nat,
                 NEW d \in {"PENDING", "RUNNING", "COMPLETED", "FAILED"}
          PROVE  /\ [x EXCEPT !.runs = n, !.status = d] \in TicketRows
                 /\ [x EXCEPT !.runs = n, !.status = d].of = x.of
      BY DEF TicketRows
    <3>2. v5[t].runs + 1 \in Nat
      BY <2>5
    <3> QED
      BY <2>2, <2>5, <3>1, <3>2
  <2> HIDE DEF row
  <2>7. /\ v8' \in [Hands -> [ticket : 0 .. MaxTickets, read : {"none", "PENDING", "RUNNING", "started"}]]
        /\ \A x \in Hands : (v8'[x].ticket = v8[x].ticket /\ v8[x].read # "none") \/ v8'[x] = v8[x]
    BY <1>0, <2>1
  <2> QED
    BY <1>0, <1>1, <2>1, <2>4, <2>6, <2>7, RowChange
<1>3. CASE D!Settle(h)
  <2>1. PICK st \in {"COMPLETED", "FAILED"} : v5' = [v5 EXCEPT ![t].status = st]
    BY <1>3 DEF D!Settle
  <2>2. v8[h].read = "started" /\ v8' = [v8 EXCEPT ![h] = D!Resting]
    BY <1>3 DEF D!Settle
  <2> DEFINE row == [v5[t] EXCEPT !.status = st]
  <2>3. v5' = [v5 EXCEPT ![t] = row] /\ row \in TicketRows /\ row.of = v5[t].of
    BY <1>0, <2>1, <2>2 DEF TicketRows
  <2> HIDE DEF row
  <2>4. /\ v8' \in [Hands -> [ticket : 0 .. MaxTickets, read : {"none", "PENDING", "RUNNING", "started"}]]
        /\ \A x \in Hands : v8'[x] = D!Resting \/ v8'[x] = v8[x]
    BY <1>0, <2>2, DispatchConstants DEF D!Resting
  <2> QED
    BY <1>0, <1>1, <2>2, <2>3, <2>4, RowChange
<1>4. CASE D!StopHand(h)
  <2>1. v8' = [v8 EXCEPT ![h] = D!Resting] /\ v5' = v5
    BY <1>4 DEF D!StopHand
  <2>2. /\ v8' \in [Hands -> [ticket : 0 .. MaxTickets, read : {"none", "PENDING", "RUNNING", "started"}]]
        /\ \A x \in Hands : v8'[x] = D!Resting \/ v8'[x] = v8[x]
    BY <1>0, <2>1, DispatchConstants DEF D!Resting
  <2> QED
    BY <1>0, <2>1, <2>2, RowChange
<1> QED
  BY <1>2, <1>3, <1>4

LEMMA DispatchSteps == DispatchInv /\ [Next]_vars => DispatchInv'
<1> SUFFICES ASSUME DispatchInv, [Next]_vars, part' = "dispatch" PROVE DispatchState'
  BY DEF DispatchInv
<1>1. CASE UNCHANGED vars
  <2>1. DispatchState
    BY <1>1 DEF vars, DispatchInv
  <2> QED
    BY <1>1, <2>1 DEF vars, DispatchState, DispatchTypeInv, MailCounted, FiringUnsent, HandsOnRows
<1>2. CASE Next
  <2>1. DispatchState /\ D!DispatchNext
    BY <1>2 DEF Next, DispatchInv
  <2> QED
    BY <2>1, ScheduleSteps, PutTicketStep, SendStep, MailSteps, HandSteps DEF D!DispatchNext
<1> QED
  BY <1>1, <1>2

\* A deleted schedule fires no more.
LEMMA QuietStep == ASSUME DispatchState, D!DispatchNext PROVE D!StaysQuiet
<1> SUFFICES ASSUME NEW s \in Schedules, v1[s] = "deleted", v4[s] = "idle" PROVE v4'[s] = "idle"
  BY DEF D!StaysQuiet
<1>0. v4 \in [Schedules -> {"idle", "read", "stored"}]
  BY DEF DispatchState, DispatchTypeInv
<1>1. ASSUME NEW x \in Schedules, D!Fire(x) \/ D!PutTicket(x) \/ D!Send(x) PROVE v4'[s] = "idle"
  BY <1>0, <1>1 DEF D!Fire, D!PutTicket, D!Send
<1>2. CASE D!RestartApi
  BY <1>2 DEF D!RestartApi
<1>3. CASE v4' = v4
  BY <1>3
<1> QED
  BY <1>1, <1>2, <1>3
     DEF D!DispatchNext, D!Create, D!Add, D!DeleteRow, D!Remove, D!Redeliver, D!Receive,
         D!StartTicket, D!Settle, D!StopHand, D!scheduleSide

\* A settled entry nobody works on stays as it is.
LEMMA SettledStep == ASSUME DispatchState, D!DispatchNext PROVE D!SettledStays
<1> SUFFICES ASSUME NEW q \in 1 .. Len(v5), v5[q].status \in {"COMPLETED", "FAILED"},
                    \A h \in Hands : v8[h].ticket # q
             PROVE  v5'[q] = v5[q] /\ \A h \in Hands : v8'[h].ticket # q
  BY DEF D!SettledStays
<1>0. /\ v5 \in Seq(TicketRows) /\ q # 0
      /\ v8 \in [Hands -> [ticket : 0 .. MaxTickets, read : {"none", "PENDING", "RUNNING", "started"}]]
  BY DEF DispatchState, DispatchTypeInv
<1>1. ASSUME NEW s \in Schedules, D!PutTicket(s) PROVE v5'[q] = v5[q] /\ v8' = v8
  BY <1>0, <1>1, AppendProperties DEF D!PutTicket, TicketRows
<1>2. ASSUME NEW p \in D!TicketIds, NEW h \in Hands, D!Receive(h, p)
      PROVE  v5' = v5 /\ \A x \in Hands : v8'[x].ticket # q
  BY <1>0, <1>2 DEF D!Receive
<1>3. ASSUME NEW h \in Hands, D!StartTicket(h)
      PROVE  v5'[q] = v5[q] /\ \A x \in Hands : v8'[x].ticket # q
  <2>1. \A x \in Hands : v8'[x].ticket = v8[x].ticket
    BY <1>0, <1>3 DEF D!StartTicket
  <2>2. v5'[q] = v5[q]
    BY <1>0, <1>3 DEF D!StartTicket
  <2> QED
    BY <2>1, <2>2
<1>4. ASSUME NEW h \in Hands, D!Settle(h) \/ D!StopHand(h)
      PROVE  v5'[q] = v5[q] /\ \A x \in Hands : v8'[x].ticket # q
  <2>1. v8' = [v8 EXCEPT ![h] = D!Resting] /\ D!Resting.ticket = 0
    BY <1>4 DEF D!Settle, D!StopHand, D!Resting
  <2>2. v5'[q] = v5[q]
    BY <1>0, <1>4 DEF D!Settle, D!StopHand
  <2> QED
    BY <1>0, <2>1, <2>2
<1>5. CASE UNCHANGED <<v5, v8>>
  BY <1>5
<1> QED
  BY <1>1, <1>2, <1>3, <1>4, <1>5
     DEF D!DispatchNext, D!Create, D!Add, D!DeleteRow, D!Remove, D!Fire, D!Send, D!RestartApi,
         D!Redeliver, D!queueSide, D!scheduleSide

\* A deleted schedule fires no more, and a settled entry stays as it is, for any
\* number of schedules, workers, entries and deliveries (scheduler_service.py,
\* celery_tasks.py).
THEOREM DispatchSoundHolds == Spec => DispatchSound
<1>1. DispatchInv => (part = "dispatch" => D!DispatchTypeOK)
  <2> SUFFICES ASSUME DispatchState PROVE D!DispatchTypeOK
    BY DEF DispatchInv
  <2>1. v7 \in [D!TicketIds -> 0 .. 1 + MaxAgain]
    BY DispatchConstants DEF DispatchState, DispatchTypeInv, MailCounted
  <2>2. \A q \in 1 .. Len(v5) : v5[q] \in TicketRows
    BY LenProperties DEF DispatchState, DispatchTypeInv
  <2> QED
    BY <2>1, <2>2 DEF DispatchState, DispatchTypeInv, D!DispatchTypeOK, TicketRows
<1>2. DispatchInv /\ [Next]_vars => [part = "dispatch" => D!StaysQuiet /\ D!SettledStays]_vars
  BY QuietStep, SettledStep DEF DispatchInv, Next
<1> QED
  BY <1>1, <1>2, DispatchStart, DispatchSteps, PTL DEF Spec, DispatchSound


-----------------------------------------------------------------------------
(* The rate limiter: counting the entries of a window                      *)

\* RATE_LIMIT_WINDOW_SEC is positive, and the limits are numbers.
LEMMA RateConstants ==
    /\ Window \in Int /\ Window > 0 /\ MaxNow \in Nat /\ MaxHits \in Nat
    /\ \A k : L!LimitOf(k) \in Nat
<1>1. L!RateAssumption  BY ServicesAssumptions
<1> QED  BY <1>1 DEF L!RateAssumption, L!LimitOf

\* RateLimit counts as this module does.
LEMMA SameCount == ASSUME NEW E PROVE L!Cardinality(E) = Cardinality(E)
BY Zenon DEF L!Cardinality, Cardinality, L!IsFiniteSet, IsFiniteSet

\* A part of a finite set is finite and no larger (MemoryCheck's counts).
LEMMA PartCounts ==
    ASSUME NEW E, IsFiniteSet(E), NEW F, F \subseteq E
    PROVE  /\ IsFiniteSet(F)
           /\ Cardinality(F) \in Nat /\ Cardinality(E) \in Nat
           /\ Cardinality(F) <= Cardinality(E)
BY FS_Subset, FS_CardinalityType

\* A further entry counts one more (_memory_check's append, INCR).
LEMMA OneMore ==
    ASSUME NEW E, IsFiniteSet(E), NEW e, e \notin E
    PROVE  /\ IsFiniteSet(E \cup {e})
           /\ Cardinality(E) \in Nat
           /\ Cardinality(E \cup {e}) = Cardinality(E) + 1
BY FS_AddElement, FS_CardinalityType

\* What an entry adds to the entries since x.
LEMMA SinceMore ==
    ASSUME NEW E, NEW e, NEW x
    PROVE  /\ e.at > x => Since(E \cup {e}, x) = Since(E, x) \cup {e}
           /\ ~(e.at > x) => Since(E \cup {e}, x) = Since(E, x)
BY DEF Since

\* A request granted by a backend at the time at, when that backend counts
\* fewer than its limit in the window that ends there, keeps every window
\* within the limit.
LEMMA GrantBounded ==
    ASSUME NEW G, IsFiniteSet(G), \A g \in G : g.at \in Int,
           NEW h, h \notin G, h.at \in Int,
           NEW limit \in Nat, limit # 0, Bounded(G, limit),
           Cardinality(Since(G, h.at - Window)) < limit
    PROVE  Bounded(G \cup {h}, limit)
<1>1. SUFFICES ASSUME NEW t \in Int PROVE Cardinality(WindowOf(G \cup {h}, t)) <= limit
  BY DEF Bounded
<1>2. Cardinality(WindowOf(G, t)) <= limit  BY DEF Bounded
<1>3. CASE ~(h.at <= t /\ h.at > t - Window)
  <2>1. WindowOf(G \cup {h}, t) = WindowOf(G, t)  BY <1>3 DEF WindowOf, Since
  <2> QED  BY <1>2, <2>1
<1>4. CASE h.at <= t /\ h.at > t - Window
  <2>1. WindowOf(G \cup {h}, t) = WindowOf(G, t) \cup {h}  BY <1>4 DEF WindowOf, Since
  <2>2. WindowOf(G, t) \subseteq Since(G, h.at - Window)
    BY <1>4, RateConstants DEF WindowOf, Since
  <2>3. IsFiniteSet(Since(G, h.at - Window))  BY PartCounts DEF Since
  <2>4. IsFiniteSet(WindowOf(G, t)) /\ Cardinality(WindowOf(G, t)) \in Nat
        /\ Cardinality(Since(G, h.at - Window)) \in Nat
        /\ Cardinality(WindowOf(G, t)) <= Cardinality(Since(G, h.at - Window))
    BY <2>2, <2>3, PartCounts
  <2>5. h \notin WindowOf(G, t)  BY DEF WindowOf, Since
  <2>6. Cardinality(WindowOf(G \cup {h}, t)) = Cardinality(WindowOf(G, t)) + 1
    BY <2>1, <2>4, <2>5, OneMore
  <2>7. Cardinality(Since(G, h.at - Window)) < limit  OBVIOUS
  <2> HIDE DEF Bounded
  <2> QED  BY <2>4, <2>6, <2>7
<1> QED  BY <1>3, <1>4

\* The window in memory goes on having an entry for whatever it granted, when
\* it drops the entries before the window that ends at t and, if it grants a
\* request, adds an entry for it.
LEMMA WindowKeeps ==
    ASSUME NEW E, IsFiniteSet(E), \A e \in E : e.at \in Int,
           NEW G, IsFiniteSet(G), NEW t \in Int, NEW x \in Int, x >= t - Window,
           Cardinality(Since(G, x)) <= Cardinality(Since(E, x))
    PROVE  /\ Cardinality(Since(G, x)) <= Cardinality(Since(Since(E, t - Window), x))
           /\ \A h, e : h \notin G /\ e \notin E /\ h.at = t /\ e.at = t =>
                 Cardinality(Since(G \cup {h}, x))
                    <= Cardinality(Since(Since(E, t - Window) \cup {e}, x))
<1> DEFINE P == Since(E, t - Window)
<1>1. Since(P, x) = Since(E, x)  BY RateConstants DEF Since
<1>2. IsFiniteSet(Since(G, x)) /\ Cardinality(Since(G, x)) \in Nat  BY PartCounts DEF Since
<1>3. IsFiniteSet(Since(E, x)) /\ Cardinality(Since(E, x)) \in Nat  BY PartCounts DEF Since
<1>4. ASSUME NEW h, NEW e, h \notin G, e \notin E, h.at = t, e.at = t
      PROVE  Cardinality(Since(G \cup {h}, x)) <= Cardinality(Since(P \cup {e}, x))
  <2>1. CASE t > x
    <3>1. Since(G \cup {h}, x) = Since(G, x) \cup {h} /\ Since(P \cup {e}, x) = Since(E, x) \cup {e}
      BY <1>1, <1>4, <2>1, SinceMore
    <3>2. h \notin Since(G, x) /\ e \notin Since(E, x)  BY <1>4 DEF Since
    <3>3. Cardinality(Since(G \cup {h}, x)) = Cardinality(Since(G, x)) + 1  BY <1>2, <3>1, <3>2, OneMore
    <3>4. Cardinality(Since(P \cup {e}, x)) = Cardinality(Since(E, x)) + 1  BY <1>3, <3>1, <3>2, OneMore
    <3> HIDE DEF P
    <3> QED  BY <1>2, <1>3, <3>3, <3>4
  <2>2. CASE ~(t > x)
    <3>1. ~(h.at > x) /\ ~(e.at > x)  BY <1>4, <2>2
    <3>2. Since(G \cup {h}, x) = Since(G, x)  BY <3>1, SinceMore
    <3>3. Since(P \cup {e}, x) = Since(P, x)  BY <3>1, SinceMore
    <3> QED  BY <1>1, <3>2, <3>3
  <2> QED  BY <2>1, <2>2
<1> QED  BY <1>1, <1>4

\* The number of a new entry is one that no entry of its instant has.
LEMMA StampNew ==
    ASSUME NEW E \in SUBSET Stamps, IsFiniteSet(E), Numbered(E), NEW t \in Nat,
           NEW s, s = [at |-> t, n |-> Cardinality({e \in E : e.at = t})]
    PROVE  /\ s \in Stamps /\ s \notin E
           /\ Numbered(Since(E, t - Window))
           /\ Numbered(Since(E, t - Window) \cup {s})
<1> DEFINE P == Since(E, t - Window)
           Of(F, i) == {e \in F : e.at = i}
<1>1. \A i : IsFiniteSet(Of(E, i)) /\ Cardinality(Of(E, i)) \in Nat  BY PartCounts
<1>2. s \in Stamps /\ s.at = t /\ s.n = Cardinality(Of(E, t))  BY <1>1 DEF Stamps
<1>3. s \notin E  BY <1>1, <1>2 DEF Numbered, Stamps
<1>4. \A e \in P : Of(P, e.at) = Of(E, e.at)  BY DEF Since
<1>5. Of(P, t) = Of(E, t)  BY RateConstants DEF Since, Stamps
<1>6. \A e \in P : e \in E /\ e.n < Cardinality(Of(P, e.at))  BY <1>4 DEF Numbered, Since
<1>7. ASSUME NEW e \in P \cup {s} PROVE e.n < Cardinality(Of(P \cup {s}, e.at))
  <2>1. CASE e.at # t
    <3>1. Of(P \cup {s}, e.at) = Of(P, e.at)  BY <1>2, <2>1
    <3> QED  BY <1>2, <1>6, <2>1, <3>1
  <2>2. CASE e.at = t
    <3>1. Of(P \cup {s}, t) = Of(E, t) \cup {s}  BY <1>2, <1>5
    <3>2. s \notin Of(E, t)  BY <1>3
    <3>3. Cardinality(Of(P \cup {s}, t)) = Cardinality(Of(E, t)) + 1  BY <1>1, <3>1, <3>2, OneMore
    <3>4. CASE e = s
      <4>1. e.n = Cardinality(Of(E, t))  BY <1>2, <3>4
      <4> HIDE DEF P, Of
      <4> QED  BY <1>1, <2>2, <3>3, <4>1
    <3>5. CASE e \in P
      <4>1. e.n < Cardinality(Of(E, t)) /\ e.n \in Nat  BY <1>5, <1>6, <2>2, <3>5 DEF Stamps
      <4> HIDE DEF P, Of
      <4> QED  BY <1>1, <2>2, <3>3, <4>1
    <3> QED  BY <3>4, <3>5
  <2> QED  BY <2>1, <2>2
<1>8. Numbered(P)  BY <1>6 DEF Numbered
<1>9. Numbered(P \cup {s})  BY <1>7 DEF Numbered
<1> QED  BY <1>2, <1>3, <1>8, <1>9


\* What a further request adds to those a backend granted.
LEMMA GrantedMore ==
    ASSUME NEW H, NEW b, NEW h, h.admitted, h.by = b
    PROVE  Granted(H \cup {h}, b) = Granted(H, b) \cup {h}
BY Zenon DEF Granted

LEMMA GrantedSame ==
    ASSUME NEW H, NEW b, NEW h, ~h.admitted \/ h.by # b
    PROVE  Granted(H \cup {h}, b) = Granted(H, b)
BY Zenon DEF Granted

LEMMA GrantedPart == ASSUME NEW H, NEW b PROVE Granted(H, b) \subseteq H
BY Zenon DEF Granted

\* The history takes a request with the next number: it is new, no later than
\* the time, and the number is below the size of the history.
LEMMA HistoryMore ==
    ASSUME NEW H \in SUBSET HitRows, IsFiniteSet(H), NEW t \in Int, NEW i \in Nat, i <= t,
           \A g \in H : g.at <= t /\ g.n < Cardinality(H),
           NEW h \in HitRows, h.at = i, h.n = Cardinality(H)
    PROVE  /\ h \notin H
           /\ H \cup {h} \subseteq HitRows /\ IsFiniteSet(H \cup {h})
           /\ \A g \in H \cup {h} : g.at <= t /\ g.n < Cardinality(H \cup {h})
<1>1. Cardinality(H) \in Nat  BY FS_CardinalityType
<1>2. h \notin H  BY <1>1
<1>3. IsFiniteSet(H \cup {h}) /\ Cardinality(H \cup {h}) = Cardinality(H) + 1  BY <1>2, OneMore
<1>4. \A g \in H : g.n \in Nat  BY DEF HitRows
<1> QED  BY <1>1, <1>2, <1>3, <1>4

\* Without an overtaken check up to now, the new check in memory is the latest.
LEMMA OrderedLatest ==
    ASSUME NEW H, NEW h, h.by = "memory", \A g \in H : g.n < h.n, Ordered(H \cup {h})
    PROVE  Ordered(H) /\ \A g \in H : g.by = "memory" => g.at <= h.at
BY DEF Ordered

\* A check in Redis says nothing of the order in memory.
LEMMA OrderedElse ==
    ASSUME NEW H, NEW h, Ordered(H \cup {h})
    PROVE  Ordered(H)
BY DEF Ordered


\* RateLimiter._memory_check keeps the state of its key, at whatever time i it
\* has read.
LEMMA MemoryKeeps ==
    ASSUME NEW E, NEW c, NEW H, NEW t \in Nat, NEW limit \in Nat, limit # 0,
           KeyState(E, c, H, t, limit),
           NEW i \in 0 .. t, NEW P, P = Since(E, i - Window),
           NEW yes \in BOOLEAN, yes = (Cardinality(P) < limit),
           NEW s, s = [at |-> i, n |-> Cardinality({e \in E : e.at = i})],
           NEW h, h = [at |-> i, by |-> "memory", admitted |-> yes, n |-> Cardinality(H)]
    PROVE  KeyState(IF yes THEN P \cup {s} ELSE P, c, H \cup {h}, t, limit)
<1> DEFINE F == IF yes THEN P \cup {s} ELSE P
           G == Granted(H, "memory")
           G2 == Granted(H \cup {h}, "memory")
           J == H \cup {h}
<1>1. E \in SUBSET Stamps /\ IsFiniteSet(E) /\ Numbered(E)  BY DEF KeyState, KeyTypes, Stamps
<1>2. s \in Stamps /\ s \notin E /\ Numbered(P) /\ Numbered(P \cup {s}) /\ s.at = i
  BY <1>1, StampNew
<1>3. H \in SUBSET HitRows /\ IsFiniteSet(H) /\ \A g \in H : g.at <= t /\ g.n < Cardinality(H)
  BY DEF KeyState, KeyTypes
<1>4. Cardinality(H) \in Nat  BY <1>3, FS_CardinalityType
<1>5. h \in HitRows  BY <1>4 DEF HitRows
<1>6. h.at = i /\ h.by = "memory" /\ h.n = Cardinality(H)  OBVIOUS
<1>7. /\ yes => G2 = G \cup {h}
      /\ ~yes => G2 = G
      /\ Granted(J, "redis") = Granted(H, "redis")
  <2>1. h.admitted = yes  OBVIOUS
  <2>2. h.by # "redis"  OBVIOUS
  <2> HIDE DEF J
  <2>3. ASSUME yes PROVE G2 = G \cup {h}
    <3>1. h.admitted  BY <2>1, <2>3, Zenon
    <3>2. h.by = "memory"  OBVIOUS
    <3> QED  BY <3>1, <3>2, Zenon DEF Granted
  <2>4. ~yes => G2 = G  BY <2>1, GrantedSame, Zenon
  <2>5. Granted(H \cup {h}, "redis") = Granted(H, "redis")  BY <2>2, GrantedSame, Zenon
  <2> QED  BY <2>3, <2>4, <2>5 DEF J
<1>8. /\ h \notin H /\ J \subseteq HitRows /\ IsFiniteSet(J)
      /\ \A g \in J : g.at <= t /\ g.n < Cardinality(J)
  BY <1>3, <1>5, <1>6, HistoryMore
<1>9. P \subseteq E /\ IsFiniteSet(P)  BY <1>1, PartCounts DEF Since
<1>10. F \subseteq [at : 0 .. t, n : Nat] /\ IsFiniteSet(F)
  <2>1. E \subseteq [at : 0 .. t, n : Nat] /\ s \in [at : 0 .. t, n : Nat]
    BY <1>2 DEF KeyState, KeyTypes, Stamps
  <2>2. IsFiniteSet(P \cup {s})  BY <1>9, FS_AddElement
  <2> QED  BY <1>9, <2>1, <2>2
<1>11. KeyTypes(F, c, J, t)  BY <1>8, <1>10 DEF KeyState, KeyTypes
<1>12. Numbered(F)  BY <1>2
<1>13. ASSUME Ordered(J) PROVE KeepsCount(F, J) /\ Bounded(G2, limit)
  <2>1. \A g \in H : g.n < h.n  BY <1>3, <1>6
  <2>2. Ordered(H) /\ \A g \in H : g.by = "memory" => g.at <= h.at
    BY <1>6, <1>13, <2>1, OrderedLatest
  <2>3. KeepsCount(E, H) /\ Bounded(G, limit)  BY <2>2 DEF KeyState
  <2>4. G \subseteq H /\ IsFiniteSet(G) /\ h \notin G  BY <1>3, <1>8, GrantedPart, PartCounts
  <2>5. \A g \in H : g.at \in Int  BY <1>3 DEF HitRows
  <2>6. \A e \in E : e.at \in Int  BY <1>1 DEF Stamps
  <2>7. ASSUME NEW x \in Int, \A g \in J : g.by = "memory" => x >= g.at - Window
        PROVE  Cardinality(Since(G2, x)) <= Cardinality(Since(F, x))
    <3>1. x >= i - Window  BY <1>6, <2>7
    <3>2. Cardinality(Since(G, x)) <= Cardinality(Since(E, x))  BY <2>3, <2>7 DEF KeepsCount
    <3>3. /\ Cardinality(Since(G, x)) <= Cardinality(Since(P, x))
          /\ Cardinality(Since(G \cup {h}, x)) <= Cardinality(Since(P \cup {s}, x))
      <4> HIDE DEF G
      <4>1. i \in Int  OBVIOUS
      <4>2. /\ Cardinality(Since(G, x)) <= Cardinality(Since(P, x))
            /\ \A a, e : a \notin G /\ e \notin E /\ a.at = i /\ e.at = i =>
                  Cardinality(Since(G \cup {a}, x)) <= Cardinality(Since(P \cup {e}, x))
        BY <1>1, <2>4, <2>6, <3>1, <3>2, <4>1, WindowKeeps
      <4> QED  BY <1>2, <1>6, <2>4, <4>2
    <3>4. CASE yes  BY <1>7, <3>3, <3>4
    <3>5. CASE ~yes  BY <1>7, <3>3, <3>5
    <3> QED  BY <3>4, <3>5
  <2>8. KeepsCount(F, J)  BY <2>7 DEF KeepsCount
  <2>9. Bounded(G2, limit)
    <3>1. CASE ~yes
      <4>1. G2 = G  BY <1>7, <3>1
      <4> QED  BY <2>3, <4>1
    <3>2. CASE yes
      <4>1. G2 = G \cup {h}  BY <1>7, <3>2
      <4>2. \A g \in H : g.by = "memory" => i - Window >= g.at - Window
        BY <1>6, <2>2, <2>5, RateConstants
      <4>3. i - Window \in Int  BY RateConstants
      <4>4. Cardinality(Since(G, i - Window)) <= Cardinality(P)
        BY <2>3, <4>2, <4>3 DEF KeepsCount
      <4>5. Cardinality(Since(G, i - Window)) \in Nat /\ Cardinality(P) \in Nat
        BY <1>9, <2>4, PartCounts, FS_CardinalityType DEF Since
      <4>6. Cardinality(P) < limit  BY <3>2
      <4>7. Cardinality(Since(G, h.at - Window)) < limit  BY <1>6, <4>4, <4>5, <4>6
      <4>8. \A g \in G : g.at \in Int  BY <2>4, <2>5
      <4>9. Bounded(G \cup {h}, limit)  BY <1>6, <2>3, <2>4, <4>7, <4>8, GrantBounded
      <4> QED  BY <4>1, <4>9
    <3> QED  BY <3>1, <3>2
  <2> QED  BY <2>8, <2>9
<1>14. Granted(J, "redis") = Granted(H, "redis")  BY <1>7
<1>15. CountsAll(c, J, t)
  <2>1. CountsAll(c, H, t)  BY DEF KeyState
  <2> QED  BY <1>6, <1>14, <2>1 DEF CountsAll
<1>16. Bounded(Granted(J, "redis"), limit)  BY <1>14 DEF KeyState
<1> HIDE DEF F, J, G, G2
<1>17. KeyState(F, c, J, t, limit)  BY <1>11, <1>12, <1>13, <1>15, <1>16 DEF KeyState, G2, J
<1> QED  BY <1>17 DEF F, J

\* RateLimiter._redis_check keeps the state of its key.
LEMMA RedisKeeps ==
    ASSUME NEW E, NEW c, NEW H, NEW t \in 0 .. MaxNow, NEW limit \in Nat, limit # 0,
           KeyState(E, c, H, t, limit),
           NEW n, n = 1 + (IF c.until > t THEN c.count ELSE 0),
           NEW yes \in BOOLEAN, yes = (n <= limit),
           NEW d, d = [count |-> n, until |-> t + Window],
           NEW h, h = [at |-> t, by |-> "redis", admitted |-> yes, n |-> Cardinality(H)]
    PROVE  KeyState(E, d, H \cup {h}, t, limit)
<1> DEFINE G == Granted(H, "redis")
           G2 == Granted(H \cup {h}, "redis")
           J == H \cup {h}
<1>1. /\ E \subseteq [at : 0 .. t, n : Nat] /\ IsFiniteSet(E) /\ Numbered(E)
      /\ c \in [count : Nat, until : 0 .. MaxNow + Window]
  BY DEF KeyState, KeyTypes
<1>2. n \in Nat /\ n >= 1  BY <1>1
<1>3. H \in SUBSET HitRows /\ IsFiniteSet(H) /\ \A g \in H : g.at <= t /\ g.n < Cardinality(H)
  BY DEF KeyState, KeyTypes
<1>4. Cardinality(H) \in Nat  BY <1>3, FS_CardinalityType
<1>5. t \in Nat  BY RateConstants
<1>6. h \in HitRows  BY <1>4, <1>5 DEF HitRows
<1>7. h.at = t /\ h.by = "redis" /\ h.n = Cardinality(H)  OBVIOUS
<1>8. /\ yes => G2 = G \cup {h}
      /\ ~yes => G2 = G
      /\ Granted(J, "memory") = Granted(H, "memory")
  <2>1. h.admitted = yes  OBVIOUS
  <2>2. h.by # "memory"  OBVIOUS
  <2> HIDE DEF J
  <2>3. ASSUME yes PROVE G2 = G \cup {h}
    <3>1. h.admitted  BY <2>1, <2>3, Zenon
    <3> QED  BY <1>7, <3>1, GrantedMore
  <2>4. ~yes => G2 = G  BY <2>1, GrantedSame, Zenon
  <2>5. Granted(H \cup {h}, "memory") = Granted(H, "memory")  BY <2>2, GrantedSame, Zenon
  <2> QED  BY <2>3, <2>4, <2>5 DEF J
<1>9. /\ h \notin H /\ J \subseteq HitRows /\ IsFiniteSet(J)
      /\ \A g \in J : g.at <= t /\ g.n < Cardinality(J)
  BY <1>3, <1>5, <1>6, <1>7, HistoryMore
<1>10. d \in [count : Nat, until : 0 .. MaxNow + Window]  BY <1>2, RateConstants
<1>11. KeyTypes(E, d, J, t)  BY <1>1, <1>9, <1>10 DEF KeyTypes
<1>12. Granted(J, "memory") = Granted(H, "memory")  BY <1>8
<1>13. Ordered(J) => KeepsCount(E, J) /\ Bounded(Granted(J, "memory"), limit)
  <2> SUFFICES ASSUME Ordered(J) PROVE KeepsCount(E, J) /\ Bounded(Granted(J, "memory"), limit)
    OBVIOUS
  <2>1. KeepsCount(E, H) /\ Bounded(Granted(H, "memory"), limit)  BY OrderedElse DEF KeyState
  <2>2. KeepsCount(E, J)  BY <1>12, <2>1 DEF KeepsCount
  <2> QED  BY <1>12, <2>1, <2>2
<1>14. G \subseteq H /\ IsFiniteSet(G) /\ h \notin G  BY <1>3, <1>9, GrantedPart, PartCounts
<1>15. \A g \in H : g.at \in Int  BY <1>3 DEF HitRows
<1>16. \A g \in H : g.by = "redis" => g.at + Window <= c.until  BY DEF KeyState, CountsAll
<1>17. \A g \in G : g.at \in Int /\ g.at + Window <= c.until
  BY <1>14, <1>15, <1>16 DEF Granted
\* Whoever was granted in the window that ends now is counted in n, and so is h.
<1>18. IsFiniteSet(Since(G, t - Window)) /\ Cardinality(Since(G, t - Window)) \in Nat
  BY <1>14, PartCounts DEF Since
<1>19. Cardinality(Since(G, t - Window)) + 1 <= n
  <2>1. CASE c.until > t
    <3>1. Cardinality(Since(G, t - Window)) <= c.count  BY DEF KeyState, CountsAll
    <3> QED  BY <1>1, <1>18, <2>1, <3>1
  <2>2. CASE ~(c.until > t)
    <3>1. Since(G, t - Window) = {}  BY <1>1, <1>17, <2>2, RateConstants DEF Since
    <3>2. Cardinality(Since(G, t - Window)) = 0  BY <3>1, FS_EmptySet
    <3> QED  BY <2>2, <3>2
  <2> QED  BY <2>1, <2>2
<1>20. CountsAll(d, J, t)
  <2>1. \A g \in J : g.by = "redis" => g.at + Window <= d.until
    BY <1>3, <1>7, <1>15, RateConstants
  <2>2. Cardinality(Since(G2, t - Window)) <= d.count
    <3>1. CASE ~yes
      <4>1. G2 = G  BY <1>8, <3>1
      <4> QED  BY <1>2, <1>18, <1>19, <4>1
    <3>2. CASE yes
      <4>1. G2 = G \cup {h}  BY <1>8, <3>2
      <4>2. h.at > t - Window  BY <1>7, RateConstants
      <4>3. Since(G \cup {h}, t - Window) = Since(G, t - Window) \cup {h}  BY <4>2, SinceMore
      <4>4. h \notin Since(G, t - Window)  BY <1>14 DEF Since
      <4>5. Cardinality(Since(G, t - Window) \cup {h}) = Cardinality(Since(G, t - Window)) + 1
        BY <1>18, <4>4, OneMore
      <4>6. Cardinality(Since(G2, t - Window)) = Cardinality(Since(G, t - Window)) + 1
        BY <4>1, <4>3, <4>5
      <4> QED  BY <1>2, <1>18, <1>19, <4>6
    <3> QED  BY <3>1, <3>2
  <2> QED  BY <2>1, <2>2 DEF CountsAll
<1>21. Bounded(G2, limit)
  <2>1. Bounded(G, limit)  BY DEF KeyState
  <2>2. CASE ~yes
    <3>1. G2 = G  BY <1>8, <2>2
    <3> QED  BY <2>1, <3>1
  <2>3. CASE yes
    <3>1. G2 = G \cup {h}  BY <1>8, <2>3
    <3>2. n <= limit  BY <2>3
    <3>3. Cardinality(Since(G, h.at - Window)) < limit  BY <1>2, <1>7, <1>18, <1>19, <3>2
    <3>4. h.at \in Int  BY <1>5, <1>7
    <3>5. Bounded(G \cup {h}, limit)  BY <1>14, <1>17, <2>1, <3>3, <3>4, GrantBounded
    <3> QED  BY <3>1, <3>5
  <2> QED  BY <2>2, <2>3
<1> HIDE DEF G, G2, J
<1>22. KeyState(E, d, J, t, limit)  BY <1>1, <1>11, <1>13, <1>20, <1>21 DEF KeyState, G2, J
<1> QED  BY <1>22 DEF J


\* Time passes: every window that ends now held less when it ended before.
LEMMA PassKeeps ==
    ASSUME NEW E, NEW c, NEW H, NEW t \in Nat, NEW limit, KeyState(E, c, H, t, limit)
    PROVE  KeyState(E, c, H, t + 1, limit)
<1> DEFINE G == Granted(H, "redis")
<1>1. KeyTypes(E, c, H, t)  BY DEF KeyState
<1>2. E \subseteq [at : 0 .. t + 1, n : Nat]  BY <1>1 DEF KeyTypes
<1>3. \A h \in H : h.at <= t + 1 /\ h.n < Cardinality(H)
  <2> SUFFICES ASSUME NEW h \in H PROVE h.at <= t + 1 /\ h.n < Cardinality(H)  OBVIOUS
  <2>1. h.at \in Nat /\ h.at <= t /\ h.n < Cardinality(H)  BY <1>1 DEF KeyTypes, HitRows
  <2> QED  BY <2>1
<1>4. KeyTypes(E, c, H, t + 1)  BY <1>1, <1>2, <1>3 DEF KeyTypes
<1>5. \A g \in G : g.at \in Int  BY <1>1 DEF Granted, KeyTypes, HitRows
<1>6. Since(G, (t + 1) - Window) \subseteq Since(G, t - Window)  BY <1>5, RateConstants DEF Since
<1>7. IsFiniteSet(G)  BY <1>1, GrantedPart, PartCounts DEF KeyTypes
<1>8. IsFiniteSet(Since(G, t - Window)) /\ Cardinality(Since(G, t - Window)) \in Nat
  BY <1>7, PartCounts DEF Since
<1>9. /\ Cardinality(Since(G, (t + 1) - Window)) \in Nat
      /\ Cardinality(Since(G, (t + 1) - Window)) <= Cardinality(Since(G, t - Window))
  BY <1>6, <1>8, PartCounts
<1>10. CountsAll(c, H, t)  BY DEF KeyState
<1>11. Cardinality(Since(G, (t + 1) - Window)) <= c.count
  <2>1. Cardinality(Since(G, t - Window)) <= c.count  BY <1>10 DEF CountsAll
  <2>2. c.count \in Nat  BY <1>1 DEF KeyTypes
  <2> QED  BY <1>8, <1>9, <2>1, <2>2
<1>12. CountsAll(c, H, t + 1)
  <2>1. \A h \in H : h.by = "redis" => h.at + Window <= c.until  BY <1>10 DEF CountsAll
  <2> QED  BY <1>11, <2>1, Zenon DEF CountsAll
<1> QED  BY <1>4, <1>12 DEF KeyState

-----------------------------------------------------------------------------
(* The rate limiter: its steps                                             *)

LEMMA RateStart == Init => RateInv
<1> SUFFICES ASSUME part = "rate", L!RateInit PROVE RateState  BY DEF Init, RateInv
<1> USE DEF L!RateInit
<1>1. RateTypeInv
  BY RateConstants DEF RateTypeInv, Visits, L!Unread
<1>2. ASSUME NEW k \in L!Keys PROVE KeyState(v2[k], v3[k], v5[k], v1, L!LimitOf(k))
  <2>1. v2[k] = {} /\ v5[k] = {} /\ v3[k] = [count |-> 0, until |-> 0] /\ v1 = 0  OBVIOUS
  <2>2. IsFiniteSet({}) /\ Cardinality({}) = 0  BY FS_EmptySet
  <2>3. Granted({}, "memory") = {} /\ Granted({}, "redis") = {} /\ \A x : Since({}, x) = {}
    BY DEF Granted, Since
  <2>4. \A t : WindowOf({}, t) = {}  BY <2>3 DEF WindowOf
  <2>5. KeyTypes(v2[k], v3[k], v5[k], v1)  BY <2>1, <2>2, RateConstants DEF KeyTypes
  <2>6. Numbered(v2[k])  BY <2>1 DEF Numbered
  <2>7. KeepsCount(v2[k], v5[k])
    <3>1. \A x : Cardinality(Since(Granted({}, "memory"), x)) <= Cardinality(Since({}, x))
      <4> SUFFICES ASSUME NEW x
                   PROVE  Cardinality(Since(Granted({}, "memory"), x)) <= Cardinality(Since({}, x))
        OBVIOUS
      <4>1. Cardinality(Since({}, x)) = 0  BY <2>2, <2>3, Zenon
      <4>2. Cardinality(Since(Granted({}, "memory"), x)) = 0  BY <2>2, <2>3, Zenon
      <4> QED  BY <4>1, <4>2
    <3> QED  BY <2>1, <3>1, Zenon DEF KeepsCount
  <2>8. CountsAll(v3[k], v5[k], v1)
    <3>1. Cardinality(Since(Granted(v5[k], "redis"), v1 - Window)) = 0  BY <2>1, <2>2, <2>3, Zenon
    <3>2. v3[k].count = 0  BY <2>1
    <3> QED  BY <2>1, <3>1, <3>2 DEF CountsAll
  <2>9. Bounded({}, L!LimitOf(k))
    <3>1. \A t : Cardinality(WindowOf({}, t)) = 0  BY <2>2, <2>4, Zenon
    <3> QED  BY <3>1, RateConstants DEF Bounded
  <2>10. Granted(v5[k], "memory") = {} /\ Granted(v5[k], "redis") = {}  BY <2>1, <2>3
  <2> QED  BY <2>5, <2>6, <2>7, <2>8, <2>9, <2>10 DEF KeyState
<1> QED  BY <1>1, <1>2 DEF RateState, KeysSound

\* A request checks its user's key, then its address's.
LEMMA VisitNext ==
    ASSUME NEW r \in Visits, r # <<>>
    PROVE  Head(r) \in L!Keys /\ Tail(r) \in Visits
<1>1. CASE \E k \in AddressKeys : r = <<k>>
  BY <1>1 DEF Visits, L!Keys
<1>2. CASE r \in UserKeys \X AddressKeys
  <2>1. PICK u \in UserKeys, a \in AddressKeys : r = <<u, a>>  BY <1>2
  <2>2. Head(r) = u /\ Tail(r) = <<a>>  BY <2>1
  <2> QED  BY <2>1, <2>2 DEF Visits, L!Keys
<1> QED  BY <1>1, <1>2 DEF Visits

\* Steps that touch no window, counter or history: a request comes, a key
\* without a limit is passed, a thread reads the clock.
LEMMA ThreadSteps ==
    ASSUME RateState, NEW v \in Visitors, L!Visit(v) \/ L!CheckNothing(v) \/ L!ReadClock(v)
    PROVE  RateState'
<1> USE DEF RateState
<1>1. v1' = v1 /\ v2' = v2 /\ v3' = v3 /\ v5' = v5
  BY DEF L!Visit, L!CheckNothing, L!ReadClock
<1>2. KeysSound'  BY <1>1 DEF KeysSound
<1>3. CASE L!Visit(v)
  <2>1. PICK u \in UserKeys, a \in AddressKeys : v4' = [v4 EXCEPT ![v] = <<u, a>>]
    BY <1>3 DEF L!Visit
  <2>2. <<u, a>> \in Visits  BY DEF Visits
  <2>3. v4' \in [Visitors -> Visits]  BY <2>1, <2>2 DEF RateTypeInv
  <2>4. v6' \in 0 .. MaxHits  BY <1>3, RateConstants DEF L!Visit, RateTypeInv
  <2>5. v7[v] = L!Unread  BY <1>3 DEF L!Visit, RateTypeInv
  <2>6. v7' = v7  BY <1>3 DEF L!Visit
  <2>7. ASSUME NEW w \in Visitors, v7'[w] # L!Unread
        PROVE  v4'[w] # <<>> /\ L!LimitOf(Head(v4'[w])) # 0
    <3>1. w # v  BY <2>5, <2>6, <2>7
    <3>2. v4'[w] = v4[w]  BY <2>1, <3>1 DEF RateTypeInv
    <3> QED  BY <2>6, <2>7, <3>2 DEF RateTypeInv
  <2>8. RateTypeInv'  BY <1>1, <2>3, <2>4, <2>6, <2>7 DEF RateTypeInv
  <2> QED  BY <1>2, <2>8
<1>4. CASE L!CheckNothing(v)
  <2>1. /\ v4' = [v4 EXCEPT ![v] = Tail(v4[v])] /\ v6' = v6 /\ v7' = v7
        /\ v4[v] # <<>> /\ v7[v] = L!Unread
    BY <1>4 DEF L!CheckNothing, L!Checking, L!Answered
  <2>2. v4[v] \in Visits  BY DEF RateTypeInv
  <2>3. Tail(v4[v]) \in Visits  BY <2>1, <2>2, VisitNext
  <2>4. v4' \in [Visitors -> Visits]  BY <2>1, <2>3 DEF RateTypeInv
  <2>5. ASSUME NEW w \in Visitors, v7'[w] # L!Unread
        PROVE  v4'[w] # <<>> /\ L!LimitOf(Head(v4'[w])) # 0
    <3>1. w # v  BY <2>1, <2>5
    <3>2. v4'[w] = v4[w]  BY <2>1, <3>1 DEF RateTypeInv
    <3> QED  BY <2>1, <2>5, <3>2 DEF RateTypeInv
  <2>6. RateTypeInv'  BY <1>1, <2>1, <2>4, <2>5 DEF RateTypeInv
  <2> QED  BY <1>2, <2>6
<1>5. CASE L!ReadClock(v)
  <2>1. /\ v7' = [v7 EXCEPT ![v] = v1] /\ v4' = v4 /\ v6' = v6
        /\ v4[v] # <<>> /\ L!LimitOf(Head(v4[v])) # 0
    BY <1>5 DEF L!ReadClock, L!Checking
  <2>2. v7' \in [Visitors -> {L!Unread} \cup 0 .. v1]  BY <2>1 DEF RateTypeInv
  <2>3. \A w \in Visitors : v7'[w] # L!Unread => v4[w] # <<>> /\ L!LimitOf(Head(v4[w])) # 0
    BY <2>1 DEF RateTypeInv
  <2>4. RateTypeInv'  BY <1>1, <2>1, <2>2, <2>3 DEF RateTypeInv
  <2> QED  BY <1>2, <2>4
<1> QED  BY <1>3, <1>4, <1>5


\* A check that has its answer leaves the thread with the next key, or done.
LEMMA AnsweredRest ==
    ASSUME NEW v \in Visitors, v4 \in [Visitors -> Visits], v4[v] # <<>>,
           NEW yes \in BOOLEAN, L!Answered(v, yes)
    PROVE  /\ v4' \in [Visitors -> Visits]
           /\ \A w \in Visitors : w # v => v4'[w] = v4[w]
<1>1. v4[v] \in Visits  OBVIOUS
<1>2. Tail(v4[v]) \in Visits  BY <1>1, VisitNext
<1>3. <<>> \in Visits  BY DEF Visits
<1>4. CASE yes
  <2>1. v4' = [v4 EXCEPT ![v] = Tail(v4[v])]  BY <1>4 DEF L!Answered
  <2> QED  BY <1>2, <2>1
<1>5. CASE ~yes
  <2>1. v4' = [v4 EXCEPT ![v] = <<>>]  BY <1>5 DEF L!Answered
  <2> QED  BY <1>3, <2>1
<1> QED  BY <1>4, <1>5

LEMMA RedisStep ==
    ASSUME RateState, NEW v \in Visitors, L!CheckRedis(v)
    PROVE  RateState'
<1> USE DEF RateState
<1> DEFINE k == Head(v4[v])
<1>1. v4[v] # <<>> /\ v7[v] = L!Unread /\ L!LimitOf(k) # 0 /\ v1' = v1 /\ v2' = v2 /\ v6' = v6 /\ v7' = v7
  BY DEF L!CheckRedis, L!Checking
<1>2. v4[v] \in Visits  BY DEF RateTypeInv
<1>3. k \in L!Keys  BY <1>1, <1>2, VisitNext
<1>4. PICK yes \in BOOLEAN : L!RedisCheck(k, yes) /\ L!Answered(v, yes)  BY DEF L!CheckRedis
<1> DEFINE n == 1 + (IF v3[k].until > v1 THEN v3[k].count ELSE 0)
           d == [count |-> n, until |-> v1 + Window]
           h == [at |-> v1, by |-> "redis", admitted |-> yes, n |-> Cardinality(v5[k])]
<1>5. /\ yes = (n <= L!LimitOf(k))
      /\ v3' = [v3 EXCEPT ![k] = d]
      /\ v5' = [v5 EXCEPT ![k] = v5[k] \cup {h}]
  <2> HIDE DEF k
  <2>1. yes = (n <= L!LimitOf(k))  BY <1>4, Zenon DEF L!RedisCheck
  <2>2. v3' = [v3 EXCEPT ![k] = d]  BY <1>4, Zenon DEF L!RedisCheck
  <2>3. L!Note(k, "redis", v1, yes)  BY <1>4, Zenon DEF L!RedisCheck
  <2>4. v5' = [v5 EXCEPT ![k] = v5[k] \cup {h}]
    <3>1. L!Cardinality(v5[k]) = Cardinality(v5[k])  BY SameCount
    <3> QED  BY <2>3, <3>1, Zenon DEF L!Note
  <2> QED  BY <2>1, <2>2, <2>4
<1>6. KeyState(v2[k], v3[k], v5[k], v1, L!LimitOf(k))  BY <1>3 DEF KeysSound
<1>7. v1 \in 0 .. MaxNow /\ L!LimitOf(k) \in Nat  BY RateConstants DEF RateTypeInv
<1> HIDE DEF k
<1>8. KeyState(v2[k], d, v5[k] \cup {h}, v1, L!LimitOf(k))
  <2> HIDE DEF n, d, h
  <2>1. n = 1 + (IF v3[k].until > v1 THEN v3[k].count ELSE 0)  BY DEF n
  <2>2. d = [count |-> n, until |-> v1 + Window]  BY DEF d
  <2>3. h = [at |-> v1, by |-> "redis", admitted |-> yes, n |-> Cardinality(v5[k])]  BY DEF h
  <2> QED  BY <1>1, <1>5, <1>6, <1>7, <2>1, <2>2, <2>3, RedisKeeps
<1> HIDE DEF n, d, h
<1>9. KeyTypes(v2[k], d, v5[k] \cup {h}, v1)  BY <1>8 DEF KeyState
<1>10. v3' \in [L!Keys -> [count : Nat, until : 0 .. MaxNow + Window]]
  BY <1>3, <1>5, <1>9 DEF RateTypeInv, KeyTypes
<1>11. v5' \in [L!Keys -> SUBSET HitRows]  BY <1>3, <1>5, <1>9 DEF RateTypeInv, KeyTypes
<1>12. v4' \in [Visitors -> Visits] /\ \A w \in Visitors : w # v => v4'[w] = v4[w]
  BY <1>1, <1>4, AnsweredRest DEF RateTypeInv
<1>13. \A w \in Visitors : v7[w] # L!Unread => v4'[w] # <<>> /\ L!LimitOf(Head(v4'[w])) # 0
  BY <1>1, <1>12 DEF RateTypeInv
<1>14. RateTypeInv'  BY <1>1, <1>10, <1>11, <1>12, <1>13 DEF RateTypeInv
<1>15. ASSUME NEW j \in L!Keys PROVE KeyState(v2[j], v3'[j], v5'[j], v1, L!LimitOf(j))
  <2>1. CASE j = k
    <3>1. v3'[k] = d /\ v5'[k] = v5[k] \cup {h}  BY <1>3, <1>5 DEF RateTypeInv
    <3> QED  BY <1>8, <2>1, <3>1
  <2>2. CASE j # k
    <3>1. v3'[j] = v3[j] /\ v5'[j] = v5[j]  BY <1>5, <2>2 DEF RateTypeInv
    <3> QED  BY <3>1 DEF KeysSound
  <2> QED  BY <2>1, <2>2
<1>16. KeysSound'  BY <1>1, <1>15 DEF KeysSound
<1> QED  BY <1>14, <1>16

LEMMA MemoryStep ==
    ASSUME RateState, NEW v \in Visitors, L!CheckMemory(v)
    PROVE  RateState'
<1> USE DEF RateState
<1> DEFINE k == Head(v4[v])
           i == v7[v]
<1>1. i # L!Unread /\ v1' = v1 /\ v3' = v3 /\ v6' = v6 /\ v7' = [v7 EXCEPT ![v] = L!Unread]
  BY DEF L!CheckMemory
<1>2. v4[v] # <<>> /\ v4[v] \in Visits /\ L!LimitOf(k) # 0 /\ i \in 0 .. v1
  BY <1>1 DEF RateTypeInv
<1>3. k \in L!Keys  BY <1>2, VisitNext
<1>4. PICK yes \in BOOLEAN : L!MemoryCheck(k, i, yes) /\ L!Answered(v, yes)  BY DEF L!CheckMemory
<1> DEFINE P == Since(v2[k], i - Window)
           s == [at |-> i, n |-> Cardinality({e \in v2[k] : e.at = i})]
           F == IF yes THEN P \cup {s} ELSE P
           h == [at |-> i, by |-> "memory", admitted |-> yes, n |-> Cardinality(v5[k])]
<1>5. L!Pruned(k, i) = P  BY DEF L!Pruned, Since
<1>6. L!Stamp(k, i) = s
  <2>1. L!Cardinality({e \in v2[k] : e.at = i}) = Cardinality({e \in v2[k] : e.at = i})
    BY SameCount
  <2> QED  BY <2>1, Zenon DEF L!Stamp
<1>7. /\ yes = (Cardinality(P) < L!LimitOf(k))
      /\ v2' = [v2 EXCEPT ![k] = F]
      /\ v5' = [v5 EXCEPT ![k] = v5[k] \cup {h}]
  <2> HIDE DEF k, i, P, s
  <2>1. yes = (Cardinality(P) < L!LimitOf(k))  BY <1>4, <1>5, SameCount DEF L!MemoryCheck
  <2>2. v2' = [v2 EXCEPT ![k] = F]  BY <1>4, <1>5, <1>6 DEF L!MemoryCheck
  <2>3. L!Note(k, "memory", i, yes)  BY <1>4 DEF L!MemoryCheck
  <2>4. v5' = [v5 EXCEPT ![k] = v5[k] \cup {h}]
    <3>1. L!Cardinality(v5[k]) = Cardinality(v5[k])  BY SameCount
    <3> QED  BY <2>3, <3>1, Zenon DEF L!Note
  <2> QED  BY <2>1, <2>2, <2>4
<1>8. KeyState(v2[k], v3[k], v5[k], v1, L!LimitOf(k))  BY <1>3 DEF KeysSound
<1>9. v1 \in Nat /\ L!LimitOf(k) \in Nat  BY RateConstants DEF RateTypeInv
<1> HIDE DEF k, i
<1>10. KeyState(F, v3[k], v5[k] \cup {h}, v1, L!LimitOf(k))
  <2> HIDE DEF P, s, h
  <2>1. P = Since(v2[k], i - Window)  BY DEF P
  <2>2. s = [at |-> i, n |-> Cardinality({e \in v2[k] : e.at = i})]  BY DEF s
  <2>3. h = [at |-> i, by |-> "memory", admitted |-> yes, n |-> Cardinality(v5[k])]  BY DEF h
  <2> QED  BY <1>2, <1>7, <1>8, <1>9, <2>1, <2>2, <2>3, MemoryKeeps
<1> HIDE DEF P, s, h, F
<1>11. KeyTypes(F, v3[k], v5[k] \cup {h}, v1)  BY <1>10 DEF KeyState
<1>12. F \in SUBSET Stamps  BY <1>9, <1>11 DEF KeyTypes, Stamps
<1>13. v2' \in [L!Keys -> SUBSET Stamps]  BY <1>3, <1>7, <1>12 DEF RateTypeInv
<1>14. v5' \in [L!Keys -> SUBSET HitRows]  BY <1>3, <1>7, <1>11 DEF RateTypeInv, KeyTypes
<1>15. v4' \in [Visitors -> Visits] /\ \A w \in Visitors : w # v => v4'[w] = v4[w]
  BY <1>2, <1>4, AnsweredRest DEF RateTypeInv
<1>16. v7' \in [Visitors -> {L!Unread} \cup 0 .. v1]  BY <1>1 DEF RateTypeInv
<1>17. ASSUME NEW w \in Visitors, v7'[w] # L!Unread
       PROVE  v4'[w] # <<>> /\ L!LimitOf(Head(v4'[w])) # 0
  <2>1. w # v /\ v7[w] # L!Unread  BY <1>1, <1>17 DEF RateTypeInv
  <2> QED  BY <1>15, <2>1 DEF RateTypeInv
<1>18. RateTypeInv'  BY <1>1, <1>13, <1>14, <1>15, <1>16, <1>17 DEF RateTypeInv
<1>19. ASSUME NEW j \in L!Keys PROVE KeyState(v2'[j], v3[j], v5'[j], v1, L!LimitOf(j))
  <2>1. CASE j = k
    <3>1. v2'[k] = F /\ v5'[k] = v5[k] \cup {h}  BY <1>3, <1>7 DEF RateTypeInv
    <3> QED  BY <1>10, <2>1, <3>1
  <2>2. CASE j # k
    <3>1. v2'[j] = v2[j] /\ v5'[j] = v5[j]  BY <1>7, <2>2 DEF RateTypeInv
    <3> QED  BY <3>1 DEF KeysSound
  <2> QED  BY <2>1, <2>2
<1>20. KeysSound'  BY <1>1, <1>19 DEF KeysSound
<1> QED  BY <1>18, <1>20

LEMMA PassStep == ASSUME RateState, L!Pass PROVE RateState'
<1> USE DEF RateState
<1>1. /\ v1' = v1 + 1 /\ v1 < MaxNow
      /\ v2' = v2 /\ v3' = v3 /\ v4' = v4 /\ v5' = v5 /\ v6' = v6 /\ v7' = v7
  BY DEF L!Pass
<1>2. v1 \in Nat /\ v1' \in 0 .. MaxNow  BY <1>1, RateConstants DEF RateTypeInv
<1>3. v7 \in [Visitors -> {L!Unread} \cup 0 .. v1']  BY <1>1, <1>2 DEF RateTypeInv
<1>4. RateTypeInv'  BY <1>1, <1>2, <1>3 DEF RateTypeInv
<1>5. ASSUME NEW k \in L!Keys PROVE KeyState(v2[k], v3[k], v5[k], v1 + 1, L!LimitOf(k))
  BY <1>2, PassKeeps DEF KeysSound
<1>6. KeysSound'  BY <1>1, <1>5 DEF KeysSound
<1> QED  BY <1>4, <1>6

LEMMA RateSteps == RateInv /\ [Next]_vars => RateInv'
<1> SUFFICES ASSUME RateInv, [Next]_vars, part' = "rate" PROVE RateState'
  BY DEF RateInv
<1>1. CASE UNCHANGED vars
  <2>1. RateState  BY <1>1 DEF RateInv, vars
  <2>2. v1' = v1 /\ v2' = v2 /\ v3' = v3 /\ v4' = v4 /\ v5' = v5 /\ v6' = v6 /\ v7' = v7
    BY <1>1 DEF vars
  <2>3. RateTypeInv'  BY <2>1, <2>2 DEF RateState, RateTypeInv
  <2>4. KeysSound'  BY <2>1, <2>2 DEF RateState, KeysSound
  <2> QED  BY <2>3, <2>4 DEF RateState
<1>2. CASE Next
  <2>1. part = "rate" /\ L!RateNext  BY <1>2 DEF Next
  <2>2. RateState  BY <2>1 DEF RateInv
  <2>3. CASE L!Pass  BY <2>2, <2>3, PassStep
  <2>4. ASSUME NEW v \in Visitors,
               L!Visit(v) \/ L!CheckNothing(v) \/ L!CheckRedis(v) \/ L!ReadClock(v) \/ L!CheckMemory(v)
        PROVE  RateState'
    BY <2>2, <2>4, ThreadSteps, RedisStep, MemoryStep
  <2> QED  BY <2>1, <2>3, <2>4 DEF L!RateNext
<1> QED  BY <1>1, <1>2

\* What the invariant says of a backend's granted requests is the property.
LEMMA BoundedExact ==
    ASSUME NEW k, NEW b, v1 \in Nat, Bounded(Granted(v5[k], b), L!LimitOf(k))
    PROVE  L!Exact(k, b)
<1>1. \A t : L!Admitted(k, b, t) = WindowOf(Granted(v5[k], b), t)
  BY Zenon DEF L!Admitted, WindowOf, Since, Granted
<1>2. ASSUME NEW t \in 0 .. v1, L!LimitOf(k) # 0
      PROVE  Cardinality(L!Admitted(k, b, t)) <= L!LimitOf(k)
  <2>1. Cardinality(WindowOf(Granted(v5[k], b), t)) <= L!LimitOf(k)  BY <1>2 DEF Bounded
  <2> QED  BY <1>1, <2>1
<1> QED  BY <1>2, SameCount DEF L!Exact

\* For every number of threads, keys and requests, every limit and window, with
\* Redis and without: a backend admits no more requests of a key in any window
\* than its limit, Redis always, the memory as long as no check of the key was
\* overtaken between reading the clock and taking the lock
\* (RateLimiter._memory_check, _redis_check, rate_limit.py:38-60).
THEOREM WindowBoundedHolds == Spec => []WindowBounded
<1>1. RateInv => WindowBounded
  <2> SUFFICES ASSUME RateState PROVE L!RateTypeOK /\ L!WindowBounded
    BY DEF RateInv, WindowBounded
  <2> USE DEF RateState
  <2>1. v1 \in Nat  BY RateConstants DEF RateTypeInv
  <2>2. L!RateTypeOK
    <3>1. \A k \in L!Keys : v2[k] \subseteq [at : 0 .. v1, n : Nat]
      BY DEF KeysSound, KeyState, KeyTypes
    <3> QED  BY <3>1 DEF RateTypeInv, Visits, L!RateTypeOK
  <2>3. ASSUME NEW k \in L!Keys PROVE L!Exact(k, "redis") /\ (L!InOrder(k) => L!Exact(k, "memory"))
    <3>1. KeyState(v2[k], v3[k], v5[k], v1, L!LimitOf(k))  BY DEF KeysSound
    <3>2. L!Exact(k, "redis")  BY <2>1, <3>1, BoundedExact DEF KeyState
    <3>3. L!InOrder(k) => Ordered(v5[k])  BY DEF L!InOrder, Ordered
    <3>4. Ordered(v5[k]) => L!Exact(k, "memory")  BY <2>1, <3>1, BoundedExact DEF KeyState
    <3> QED  BY <3>2, <3>3, <3>4
  <2> QED  BY <2>2, <2>3 DEF L!WindowBounded
<1> QED  BY <1>1, RateStart, RateSteps, PTL DEF Spec

-----------------------------------------------------------------------------
(* The records of a task (TaskRecords).  The limits are on the number and  *)
(* the sum of the sizes of rows; that fewer rows have a smaller sum is     *)
(* proved by induction on their number, from the library's theorem that    *)
(* the naturals are well-founded.                                          *)

\* A set of numbers that holds 0 and the successor of each of its numbers
\* holds all of them.
LEMMA NatSets == ASSUME NEW N, 0 \in N, \A n \in Nat : n \in N => n + 1 \in N PROVE Nat \subseteq N
<1> SUFFICES ASSUME Nat \ N # {} PROVE FALSE  OBVIOUS
<1> DEFINE less == {ss \in Nat \X Nat : ss[1] < ss[2]}
<1>1. IsWellFoundedOn(less, Nat)  BY NatLessThanWellFounded DEF OpToRel
<1>2. \A m, n \in Nat : m < n => <<m, n>> \in less  OBVIOUS
<1> HIDE DEF less
<1>3. PICK n \in Nat \ N : \A m \in Nat \ N : ~ (<<m, n>> \in less)  BY <1>1, WFMin
<1>4. n # 0 /\ n \in Nat  BY <1>3
<1>5. n - 1 \in Nat /\ n - 1 < n /\ n - 1 + 1 = n  BY <1>4
<1>6. <<n - 1, n>> \in less  BY <1>2, <1>4, <1>5
<1>7. n - 1 \in N  BY <1>3, <1>5, <1>6
<1> QED  BY <1>3, <1>5, <1>7

\* Weights, the values of a function, are added in the order of CHOOSE; the
\* function that adds them exists, by induction on their number.
Picked(s) == CHOOSE x \in s : TRUE
Body(w, h) ==
    [s \in SUBSET DOMAIN w |-> IF s = {} THEN 0 ELSE w[Picked(s)] + h[s \ {Picked(s)}]]
SumOver(w) == CHOOSE h : h = Body(w, h)
Splits(w) ==
    \A s \in SUBSET DOMAIN w : \A x \in s : SumOver(w)[s] = w[x] + SumOver(w)[s \ {x}]
Weights(w) == IsFiniteSet(DOMAIN w) /\ w \in [DOMAIN w -> Nat]

\* The weights of rows are their sizes.
Sized(W) == IsFiniteSet(W) /\ \A x \in W : x.size \in Nat
SizeOf(W) == [x \in W |-> x.size]

\* The cardinality of the records module is that of the library.
LEMMA RecordCount == ASSUME NEW W PROVE T!Cardinality(W) = Cardinality(W)
BY Zenon DEF T!Cardinality, Cardinality, T!IsFiniteSet, IsFiniteSet

\* The stored bytes of a set of rows (_enforce_retention) are that sum.
LEMMA BytesAre == ASSUME NEW W PROVE T!Bytes(W) = SumOver(SizeOf(W))[W]
<1> DEFINE rows(h) ==
              [s \in SUBSET W |-> IF s = {} THEN 0 ELSE Picked(s).size + h[s \ {Picked(s)}]]
<1>1. \A s \in SUBSET W : s # {} => Picked(s) \in W  BY DEF Picked
<1>2. \A x \in W : SizeOf(W)[x] = x.size  BY DEF SizeOf
<1>3. DOMAIN SizeOf(W) = W  BY DEF SizeOf
<1>4. ASSUME NEW h PROVE rows(h) = Body(SizeOf(W), h)
  <2>1. ASSUME NEW s \in SUBSET W
        PROVE  (IF s = {} THEN 0 ELSE Picked(s).size + h[s \ {Picked(s)}])
                 = IF s = {} THEN 0 ELSE SizeOf(W)[Picked(s)] + h[s \ {Picked(s)}]
    BY <1>1, <1>2
  <2> QED  BY <1>3, <2>1, Zenon DEF Body
<1>5. T!Bytes(W) = (CHOOSE h : h = rows(h))[W]
  BY DEF T!Bytes, T!MapThenSumSet, T!MapThenFoldSet, Picked
<1> HIDE DEF rows
<1>6. (CHOOSE h : h = rows(h)) = CHOOSE h : h = Body(SizeOf(W), h)  BY <1>4
<1> QED  BY <1>5, <1>6 DEF SumOver

\* A set of rows has finitely many weights.
LEMMA SizesAreWeights ==
    ASSUME NEW W, Sized(W)
    PROVE  Weights(SizeOf(W)) /\ DOMAIN SizeOf(W) = W /\ \A x \in W : SizeOf(W)[x] = x.size
<1>1. DOMAIN SizeOf(W) = W /\ SizeOf(W) \in [W -> Nat] /\ \A x \in W : SizeOf(W)[x] = x.size
  BY DEF SizeOf, Sized
<1> QED  BY <1>1 DEF Weights, Sized

\* Without one of its elements a set is one smaller.
LEMMA Smaller ==
    ASSUME NEW W, IsFiniteSet(W), NEW s \in SUBSET W, NEW x \in s
    PROVE  /\ s \ {x} \in SUBSET W
           /\ Cardinality(s \ {x}) \in Nat /\ Cardinality(s) \in Nat
           /\ Cardinality(s \ {x}) + 1 = Cardinality(s)
<1>1. IsFiniteSet(s) /\ IsFiniteSet(s \ {x})  BY FS_Subset
<1>2. Cardinality(s) \in Nat /\ Cardinality(s \ {x}) \in Nat  BY <1>1, FS_CardinalityType
<1>3. Cardinality(s \ {x}) = Cardinality(s) - 1  BY <1>1, FS_RemoveElement
<1> QED  BY <1>2, <1>3

\* Nothing is the empty set.
LEMMA EmptySize == ASSUME NEW s, IsFiniteSet(s), Cardinality(s) = 0 PROVE s = {}
BY FS_EmptySet

\* The sum of weights exists and is a number.
LEMMA SumExists ==
    ASSUME NEW w, Weights(w)
    PROVE  /\ SumOver(w) \in [SUBSET DOMAIN w -> Nat]
           /\ SumOver(w) = Body(w, SumOver(w))
<1> DEFINE W == DOMAIN w
           Good(h, n) == \A s \in SUBSET W : Cardinality(s) <= n => h[s] = Body(w, h)[s]
           N == {n \in Nat : \E h \in [SUBSET W -> Nat] : Good(h, n)}
<1>1. ASSUME NEW h \in [SUBSET W -> Nat] PROVE Body(w, h) \in [SUBSET W -> Nat]
  <2>1. ASSUME NEW s \in SUBSET W, s # {}
        PROVE  Picked(s) \in s /\ w[Picked(s)] \in Nat /\ h[s \ {Picked(s)}] \in Nat
    BY <2>1 DEF Picked, Weights
  <2> QED  BY <2>1 DEF Body
<1>2. ASSUME NEW h, NEW s \in SUBSET W
      PROVE  Body(w, h)[s] = IF s = {} THEN 0 ELSE w[Picked(s)] + h[s \ {Picked(s)}]
  BY DEF Body
<1>3. ASSUME NEW s \in SUBSET W, s # {}
      PROVE  Picked(s) \in s
  BY <1>3 DEF Picked
<1>4. 0 \in N
  <2> DEFINE h == [s \in SUBSET W |-> 0]
  <2>1. h \in [SUBSET W -> Nat]  OBVIOUS
  <2>2. ASSUME NEW s \in SUBSET W, Cardinality(s) <= 0 PROVE h[s] = Body(w, h)[s]
    <3>1. s = {}  BY <2>2, EmptySize, FS_Subset, FS_CardinalityType DEF Weights
    <3> QED  BY <1>2, <3>1
  <2> HIDE DEF h
  <2> QED  BY <2>1, <2>2
<1>5. ASSUME NEW n \in Nat, n \in N PROVE n + 1 \in N
  <2>1. PICK h \in [SUBSET W -> Nat] : Good(h, n)  BY <1>5
  <2> DEFINE g == Body(w, h)
  <2>2. g \in [SUBSET W -> Nat]  BY <1>1
  <2>3. ASSUME NEW s \in SUBSET W, Cardinality(s) <= n + 1 PROVE g[s] = Body(w, g)[s]
    <3>1. CASE s = {}  BY <1>2, <3>1
    <3>2. CASE s # {}
      <4> DEFINE r == s \ {Picked(s)}
      <4>1. r \in SUBSET W /\ Cardinality(r) <= n  BY <1>3, <2>3, <3>2, Smaller DEF Weights
      <4>2. h[r] = g[r]  BY <2>1, <4>1
      <4> QED  BY <1>2, <3>2, <4>2
    <3> QED  BY <3>1, <3>2
  <2> HIDE DEF g
  <2> QED  BY <2>2, <2>3
<1> HIDE DEF N
<1>6. Nat \subseteq N  BY <1>4, <1>5, NatSets
<1>7. Cardinality(W) \in Nat /\ \A s \in SUBSET W : Cardinality(s) <= Cardinality(W)
  BY FS_Subset, FS_CardinalityType DEF Weights
<1>8. PICK h \in [SUBSET W -> Nat] : Good(h, Cardinality(W))  BY <1>6, <1>7 DEF N
<1>9. h = Body(w, h)
  <2>1. Body(w, h) \in [SUBSET W -> Nat]  BY <1>1
  <2>2. \A s \in SUBSET W : h[s] = Body(w, h)[s]  BY <1>7, <1>8
  <2> QED  BY <2>1, <2>2
<1>10. SumOver(w) = Body(w, SumOver(w))  BY <1>9 DEF SumOver
<1> DEFINE g == SumOver(w)
           M == {n \in Nat : \A s \in SUBSET W : Cardinality(s) = n => g[s] \in Nat}
<1>11. ASSUME NEW s \in SUBSET W
       PROVE  g[s] = IF s = {} THEN 0 ELSE w[Picked(s)] + g[s \ {Picked(s)}]
  BY <1>2, <1>10
<1> HIDE DEF g
<1>12. 0 \in M
  <2> SUFFICES ASSUME NEW s \in SUBSET W, Cardinality(s) = 0 PROVE g[s] \in Nat  OBVIOUS
  <2>1. s = {}  BY EmptySize, FS_Subset DEF Weights
  <2>2. g[s] = 0  BY <1>11, <2>1
  <2> QED  BY <2>2
<1>13. ASSUME NEW n \in Nat, n \in M PROVE n + 1 \in M
  <2> SUFFICES ASSUME NEW s \in SUBSET W, Cardinality(s) = n + 1 PROVE g[s] \in Nat  OBVIOUS
  <2>1. s # {}  BY FS_EmptySet
  <2>2. Picked(s) \in s /\ w[Picked(s)] \in Nat  BY <1>3, <2>1 DEF Weights
  <2>3. s \ {Picked(s)} \in SUBSET W /\ Cardinality(s \ {Picked(s)}) = n
    BY <2>2, Smaller DEF Weights
  <2>4. g[s \ {Picked(s)}] \in Nat  BY <1>13, <2>3
  <2>5. g[s] = w[Picked(s)] + g[s \ {Picked(s)}]  BY <1>11, <2>1
  <2> QED  BY <2>2, <2>4, <2>5
<1> HIDE DEF M
<1>14. Nat \subseteq M  BY <1>12, <1>13, NatSets
<1>15. \A s \in SUBSET W : g[s] \in Nat
  <2> TAKE s \in SUBSET W
  <2>1. Cardinality(s) \in Nat  BY FS_Subset, FS_CardinalityType DEF Weights
  <2> QED  BY <1>14, <2>1 DEF M
<1>16. g = [s \in SUBSET W |-> g[s]]  BY <1>10 DEF g, Body
<1>17. g \in [SUBSET W -> Nat]  BY <1>15, <1>16
<1> QED  BY <1>10, <1>17 DEF g

\* A sum does not depend on the order in which the weights are added.
LEMMA SumSplits ==
    ASSUME NEW w, Weights(w)
    PROVE  Splits(w)
<1> DEFINE W == DOMAIN w
           g == SumOver(w)
           N == {n \in Nat : \A s \in SUBSET W : Cardinality(s) = n =>
                                \A x \in s : g[s] = w[x] + g[s \ {x}]}
<1>1. \A s \in SUBSET W : s # {} => g[s] = w[Picked(s)] + g[s \ {Picked(s)}]
  BY SumExists, Zenon DEF Body
<1>2. \A s \in SUBSET W : g[s] \in Nat  BY SumExists
<1> HIDE DEF g
<1>3. 0 \in N
  <2> SUFFICES ASSUME NEW s \in SUBSET W, Cardinality(s) = 0, NEW x \in s PROVE FALSE  OBVIOUS
  <2> QED  BY EmptySize, FS_Subset DEF Weights
<1>4. ASSUME NEW n \in Nat, n \in N PROVE n + 1 \in N
  <2> SUFFICES ASSUME NEW s \in SUBSET W, Cardinality(s) = n + 1, NEW x \in s
               PROVE  g[s] = w[x] + g[s \ {x}]
    OBVIOUS
  <2> DEFINE y == Picked(s)
  <2>1. y \in s  BY DEF Picked
  <2>2. g[s] = w[y] + g[s \ {y}]  BY <1>1
  <2>3. CASE x = y  BY <2>2, <2>3
  <2>4. CASE x # y
    <3>1. x \in s \ {y} /\ y \in s \ {x}  BY <2>1, <2>4
    <3>2. /\ s \ {y} \in SUBSET W /\ Cardinality(s \ {y}) = n
          /\ s \ {x} \in SUBSET W /\ Cardinality(s \ {x}) = n
      BY <2>1, Smaller DEF Weights
    <3> DEFINE r == (s \ {y}) \ {x}
    <3>3. r = (s \ {x}) \ {y} /\ r \in SUBSET W  BY <3>2
    <3>4. g[s \ {y}] = w[x] + g[r]  BY <1>4, <3>1, <3>2
    <3>5. g[s \ {x}] = w[y] + g[r]  BY <1>4, <3>1, <3>2, <3>3
    <3>6. w[x] \in Nat /\ w[y] \in Nat /\ g[r] \in Nat  BY <1>2, <2>1, <3>3 DEF Weights
    <3> HIDE DEF y, r
    <3> QED  BY <2>2, <3>4, <3>5, <3>6
  <2> QED  BY <2>3, <2>4
<1> HIDE DEF N
<1>5. Nat \subseteq N  BY <1>3, <1>4, NatSets
<1> SUFFICES ASSUME NEW s \in SUBSET W, NEW x \in s PROVE g[s] = w[x] + g[s \ {x}]
  BY DEF g, Splits
<1>6. Cardinality(s) \in Nat  BY FS_Subset, FS_CardinalityType DEF Weights
<1> QED  BY <1>5, <1>6 DEF N

\* No weights have no sum.
LEMMA SumNone == ASSUME NEW w, Weights(w) PROVE SumOver(w)[{}] = 0
<1>1. \A s \in SUBSET DOMAIN w :
         SumOver(w)[s] = IF s = {} THEN 0 ELSE w[Picked(s)] + SumOver(w)[s \ {Picked(s)}]
  BY SumExists, Zenon DEF Body
<1>2. {} \in SUBSET DOMAIN w  OBVIOUS
<1> QED  BY <1>1, <1>2

\* The weights of a place of w for each of places u: their sum is that of these
\* places in w.
LEMMA SumsAgree ==
    ASSUME NEW u, Weights(u), NEW w, Weights(w), NEW p \in [DOMAIN u -> DOMAIN w],
           \A x, y \in DOMAIN u : p[x] = p[y] => x = y,
           \A x \in DOMAIN u : u[x] = w[p[x]]
    PROVE  SumOver(u)[DOMAIN u] = SumOver(w)[{p[x] : x \in DOMAIN u}]
<1> DEFINE U == DOMAIN u
           h == SumOver(u)
           g == SumOver(w)
           im(s) == {p[x] : x \in s}
           N == {n \in Nat : \A s \in SUBSET U : Cardinality(s) = n => h[s] = g[im(s)]}
<1>1. \A s \in SUBSET U : \A x \in s : h[s] = u[x] + h[s \ {x}]
  <2>1. Splits(u)  BY SumSplits
  <2> QED  BY <2>1 DEF Splits
<1>2. \A s \in SUBSET DOMAIN w : \A x \in s : g[s] = w[x] + g[s \ {x}]
  <2>1. Splits(w)  BY SumSplits
  <2> QED  BY <2>1 DEF Splits
<1>3. h[{}] = 0 /\ g[{}] = 0  BY SumNone
<1> HIDE DEF g, h
<1>4. 0 \in N
  <2> SUFFICES ASSUME NEW s \in SUBSET U, Cardinality(s) = 0 PROVE h[s] = g[im(s)]  OBVIOUS
  <2>1. s = {}  BY EmptySize, FS_Subset DEF Weights
  <2>2. im(s) = {}  BY <2>1
  <2> QED  BY <1>3, <2>1, <2>2
<1>5. ASSUME NEW n \in Nat, n \in N PROVE n + 1 \in N
  <2> SUFFICES ASSUME NEW s \in SUBSET U, Cardinality(s) = n + 1 PROVE h[s] = g[im(s)]  OBVIOUS
  <2>1. PICK x \in s : TRUE  BY FS_EmptySet
  <2>2. s \ {x} \in SUBSET U /\ Cardinality(s \ {x}) = n  BY Smaller DEF Weights
  <2>3. h[s \ {x}] = g[im(s \ {x})]  BY <1>5, <2>2
  <2>4. im(s) \in SUBSET DOMAIN w /\ p[x] \in im(s)  OBVIOUS
  <2>5. im(s) \ {p[x]} = im(s \ {x})  OBVIOUS
  <2>6. h[s] = u[x] + h[s \ {x}]  BY <1>1
  <2> HIDE DEF im
  <2>7. g[im(s)] = w[p[x]] + g[im(s) \ {p[x]}]  BY <1>2, <2>4
  <2>8. u[x] = w[p[x]]  OBVIOUS
  <2> QED  BY <2>3, <2>5, <2>6, <2>7, <2>8
<1> HIDE DEF N
<1>6. Nat \subseteq N  BY <1>4, <1>5, NatSets
<1>7. Cardinality(U) \in Nat /\ U \in SUBSET U  BY FS_CardinalityType DEF Weights
<1>8. h[U] = g[im(U)]  BY <1>6, <1>7 DEF N
<1> QED  BY <1>8 DEF g, h

\* Fewer rows have no more bytes, and are no more: what is within the limits of
\* _enforce_retention stays so without some of its rows.
LEMMA WithinPart ==
    ASSUME NEW W, Sized(W), NEW U \in SUBSET W, T!WithinLimits(W)
    PROVE  T!WithinLimits(U)
<1> DEFINE g == SumOver(SizeOf(W))
           N == {n \in Nat : \A s \in SUBSET W : Cardinality(s) = n =>
                                \A r \in SUBSET s : g[r] <= g[s]}
<1>0. /\ Weights(SizeOf(W)) /\ DOMAIN SizeOf(W) = W
      /\ \A x \in W : SizeOf(W)[x] = x.size
  BY SizesAreWeights
<1>1. \A s \in SUBSET W : \A x \in s : g[s] = x.size + g[s \ {x}]
  <2> DEFINE w == SizeOf(W)
  <2>1. \A s \in SUBSET W : \A x \in s : SumOver(w)[s] = w[x] + SumOver(w)[s \ {x}]
    <3>1. Splits(w)  BY <1>0, SumSplits
    <3> QED  BY <1>0, <3>1 DEF Splits
  <2>2. \A s \in SUBSET W : \A x \in s : w[x] = x.size  BY <1>0
  <2> HIDE DEF w
  <2>3. g = SumOver(w)  BY DEF g, w
  <2> QED  BY <2>1, <2>2, <2>3
<1>2. \A s \in SUBSET W : g[s] \in Nat  BY <1>0, SumExists
<1> HIDE DEF g
<1>3. 0 \in N
  <2> SUFFICES ASSUME NEW s \in SUBSET W, Cardinality(s) = 0, NEW r \in SUBSET s
               PROVE  g[r] <= g[s]
    OBVIOUS
  <2>1. s = {}  BY EmptySize, FS_Subset DEF Sized
  <2>2. r = s  BY <2>1
  <2> QED  BY <1>2, <2>2
<1>4. ASSUME NEW n \in Nat, n \in N PROVE n + 1 \in N
  <2> SUFFICES ASSUME NEW s \in SUBSET W, Cardinality(s) = n + 1, NEW r \in SUBSET s
               PROVE  g[r] <= g[s]
    OBVIOUS
  <2>1. CASE r = s  BY <1>2, <2>1
  <2>2. CASE r # s
    <3>1. PICK x \in s : x \notin r  BY <2>2
    <3>2. r \in SUBSET (s \ {x}) /\ s \ {x} \in SUBSET W /\ Cardinality(s \ {x}) = n
      BY <3>1, Smaller DEF Sized
    <3>3. g[r] <= g[s \ {x}]  BY <1>4, <3>2
    <3>4. g[s] = x.size + g[s \ {x}]  BY <1>1
    <3>5. x.size \in Nat /\ g[s \ {x}] \in Nat /\ g[r] \in Nat /\ g[s] \in Nat
      BY <1>2, <3>2 DEF Sized
    <3> QED  BY <3>3, <3>4, <3>5
  <2> QED  BY <2>1, <2>2
<1> HIDE DEF N
<1>5. Nat \subseteq N  BY <1>3, <1>4, NatSets
<1>6. Cardinality(W) \in Nat /\ Cardinality(U) \in Nat /\ Cardinality(U) <= Cardinality(W)
  BY FS_Subset, FS_CardinalityType DEF Sized
<1>7. W \in SUBSET W  OBVIOUS
<1>8. g[U] <= g[W]  BY <1>5, <1>6, <1>7 DEF N
<1>9. T!Bytes(U) = g[U] /\ T!Bytes(W) = g[W]
  <2> DEFINE p == [x \in U |-> x]
  <2>1. Sized(U)  BY FS_Subset DEF Sized
  <2>2. /\ Weights(SizeOf(U)) /\ DOMAIN SizeOf(U) = U
        /\ \A x \in U : SizeOf(U)[x] = x.size
    BY <2>1, SizesAreWeights
  <2>3. p \in [U -> W] /\ {p[x] : x \in U} = U /\ \A x \in U : p[x] = x  OBVIOUS
  <2> HIDE DEF p
  <2>4. SumOver(SizeOf(U))[U] = SumOver(SizeOf(W))[{p[x] : x \in U}]
    <3> DEFINE u == SizeOf(U)
               w == SizeOf(W)
    <3>1. \A x \in DOMAIN u : u[x] = w[p[x]]  BY <1>0, <2>2, <2>3
    <3>2. \A x, y \in DOMAIN u : p[x] = p[y] => x = y  BY <2>2, <2>3
    <3>3. p \in [DOMAIN u -> DOMAIN w] /\ Weights(u) /\ Weights(w) /\ DOMAIN u = U
      BY <1>0, <2>2, <2>3
    <3> HIDE DEF u, w
    <3>4. SumOver(u)[DOMAIN u] = SumOver(w)[{p[x] : x \in DOMAIN u}]
      BY <3>1, <3>2, <3>3, SumsAgree
    <3> QED  BY <3>3, <3>4 DEF u, w
  <2> QED  BY <2>3, <2>4, BytesAre DEF g
<1>10. MaxRows \in Nat /\ MaxBytes \in Nat  BY ServicesAssumptions DEF T!RecordsAssumption
<1> QED  BY <1>2, <1>6, <1>7, <1>8, <1>9, <1>10, RecordCount DEF T!WithinLimits

\* Rows of calls: those of a task are told apart by their numbers.
CallRows == [task : Tasks, id : 1 .. v9, size : CallSizes]
CallerRows == [pc : {"idle", "stored", "listed"}, task : Tasks \cup {T!NoCall.task}, drop : SUBSET (1 .. v9)]

LogTypeInv ==
    /\ v9 \in Nat
    /\ v8 \in [Callers -> CallerRows]
    /\ \A c \in Callers : v8[c].pc # "idle" => v8[c].task \in Tasks
    /\ v10 \in [Tasks -> SUBSET CallRows]
    /\ \A t \in Tasks : /\ IsFiniteSet(v10[t])
                        /\ \A r \in v10[t] : r.task = t
                        /\ \A r, q \in v10[t] : r.id = q.id => r = q

Late(t) == {r \in T!Of(t) : r \notin T!Kept(v10[t])}

\* What is left of a log is an end of it, and at least what fits.
EndLeft ==
    \A t \in Tasks :
        /\ T!Of(t) \subseteq v10[t] /\ T!Kept(v10[t]) \subseteq T!Of(t)
        /\ \A r \in T!Of(t), q \in v10[t] : r.id <= q.id => q \in T!Of(t)

\* What a thread is about to delete does not fit, and with each row goes
\* every older one.
ListSound(rows, left, drop) ==
    /\ \A r \in rows : r.id \in drop => r \notin T!Kept(rows)
    /\ \A r \in left, q \in rows : q.id \in drop /\ r.id <= q.id => r.id \in drop
DropsSound ==
    \A c \in Callers, t \in Tasks : v8[c].pc = "listed" /\ v8[c].task = t =>
        ListSound(v10[t], T!Of(t), v8[c].drop)

\* What does not fit is on the list of some thread, unless one has yet to list.
LateListed ==
    \A t \in Tasks :
        \/ \E c \in Callers : v8[c].pc = "stored" /\ v8[c].task = t
        \/ \A r \in Late(t) : \E c \in Callers :
              v8[c].pc = "listed" /\ v8[c].task = t /\ r.id \in v8[c].drop
LogState == LogTypeInv /\ EndLeft /\ DropsSound /\ LateListed
RecordsInv == part = "records" => LogState /\ T!RecallInScope

\* The calls of a task are finitely many rows with a size.
LEMMA RowsSized == ASSUME LogTypeInv, NEW t \in Tasks PROVE Sized(v10[t])
<1>1. v10[t] \in SUBSET CallRows /\ IsFiniteSet(v10[t])  BY DEF LogTypeInv
<1>2. CallSizes \subseteq Nat  BY ServicesAssumptions DEF T!RecordsAssumption
<1> QED  BY <1>1, <1>2 DEF Sized, CallRows

\* What fits is the same in a log and in an end of it that has all that fits.
LEMMA KeptOfEnd ==
    ASSUME NEW W, NEW U \in SUBSET W, T!Kept(W) \subseteq U,
           \A r \in U, q \in W : r.id <= q.id => q \in U
    PROVE  T!Kept(U) = T!Kept(W)
<1>1. ASSUME NEW r \in U
      PROVE  {q \in U : q.id >= r.id} = {q \in W : q.id >= r.id}
  OBVIOUS
<1> QED  BY <1>1 DEF T!Kept

\* With a new row no older one fits that did not fit before.
LEMMA KeptGrows ==
    ASSUME NEW W, NEW x, Sized(W \cup {x})
    PROVE  T!Kept(W \cup {x}) \subseteq T!Kept(W) \cup {x}
<1> SUFFICES ASSUME NEW r \in T!Kept(W \cup {x}), r # x PROVE r \in T!Kept(W)
  OBVIOUS
<1> DEFINE big == {q \in W \cup {x} : q.id >= r.id}
           small == {q \in W : q.id >= r.id}
<1>1. r \in W /\ T!WithinLimits(big)  BY DEF T!Kept
<1>2. small \in SUBSET big /\ big \subseteq W \cup {x}  OBVIOUS
<1>3. Sized(big)  BY <1>2, FS_Subset DEF Sized
<1> HIDE DEF big, small
<1>4. T!WithinLimits(small)  BY <1>1, <1>2, <1>3, WithinPart
<1> QED  BY <1>1, <1>4 DEF T!Kept, small

\* A call that is recorded (record_llm_interaction) may push others over the
\* limits, and its thread has yet to list the rows.
LEMMA CallRecorded ==
    ASSUME LogState, NEW c \in Callers, NEW t \in Tasks, NEW size \in CallSizes,
           T!RecordCall(c, t, size)
    PROVE  LogState'
<1> DEFINE row == [task |-> t, id |-> v9 + 1, size |-> size]
           mine == [pc |-> "stored", task |-> t, drop |-> {}]
<1>1. /\ v9' = v9 + 1 /\ v7' = v7 \cup {row} /\ v8[c].pc = "idle"
      /\ v10' = [v10 EXCEPT ![t] = @ \cup {row}]
      /\ v8' = [v8 EXCEPT ![c] = mine]
  BY DEF T!RecordCall
<1>2. /\ v9 \in Nat /\ v8 \in [Callers -> CallerRows] /\ v10 \in [Tasks -> SUBSET CallRows]
  BY DEF LogState, LogTypeInv
<1>3. row.task = t /\ row.id = v9 + 1 /\ row.size = size  OBVIOUS
<1>4. /\ v10'[t] = v10[t] \cup {row} /\ \A u \in Tasks : u # t => v10'[u] = v10[u]
      /\ v8'[c] = mine /\ \A d \in Callers : d # c => v8'[d] = v8[d]
  BY <1>1, <1>2
<1>5. \A u \in Tasks : \A r \in v10[u] : r.id \in 1 .. v9 /\ r # row
  BY <1>2, <1>3 DEF CallRows
<1>6. T!Of(t)' = T!Of(t) \cup {row} /\ \A u \in Tasks : u # t => T!Of(u)' = T!Of(u)
  BY <1>1, <1>3 DEF T!Of
<1>7. row \in CallRows' /\ CallRows \subseteq CallRows' /\ mine \in CallerRows'
      /\ CallerRows \subseteq CallerRows'
  BY <1>1, <1>2 DEF CallRows, CallerRows
<1> HIDE DEF row
<1>8. LogTypeInv'
  <2>1. v10' \in [Tasks -> SUBSET CallRows']  BY <1>1, <1>2, <1>7
  <2>2. v8' \in [Callers -> CallerRows']  BY <1>1, <1>2, <1>7
  <2>3. ASSUME NEW u \in Tasks
        PROVE  /\ IsFiniteSet(v10'[u])
               /\ \A r \in v10'[u] : r.task = u
               /\ \A r, q \in v10'[u] : r.id = q.id => r = q
    <3>1. /\ IsFiniteSet(v10[u]) /\ \A r \in v10[u] : r.task = u
          /\ \A r, q \in v10[u] : r.id = q.id => r = q
      BY DEF LogState, LogTypeInv
    <3>2. CASE u # t  BY <1>4, <3>1, <3>2
    <3>3. CASE u = t
      <4>1. IsFiniteSet(v10'[u])  BY <1>4, <3>1, <3>3, FS_AddElement
      <4>2. \A r \in v10'[u] : r.task = u  BY <1>3, <1>4, <3>1, <3>3
      <4>3. \A r \in v10[u] : r.id # row.id  BY <1>2, <1>3, <1>5
      <4>4. \A r, q \in v10'[u] : r.id = q.id => r = q  BY <1>4, <3>1, <3>3, <4>3
      <4> QED  BY <4>1, <4>2, <4>4
    <3> QED  BY <3>2, <3>3
  <2>4. v9' \in Nat  BY <1>1, <1>2
  <2>5. \A d \in Callers : v8'[d].pc # "idle" => v8'[d].task \in Tasks
    BY <1>4 DEF LogState, LogTypeInv
  <2> QED  BY <2>1, <2>2, <2>3, <2>4, <2>5, Zenon DEF LogTypeInv
<1>9. T!Kept(v10'[t]) \subseteq T!Kept(v10[t]) \cup {row}
  <2>1. Sized(v10[t] \cup {row})
    <3>1. Sized(v10'[t])  
      <4>1. CallSizes \subseteq Nat  BY ServicesAssumptions DEF T!RecordsAssumption
      <4> QED  BY <1>1, <1>2, <1>3, <1>4, <1>8, <4>1, RowsSized, FS_AddElement DEF Sized, LogState
    <3> QED  BY <1>4, <3>1
  <2> QED  BY <1>4, <2>1, KeptGrows
<1>10. EndLeft'
  <2> SUFFICES ASSUME NEW u \in Tasks
               PROVE  /\ T!Of(u)' \subseteq v10'[u] /\ T!Kept(v10'[u]) \subseteq T!Of(u)'
                      /\ \A r \in T!Of(u)', q \in v10'[u] : r.id <= q.id => q \in T!Of(u)'
    BY DEF EndLeft
  <2>1. /\ T!Of(u) \subseteq v10[u] /\ T!Kept(v10[u]) \subseteq T!Of(u)
        /\ \A r \in T!Of(u), q \in v10[u] : r.id <= q.id => q \in T!Of(u)
    BY DEF LogState, EndLeft
  <2>2. CASE u # t  BY <1>4, <1>6, <2>1, <2>2
  <2>3. CASE u = t
    <3>1. T!Of(u)' \subseteq v10'[u] /\ T!Kept(v10'[u]) \subseteq T!Of(u)'
      BY <1>4, <1>6, <1>9, <2>1, <2>3
    <3>2. ASSUME NEW r \in T!Of(u)', NEW q \in v10'[u], r.id <= q.id PROVE q \in T!Of(u)'
      <4>1. CASE q = row  BY <1>6, <2>3, <4>1
      <4>2. CASE q # row
        <5>1. q \in v10[u] /\ q.id \in 1 .. v9  BY <1>4, <1>5, <2>3, <4>2
        <5>2. r # row  BY <1>2, <1>3, <3>2, <5>1
        <5> QED  BY <1>6, <2>1, <2>3, <3>2, <5>1, <5>2
      <4> QED  BY <4>1, <4>2
    <3> QED  BY <3>1, <3>2
  <2> QED  BY <2>2, <2>3
<1>11. DropsSound'
  <2> SUFFICES ASSUME NEW d \in Callers, NEW u \in Tasks,
                      v8'[d].pc = "listed", v8'[d].task = u
               PROVE  ListSound(v10'[u], T!Of(u)', v8'[d].drop)
    BY DEF DropsSound, ListSound
  <2>1. d # c /\ v8'[d] = v8[d]  BY <1>4
  <2> DEFINE drop == v8[d].drop
  <2>2. ListSound(v10[u], T!Of(u), drop)
    BY <2>1 DEF LogState, DropsSound
  <2>3. drop \subseteq 1 .. v9  BY <1>2 DEF CallerRows
  <2>4. v8'[d].drop = drop  BY <2>1
  <2> HIDE DEF drop
  <2>5. ListSound(v10'[u], T!Of(u)', drop)
    <3>1. CASE u # t
      <4>1. v10'[u] = v10[u] /\ T!Of(u)' = T!Of(u)  BY <1>4, <1>6, <3>1
      <4> QED  BY <2>2, <4>1
    <3>2. CASE u = t
      <4>1. row.id \notin drop  BY <1>2, <1>3, <2>3
      <4>2. \A r \in v10'[u] : r.id \in drop => r \notin T!Kept(v10'[u])
        BY <1>4, <1>9, <2>2, <3>2, <4>1 DEF ListSound
      <4>3. ASSUME NEW r \in T!Of(u)', NEW q \in v10'[u], q.id \in drop, r.id <= q.id
            PROVE  r.id \in drop
        <5>1. q \in v10[u] /\ q.id \in 1 .. v9  BY <1>4, <1>5, <2>2, <3>2, <4>1, <4>3
        <5>2. r # row  BY <1>2, <1>3, <4>3, <5>1
        <5>3. r \in T!Of(u)  BY <1>6, <3>2, <4>3, <5>2
        <5> QED  BY <2>2, <4>3, <5>1, <5>3 DEF ListSound
      <4> QED  BY <4>2, <4>3 DEF ListSound
    <3> QED  BY <3>1, <3>2
  <2> QED  BY <2>4, <2>5
<1>12. LateListed'
  <2> SUFFICES ASSUME NEW u \in Tasks,
                      ~ \E d \in Callers : v8'[d].pc = "stored" /\ v8'[d].task = u,
                      NEW r \in Late(u)'
               PROVE  \E d \in Callers :
                         v8'[d].pc = "listed" /\ v8'[d].task = u /\ r.id \in v8'[d].drop
    BY DEF LateListed
  <2>1. u # t  BY <1>4
  <2>2. r \in Late(u)  BY <1>4, <1>6, <2>1 DEF Late
  <2>3. ~ \E d \in Callers : v8[d].pc = "stored" /\ v8[d].task = u
    BY <1>1, <1>4
  <2>4. PICK d \in Callers : v8[d].pc = "listed" /\ v8[d].task = u /\ r.id \in v8[d].drop
    BY <2>2, <2>3 DEF LogState, LateListed
  <2> QED  BY <1>1, <1>4, <2>4
<1> QED  BY <1>8, <1>10, <1>11, <1>12 DEF LogState

\* Whatever fits with a row fits with a later one.
LEMMA KeptIsEnd ==
    ASSUME NEW W, Sized(W), \A x \in W : x.id \in Nat,
           NEW r \in T!Kept(W), NEW q \in W, r.id <= q.id
    PROVE  q \in T!Kept(W)
<1> DEFINE big == {x \in W : x.id >= r.id}
           small == {x \in W : x.id >= q.id}
<1>1. r \in W /\ T!WithinLimits(big)  BY DEF T!Kept
<1>2. small \in SUBSET big
  <2> SUFFICES ASSUME NEW x \in W, x.id >= q.id PROVE x.id >= r.id  OBVIOUS
  <2>1. x.id \in Nat /\ q.id \in Nat /\ r.id \in Nat  BY <1>1
  <2> QED  BY <2>1
<1>3. Sized(big)
  <2>1. big \subseteq W  OBVIOUS
  <2> QED  BY <2>1, FS_Subset DEF Sized
<1> HIDE DEF big, small
<1>4. T!WithinLimits(small)  BY <1>1, <1>2, <1>3, WithinPart
<1> QED  BY <1>4 DEF T!Kept, small

\* The list a thread makes is of rows that do not fit and of all that are older,
\* for what is left of the log is an end of it (_enforce_retention).
LEMMA RowsListed ==
    ASSUME LogState, NEW c \in Callers, T!ListRows(c) PROVE LogState'
<1> DEFINE t == v8[c].task
           fit == T!Kept(v10[t])
           late == T!IdsOf(T!Of(t)) \ T!IdsOf(fit)
           mine == [pc |-> "listed", task |-> t, drop |-> late]
<1>1. /\ v9 \in Nat /\ v8 \in [Callers -> CallerRows] /\ v10 \in [Tasks -> SUBSET CallRows]
      /\ \A d \in Callers : v8[d].pc # "idle" => v8[d].task \in Tasks
  BY DEF LogState, LogTypeInv
<1>2. v8[c].pc = "stored" /\ t \in Tasks /\ v7' = v7 /\ v9' = v9 /\ v10' = v10
  BY <1>1 DEF T!ListRows
<1>3. /\ T!Of(t) \subseteq v10[t] /\ fit \subseteq T!Of(t)
      /\ \A r \in T!Of(t), q \in v10[t] : r.id <= q.id => q \in T!Of(t)
  BY <1>2 DEF LogState, EndLeft
<1>4. T!Kept(T!Of(t)) = fit  BY <1>3, KeptOfEnd
<1>5. v8' = [v8 EXCEPT ![c] = mine]
  <2>1. v8' = [v8 EXCEPT ![c].pc = "listed", ![c].drop = late]  BY <1>4 DEF T!ListRows
  <2> HIDE DEF late
  <2>2. v8[c] = [pc |-> v8[c].pc, task |-> t, drop |-> v8[c].drop]  BY <1>1 DEF CallerRows
  <2>3. v8'[c] = mine /\ \A d \in Callers : d # c => v8'[d] = v8[d]  BY <1>1, <2>1, <2>2
  <2>4. v8' = [d \in Callers |-> v8'[d]]  BY <1>1, <2>1
  <2>5. v8 = [d \in Callers |-> v8[d]]  BY <1>1
  <2> HIDE DEF mine
  <2> QED  BY <2>3, <2>4, <2>5
<1>6. /\ \A r \in v10[t] : r.id \in 1 .. v9 /\ r.id \in Nat
      /\ \A r, q \in v10[t] : r.id = q.id => r = q
      /\ Sized(v10[t])
  BY <1>1, <1>2, RowsSized DEF CallRows, LogState, LogTypeInv
<1>7. \A r \in v10[t] : r.id \in late <=> r \in T!Of(t) /\ r \notin fit
  BY <1>3, <1>6 DEF T!IdsOf
<1>8. late \in SUBSET (1 .. v9)  BY <1>3, <1>6 DEF T!IdsOf
<1>9. ListSound(v10[t], T!Of(t), late)
  <2>1. ASSUME NEW r \in T!Of(t), NEW q \in v10[t], q.id \in late, r.id <= q.id PROVE r.id \in late
    <3>1. q \notin fit  BY <1>7, <2>1
    <3>2. r \notin fit  BY <1>6, <2>1, <3>1, KeptIsEnd
    <3> QED  BY <1>3, <1>7, <3>2
  <2> QED  BY <1>7, <2>1 DEF ListSound
<1> HIDE DEF late
<1>10. /\ v8'[c].pc = "listed" /\ v8'[c].task = t /\ v8'[c].drop = late
       /\ \A d \in Callers : d # c => v8'[d] = v8[d]
  BY <1>1, <1>5
<1>11. LogTypeInv'
  <2>1. mine \in CallerRows  BY <1>2, <1>8 DEF CallerRows
  <2>2. v8' \in [Callers -> CallerRows]  BY <1>1, <1>5, <2>1
  <2>3. \A d \in Callers : v8'[d].pc # "idle" => v8'[d].task \in Tasks
    BY <1>1, <1>2, <1>10
  <2>4. CallRows' = CallRows /\ CallerRows' = CallerRows  BY <1>2 DEF CallRows, CallerRows
  <2> QED  BY <1>2, <2>2, <2>3, <2>4, Zenon DEF LogTypeInv, LogState
<1>12. \A u \in Tasks : T!Of(u)' = T!Of(u)  BY <1>2 DEF T!Of
<1>13. EndLeft'  BY <1>2, <1>12 DEF EndLeft, LogState
<1>14. DropsSound'
  <2> SUFFICES ASSUME NEW d \in Callers, NEW u \in Tasks,
                      v8'[d].pc = "listed", v8'[d].task = u
               PROVE  ListSound(v10[u], T!Of(u), v8'[d].drop)
    BY <1>2, <1>12 DEF DropsSound, ListSound
  <2>1. CASE d = c  BY <1>9, <1>10, <2>1
  <2>2. CASE d # c  BY <1>10, <2>2 DEF LogState, DropsSound
  <2> QED  BY <2>1, <2>2
<1>15. LateListed'
  <2> SUFFICES ASSUME NEW u \in Tasks,
                      ~ \E d \in Callers : v8'[d].pc = "stored" /\ v8'[d].task = u,
                      NEW r \in Late(u)
               PROVE  \E d \in Callers :
                         v8'[d].pc = "listed" /\ v8'[d].task = u /\ r.id \in v8'[d].drop
    BY <1>2, <1>12 DEF LateListed, Late
  <2>1. CASE u = t
    <3>1. r.id \in late  BY <1>3, <1>7, <2>1 DEF Late
    <3> QED  BY <1>10, <2>1, <3>1
  <2>2. CASE u # t
    <3>1. ~ \E d \in Callers : v8[d].pc = "stored" /\ v8[d].task = u  BY <1>10, <2>2
    <3>2. PICK d \in Callers : v8[d].pc = "listed" /\ v8[d].task = u /\ r.id \in v8[d].drop
      BY <3>1 DEF LogState, LateListed
    <3>3. d # c  BY <1>2, <3>2
    <3> QED  BY <1>10, <3>2, <3>3
  <2> QED  BY <2>1, <2>2
<1> QED  BY <1>11, <1>13, <1>14, <1>15 DEF LogState

\* Deleting by id takes only rows that do not fit, also when other threads have
\* added or deleted rows since (_delete_ids_for_task).
LEMMA RowsDropped ==
    ASSUME LogState, NEW c \in Callers, T!DropRows(c) PROVE LogState'
<1> DEFINE old == v8[c].drop
<1>1. /\ v9 \in Nat /\ v8 \in [Callers -> CallerRows] /\ v10 \in [Tasks -> SUBSET CallRows]
      /\ \A d \in Callers : v8[d].pc # "idle" => v8[d].task \in Tasks
  BY DEF LogState, LogTypeInv
<1>0. PICK t \in Tasks : t = v8[c].task  BY <1>1 DEF T!DropRows
<1>2. /\ v8[c].pc = "listed" /\ v8[c].task = t /\ v9' = v9 /\ v10' = v10
      /\ v7' = v7 \ {r \in T!Of(t) : r.id \in old} /\ v8' = [v8 EXCEPT ![c] = T!NoCall]
  BY <1>0 DEF T!DropRows
<1>3. ListSound(v10[t], T!Of(t), old)  BY <1>2 DEF LogState, DropsSound
<1> HIDE DEF old
<1>4. /\ T!NoCall.pc = "idle" /\ T!NoCall \in CallerRows  BY DEF T!NoCall, CallerRows
<1>5. v8'[c].pc = "idle" /\ \A d \in Callers : d # c => v8'[d] = v8[d]
  BY <1>1, <1>2, <1>4
<1>6. T!Of(t)' = {r \in T!Of(t) : r.id \notin old}
      /\ \A u \in Tasks : u # t => T!Of(u)' = T!Of(u)
  BY <1>2 DEF T!Of
<1>7. LogTypeInv'
  <2>1. v8' \in [Callers -> CallerRows]  BY <1>1, <1>2, <1>4
  <2>2. \A d \in Callers : v8'[d].pc # "idle" => v8'[d].task \in Tasks  BY <1>1, <1>5
  <2>3. CallRows' = CallRows /\ CallerRows' = CallerRows  BY <1>2 DEF CallRows, CallerRows
  <2> QED  BY <1>2, <2>1, <2>2, <2>3, Zenon DEF LogTypeInv, LogState
<1>8. EndLeft'
  <2> SUFFICES ASSUME NEW u \in Tasks
               PROVE  /\ T!Of(u)' \subseteq v10[u] /\ T!Kept(v10[u]) \subseteq T!Of(u)'
                      /\ \A r \in T!Of(u)', q \in v10[u] : r.id <= q.id => q \in T!Of(u)'
    BY <1>2 DEF EndLeft
  <2>1. /\ T!Of(u) \subseteq v10[u] /\ T!Kept(v10[u]) \subseteq T!Of(u)
        /\ \A r \in T!Of(u), q \in v10[u] : r.id <= q.id => q \in T!Of(u)
    BY DEF LogState, EndLeft
  <2>2. CASE u # t  BY <1>6, <2>1, <2>2
  <2>3. CASE u = t  BY <1>3, <1>6, <2>1, <2>3 DEF ListSound
  <2> QED  BY <2>2, <2>3
<1>9. DropsSound'
  <2> SUFFICES ASSUME NEW d \in Callers, NEW u \in Tasks,
                      v8'[d].pc = "listed", v8'[d].task = u
               PROVE  ListSound(v10[u], T!Of(u)', v8'[d].drop)
    BY <1>2 DEF DropsSound, ListSound
  <2>1. d # c /\ v8'[d] = v8[d]  BY <1>5
  <2>2. ListSound(v10[u], T!Of(u), v8[d].drop)  BY <2>1 DEF LogState, DropsSound
  <2>3. T!Of(u)' \subseteq T!Of(u)  BY <1>6
  <2> QED  BY <2>1, <2>2, <2>3 DEF ListSound
<1>10. LateListed'
  <2> SUFFICES ASSUME NEW u \in Tasks,
                      ~ \E d \in Callers : v8'[d].pc = "stored" /\ v8'[d].task = u,
                      NEW r \in T!Of(u)', r \notin T!Kept(v10[u])
               PROVE  \E d \in Callers :
                         v8'[d].pc = "listed" /\ v8'[d].task = u /\ r.id \in v8'[d].drop
    BY <1>2 DEF LateListed, Late
  <2>1. ~ \E d \in Callers : v8[d].pc = "stored" /\ v8[d].task = u  BY <1>2, <1>5
  <2>2. r \in Late(u) /\ (u = t => r.id \notin old)  BY <1>6 DEF Late
  <2>3. PICK d \in Callers : v8[d].pc = "listed" /\ v8[d].task = u /\ r.id \in v8[d].drop
    BY <2>1, <2>2 DEF LogState, LateListed
  <2>4. d # c  BY <1>0, <2>2, <2>3 DEF old
  <2> QED  BY <1>5, <2>3, <2>4
<1> QED  BY <1>7, <1>8, <1>9, <1>10 DEF LogState

\* Nothing else touches the log.
LEMMA LogUntouched ==
    ASSUME LogState, UNCHANGED <<v7, v8, v9, v10>> PROVE LogState'
<1>1. /\ CallRows' = CallRows /\ CallerRows' = CallerRows
      /\ \A t \in Tasks : T!Of(t)' = T!Of(t)
  BY DEF CallRows, CallerRows, T!Of
<1>2. LogTypeInv'  BY <1>1 DEF LogState, LogTypeInv
<1>3. EndLeft'  BY <1>1 DEF LogState, EndLeft
<1>4. DropsSound'  BY <1>1 DEF LogState, DropsSound
<1>5. LateListed'  BY <1>1 DEF LogState, LateListed, Late
<1> QED  BY <1>2, <1>3, <1>4, <1>5 DEF LogState

\* The purge of a deleted task empties its log, while threads may still hold a
\* list of its rows (purge_task_remains).
LEMMA LogPurged ==
    ASSUME LogState, NEW t \in Tasks, UNCHANGED <<v8, v9>>,
           v7' = v7 \ T!Of(t), v10' = [v10 EXCEPT ![t] = {}]
    PROVE  LogState'
<1>1. /\ v9 \in Nat /\ v8 \in [Callers -> CallerRows] /\ v10 \in [Tasks -> SUBSET CallRows]
  BY DEF LogState, LogTypeInv
<1>2. v10'[t] = {} /\ \A u \in Tasks : u # t => v10'[u] = v10[u]
  BY <1>1
<1>3. T!Of(t)' = {} /\ \A u \in Tasks : u # t => T!Of(u)' = T!Of(u)
  BY DEF T!Of
<1>4. T!Kept(v10'[t]) = {}  BY <1>2 DEF T!Kept
<1>5. LogTypeInv'
  <2>1. CallRows' = CallRows /\ CallerRows' = CallerRows  BY DEF CallRows, CallerRows
  <2>2. v10' \in [Tasks -> SUBSET CallRows]  BY <1>1
  <2>3. ASSUME NEW u \in Tasks
        PROVE  /\ IsFiniteSet(v10'[u])
               /\ \A r \in v10'[u] : r.task = u
               /\ \A r, q \in v10'[u] : r.id = q.id => r = q
    <3>1. CASE u = t  BY <1>2, <3>1, FS_EmptySet
    <3>2. CASE u # t  BY <1>2, <3>2 DEF LogState, LogTypeInv
    <3> QED  BY <3>1, <3>2
  <2> QED  BY <2>1, <2>2, <2>3 DEF LogState, LogTypeInv
<1>6. EndLeft'
  <2> SUFFICES ASSUME NEW u \in Tasks
               PROVE  /\ T!Of(u)' \subseteq v10'[u] /\ T!Kept(v10'[u]) \subseteq T!Of(u)'
                      /\ \A r \in T!Of(u)', q \in v10'[u] : r.id <= q.id => q \in T!Of(u)'
    BY DEF EndLeft
  <2>1. CASE u = t  BY <1>2, <1>3, <1>4, <2>1
  <2>2. CASE u # t  BY <1>2, <1>3, <2>2 DEF LogState, EndLeft
  <2> QED  BY <2>1, <2>2
<1>7. DropsSound'
  <2> SUFFICES ASSUME NEW d \in Callers, NEW u \in Tasks,
                      v8[d].pc = "listed", v8[d].task = u
               PROVE  ListSound(v10'[u], T!Of(u)', v8[d].drop)
    BY DEF DropsSound, ListSound
  <2>1. CASE u = t  BY <1>2, <1>3, <2>1 DEF ListSound
  <2>2. CASE u # t
    <3>1. ListSound(v10[u], T!Of(u), v8[d].drop)  BY DEF LogState, DropsSound
    <3>2. v10'[u] = v10[u] /\ T!Of(u)' = T!Of(u)  BY <1>2, <1>3, <2>2
    <3> QED  BY <3>1, <3>2
  <2> QED  BY <2>1, <2>2
<1>8. LateListed'
  <2> SUFFICES ASSUME NEW u \in Tasks,
                      ~ \E d \in Callers : v8[d].pc = "stored" /\ v8[d].task = u,
                      NEW r \in Late(u)'
               PROVE  \E d \in Callers :
                         v8[d].pc = "listed" /\ v8[d].task = u /\ r.id \in v8[d].drop
    BY DEF LateListed
  <2>1. u # t  BY <1>3 DEF Late
  <2>2. r \in Late(u)  BY <1>2, <1>3, <2>1 DEF Late
  <2> QED  BY <2>2 DEF LogState, LateListed
<1> QED  BY <1>5, <1>6, <1>7, <1>8 DEF LogState

\* Every step of the records keeps the state of the log.
LEMMA LogStays ==
    ASSUME LogState, T!RecordsNext PROVE LogState'
<1>1. ASSUME NEW t \in Tasks,
             \/ T!StartRun(t) \/ T!EndRun(t) \/ T!WriteEpisode(t) \/ T!CreateSessionSummary(t)
             \/ T!CloseTurn1(t) \/ T!RecordFeedback(t)
             \/ \E s \in Written : T!Leave(t, s)
             \/ T!RequestDelete(t) \/ T!DeleteRow(t) \/ T!MarkTomb(t)
             \/ \E only \in BOOLEAN : T!Recall(t, only)
      PROVE  UNCHANGED <<v7, v8, v9, v10>>
  BY <1>1 DEF T!StartRun, T!EndRun, T!WriteEpisode, T!CreateSessionSummary, T!CloseTurn1,
              T!RecordFeedback, T!Leave, T!RequestDelete, T!DeleteRow, T!MarkTomb, T!Recall
<1>2. ASSUME NEW t \in Tasks, T!PurgeStore(t) PROVE LogState'
  <2>1. CASE v11[t] = "log"
    <3>1. /\ UNCHANGED <<v8, v9>> /\ v7' = v7 \ T!Of(t) /\ v10' = [v10 EXCEPT ![t] = {}]
      BY <1>2, <2>1 DEF T!PurgeStore
    <3> QED  BY <3>1, LogPurged
  <2>2. CASE v11[t] # "log"
    <3>1. UNCHANGED <<v7, v8, v9, v10>>  BY <1>2, <2>2 DEF T!PurgeStore
    <3> QED  BY <3>1, LogUntouched
  <2> QED  BY <2>1, <2>2
<1>3. ASSUME NEW u \in Users, T!OthersRemember(u) PROVE UNCHANGED <<v7, v8, v9, v10>>
  BY <1>3 DEF T!OthersRemember
<1> QED
  BY <1>1, <1>2, <1>3, LogUntouched, CallRecorded, RowsListed, RowsDropped DEF T!RecordsNext

\* A search keeps to its user, and to its session when restricted to it
\* (search_for_context).
LEMMA RecallStays ==
    ASSUME T!RecallInScope, T!RecordsNext PROVE T!RecallInScope'
<1>1. ASSUME NEW t \in Tasks, NEW only \in BOOLEAN, T!Recall(t, only)
      PROVE  T!RecallInScope'
  <2>1. PICK matching \in SUBSET T!Candidates(v1[t]) :
           v12' = [user |-> v1[t], task |-> t, only |-> only,
                   hits |-> IF only THEN {r \in matching : r.task = t} ELSE matching,
                   n |-> v12.n + 1]
    BY <1>1 DEF T!Recall
  <2>2. \A r \in matching : r.user = v1[t]  BY DEF T!Candidates
  <2>3. /\ v12'.user = v1[t] /\ v12'.task = t /\ v12'.only = only
        /\ v12'.hits = IF only THEN {r \in matching : r.task = t} ELSE matching
    BY <2>1
  <2>4. T!RecallInScope' <=> \A r \in v12'.hits :
                                r.user = v12'.user /\ (v12'.only => r.task = v12'.task)
    BY DEF T!RecallInScope
  <2> QED  BY <2>2, <2>3, <2>4
<1>2. ASSUME NEW t \in Tasks,
             \/ T!StartRun(t) \/ T!EndRun(t) \/ T!WriteEpisode(t) \/ T!CreateSessionSummary(t)
             \/ T!CloseTurn1(t) \/ T!RecordFeedback(t)
             \/ \E s \in Written : T!Leave(t, s)
             \/ T!RequestDelete(t) \/ T!DeleteRow(t) \/ T!MarkTomb(t) \/ T!PurgeStore(t)
      PROVE  v12' = v12
  BY <1>2 DEF T!StartRun, T!EndRun, T!WriteEpisode, T!CreateSessionSummary, T!CloseTurn1,
              T!RecordFeedback, T!Leave, T!RequestDelete, T!DeleteRow, T!MarkTomb, T!PurgeStore
<1>3. ASSUME NEW u \in Users, T!OthersRemember(u) PROVE v12' = v12
  BY <1>3 DEF T!OthersRemember
<1>4. ASSUME NEW c \in Callers,
             \/ \E t \in Tasks, size \in CallSizes : T!RecordCall(c, t, size)
             \/ T!ListRows(c) \/ T!DropRows(c)
      PROVE  v12' = v12
  BY <1>4 DEF T!RecordCall, T!ListRows, T!DropRows
<1>5. v12' = v12 => T!RecallInScope'  BY DEF T!RecallInScope
<1> QED  BY <1>1, <1>2, <1>3, <1>4, <1>5 DEF T!RecordsNext

\* At first the log is empty and nobody has searched.
LEMMA RecordsStart == ASSUME T!RecordsInit PROVE LogState /\ T!RecallInScope
<1>1. /\ v7 = {} /\ v9 = 0 /\ v8 = [c \in Callers |-> T!NoCall]
      /\ v10 = [t \in Tasks |-> {}] /\ v12 = T!NoRecall
  BY DEF T!RecordsInit
<1>2. T!NoCall \in CallerRows /\ T!NoCall.pc = "idle"  BY DEF T!NoCall, CallerRows
<1>3. LogTypeInv  BY <1>1, <1>2, FS_EmptySet DEF LogTypeInv
<1>4. \A t \in Tasks : T!Of(t) = {} /\ T!Kept(v10[t]) = {} /\ v10[t] = {}
  BY <1>1 DEF T!Of, T!Kept
<1>5. EndLeft  BY <1>4 DEF EndLeft
<1>6. DropsSound  BY <1>1, <1>2 DEF DropsSound
<1>7. LateListed  BY <1>4 DEF LateListed, Late
<1>8. T!RecallInScope  BY <1>1 DEF T!RecallInScope, T!NoRecall
<1> QED  BY <1>3, <1>5, <1>6, <1>7, <1>8 DEF LogState

\* No step of any service breaks the invariant.
LEMMA RecordsSteps == RecordsInv /\ [Next]_vars => RecordsInv'
<1> SUFFICES ASSUME RecordsInv, [Next]_vars, part' = "records" PROVE LogState' /\ T!RecallInScope'
  BY DEF RecordsInv
<1>1. CASE T!RecordsNext /\ part = "records"
  BY <1>1, LogStays, RecallStays DEF RecordsInv
<1>2. CASE UNCHANGED vars
  <2>1. part = "records" /\ UNCHANGED <<v7, v8, v9, v10>> /\ v12' = v12  BY <1>2 DEF vars
  <2>2. T!RecallInScope'  BY <2>1 DEF RecordsInv, T!RecallInScope
  <2> QED  BY <2>1, <2>2, LogUntouched DEF RecordsInv
<1> QED  BY <1>1, <1>2 DEF Next

\* With no thread left that has a list or has yet to make one, nothing is late.
LEMMA RecordsFollows == RecordsInv => RecordsSound
<1> SUFFICES ASSUME part = "records", LogState, T!RecallInScope, NEW t \in Tasks,
                    \A c \in Callers : v8[c].pc # "idle" => v8[c].task # t
             PROVE  T!Of(t) = T!Kept(v10[t])
  BY DEF RecordsInv, RecordsSound, T!LogKeepsNewest
<1>1. Late(t) = {}  BY DEF LogState, LateListed
<1>2. T!Kept(v10[t]) \subseteq T!Of(t)  BY DEF LogState, EndLeft
<1> QED  BY <1>1, <1>2 DEF Late

\* However the threads that list and delete interleave with each other, with new
\* calls and with a purge, the log ends as the longest end of the calls within
\* the limits, and a search stays in its scope (_enforce_retention, search).
THEOREM RecordsCorrect == Spec => []RecordsSound
<1>1. Init => RecordsInv  BY RecordsStart DEF Init, RecordsInv
<1> QED  BY <1>1, RecordsSteps, RecordsFollows, PTL DEF Spec
=============================================================================
