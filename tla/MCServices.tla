---------------------------- MODULE MCServices -----------------------------
(***************************************************************************)
(* The services around a turn, on small instances: Skills, TaskRecords,    *)
(* RateLimit, SharedQuota, Dispatch, ModelAnswers and History.  They share *)
(* no state, so a behaviour belongs to one of them, the part, and the      *)
(* variables v1 to v12 are that part's; those it does not have stay 0.     *)
(***************************************************************************)
EXTENDS Naturals

CONSTANTS
    \* of Skills
    Skills, BuiltinSkills, Clerks, OwnTools, LentTools, Ghost, AllowLists, BlockLists,
    MaxVersion, MaxRequests, MaxProbes, EvictAfter,
    \* of TaskRecords
    Tasks, Elsewhere, Users, Callers, CallSizes, MaxRows, MaxBytes, ScanLimit, HitLimit,
    MaxCallsMade, Written, MaxMemories, MaxSearched, MaxRuns,
    \* of RateLimit
    Visitors, UserKeys, AddressKeys, UserLimit, AddressLimit, Window, WithRedis,
    MaxHits, MaxNow,
    \* of SharedQuota
    Errands, Processes, MaxDaily, MaxAtOnce, LastDay, MaxFaults,
    \* of Dispatch
    Schedules, BadCron, Hands, MaxTickets, MaxAgain, MaxStops,
    \* of ModelAnswers
    Askers, Engines, Local, Attempts, MaxSwaps, MaxAsks,
    \* of History
    MsgSizes, MaxMessages, MaxChars, MaxTurns

VARIABLES part, v1, v2, v3, v4, v5, v6, v7, v8, v9, v10, v11, v12

\* A built-in skill and one of the user's; a draft allows the tool an MCP
\* server lends, which is evicted on its first failure, or a tool nobody has.
S == INSTANCE Skills WITH
    shelf <- v1, snapshots <- v2, bans <- v3, registered <- v4, server <- v5,
    clerk <- v6, asked <- v7, hired <- v8

\* One task, two users, two threads whose calls fill the log by rows and by bytes.
T == INSTANCE TaskRecords WITH
    userOf <- v1, saved <- v2, tombs <- v3, run <- v4, remains <- v5, memories <- v6,
    log <- v7, caller <- v8, made <- v9, whole <- v10, purge <- v11, recalled <- v12

\* Two threads, a user with a limit and an address without one, five requests
\* over two windows.
L == INSTANCE RateLimit WITH
    now <- v1, windows <- v2, counter <- v3, visit <- v4, hits <- v5, requested <- v6,
    clock <- v7

\* Four tasks of a tenant in two processes, over midnight, with one Redis failure.
Q == INSTANCE SharedQuota WITH
    date <- v1, shared <- v2, own <- v3, errand <- v4, faults <- v5

\* Two schedules, one with a cron expression that does not parse, two workers,
\* a message delivered again and a process that ends.
D == INSTANCE Dispatch WITH
    schedule <- v1, jobMap <- v2, desk <- v3, firing <- v4, tickets <- v5, mirror <- v6,
    mail <- v7, hand <- v8, again <- v9, stops <- v10

\* Two threads that ask while the configuration changes twice.
A == INSTANCE ModelAnswers WITH
    engine <- v1, swap <- v2, swaps <- v3, since <- v4, returned <- v5, memo <- v6,
    request <- v7, asks <- v8

\* Three turns; two of them fill the conversation's history.
C == INSTANCE History WITH
    story <- v1, turnAt <- v2, turns <- v3, latest <- v4

ASSUME ServicesAssumptions ==
    /\ S!SkillsAssumption /\ T!RecordsAssumption /\ L!RateAssumption
    /\ Q!SharedQuotaAssumption /\ D!DispatchAssumption /\ A!AnswerAssumption
    /\ C!HistoryAssumption

vars == <<part, v1, v2, v3, v4, v5, v6, v7, v8, v9, v10, v11, v12>>

Init ==
    \/ part = "skills" /\ S!SkillsInit /\ v9 = 0 /\ v10 = 0 /\ v11 = 0 /\ v12 = 0
    \/ part = "records" /\ T!RecordsInit
    \/ part = "rate" /\ L!RateInit /\ v8 = 0 /\ v9 = 0 /\ v10 = 0 /\ v11 = 0 /\ v12 = 0
    \/ part = "quota" /\ Q!QuotaInit
       /\ v6 = 0 /\ v7 = 0 /\ v8 = 0 /\ v9 = 0 /\ v10 = 0 /\ v11 = 0 /\ v12 = 0
    \/ part = "dispatch" /\ D!DispatchInit /\ v11 = 0 /\ v12 = 0
    \/ part = "answers" /\ A!AnswersInit /\ v9 = 0 /\ v10 = 0 /\ v11 = 0 /\ v12 = 0
    \/ part = "history" /\ C!HistoryInit
       /\ v5 = 0 /\ v6 = 0 /\ v7 = 0 /\ v8 = 0 /\ v9 = 0 /\ v10 = 0 /\ v11 = 0 /\ v12 = 0

Next ==
    /\ UNCHANGED part
    /\ \/ part = "skills" /\ S!SkillsNext /\ UNCHANGED <<v9, v10, v11, v12>>
       \/ part = "records" /\ T!RecordsNext
       \/ part = "rate" /\ L!RateNext /\ UNCHANGED <<v8, v9, v10, v11, v12>>
       \/ part = "quota" /\ Q!QuotaNext /\ UNCHANGED <<v6, v7, v8, v9, v10, v11, v12>>
       \/ part = "dispatch" /\ D!DispatchNext /\ UNCHANGED <<v11, v12>>
       \/ part = "answers" /\ A!AnswersNext /\ UNCHANGED <<v9, v10, v11, v12>>
       \/ part = "history" /\ C!HistoryNext
          /\ UNCHANGED <<v5, v6, v7, v8, v9, v10, v11, v12>>

Spec == Init /\ [][Next]_vars

-----------------------------------------------------------------------------
(* Properties                                                              *)

\* A published skill has a name and existing tools, whatever the order of
\* drafts, publications, rollbacks and deletions (skill_registry.py).
PublishedWasValidated == part = "skills" => S!PublishedWasValidated

\* The log of model calls keeps exactly the newest calls that its limits
\* allow, and a search of memories stays with its user and session
\* (llm_interaction_store.py, memory_store.py).
RecordsSound == part = "records" => T!LogKeepsNewest /\ T!RecallInScope

\* In every window a backend admits no more requests of a key than its limit,
\* the memory as long as no check of it is overtaken (rate_limit.py).
WindowBounded == part = "rate" => L!RateTypeOK /\ L!WindowBounded

\* As long as Redis answers, no count left over holds a tenant back
\* (tenant_quota.py).
NoGhostQuota == part = "quota" => Q!SharedQuotaTypeOK /\ Q!NoGhostQuota

\* A deleted schedule fires no more, and a settled entry stays as it is,
\* however often its message is delivered (scheduler_service.py, celery_tasks.py).
DispatchSound ==
    /\ [](part = "dispatch" => D!DispatchTypeOK)
    /\ [][part = "dispatch" => D!StaysQuiet /\ D!SettledStays]_vars

\* A request that begins after a change of the configuration is not answered
\* by a configuration replaced before (runtime_model_config.py, llm_client.py).
AnswersFollowConfig == part = "answers" => A!AnswersTypeOK /\ A!AnswersFollowConfig

\* The conversation's history (conversation_context.py): well formed, and no
\* message is lost below the limits, whichever of the two copies is believed.
HistorySound ==
    /\ [](part = "history" => C!HistoryTypeOK)
    /\ [][part = "history" => C!KeepsMessages]_vars
=============================================================================
