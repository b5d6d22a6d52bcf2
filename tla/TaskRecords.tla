----------------------------- MODULE TaskRecords -----------------------------
(***************************************************************************)
(* What a task leaves behind: its remembered episodes                      *)
(* (app/services/memory_store.py), the log of its model calls with its     *)
(* retention (app/services/llm_interaction_store.py), its audit events,    *)
(* messages, files, documents and checkpoints, and the handler that        *)
(* deletes the task and purges all of them (app/api/task_api.py,           *)
(* app/services/task_cleanup.py) while a run of the task, its model calls  *)
(* and the background closer of its turn go on writing.                    *)
(***************************************************************************)
EXTENDS Naturals, FiniteSets, Sequences, SequencesExt

CONSTANTS
    Tasks,       \* task ids (a session's id is its task's)
    Users,       \* user ids
    Elsewhere,   \* a task of another session, known only by its memories
    Callers,     \* threads that make model calls
    CallSizes,   \* stored sizes of a call
    MaxRows,     \* LLM_INTERACTION_LOG_MAX_PER_TASK
    MaxBytes,    \* LLM_INTERACTION_LOG_MAX_BYTES_PER_TASK
    ScanLimit,   \* the newest memories a search looks at (400)
    HitLimit,    \* the hits a search returns
    Written,     \* the stores that a run writes in the instance
    MaxMemories, \* bound on the rows added by feedback and by others
    MaxSearched, \* bound on searches
    MaxCallsMade,\* bound on model calls
    MaxRuns      \* bound on runs of a task

RecordsAssumption ==
    /\ \A n \in {MaxRows, MaxBytes, ScanLimit, HitLimit, MaxMemories, MaxSearched, MaxCallsMade, MaxRuns} : n \in Nat
    /\ MaxRows > 0 /\ MaxBytes > 0 /\ CallSizes \subseteq Nat
    /\ Written \subseteq {"files", "audit", "chat", "knowledge", "threads"}

VARIABLES
    userOf,     \* the user of each task
    saved,      \* tasks with a row in the state store
    tombs,      \* tasks in _tombstones
    run,        \* where the task's run stands, and how many it had
    remains,    \* what a task has in the stores that are only filled and purged
    memories,   \* the rows of the memories table, oldest first
    log,        \* the rows of the llm_interactions table, numbered as they came
    caller,     \* what each calling thread is about to do
    made,       \* calls recorded so far
    whole,      \* every call of a task since its log was last purged
    purge,      \* how far the deletion of each task is
    recalled    \* the last search and its hits

recordVars == <<userOf, saved, tombs, run, remains, memories, log, caller, made,
                whole, purge, recalled>>

\* The order in which a deletion clears the stores.
PurgeOrder == <<"files", "audit", "log", "memory", "chat", "knowledge", "threads">>

NoCall == [pc |-> "idle", task |-> CHOOSE t \in Tasks : TRUE, drop |-> {}]
NoRecall == [user |-> CHOOSE u \in Users : TRUE, task |-> NoCall.task, only |-> FALSE, hits |-> {}, n |-> 0]

RecordsInit ==
    /\ userOf = [t \in Tasks |-> NoRecall.user]
    /\ saved = {} /\ tombs = {}
    /\ run = [t \in Tasks |-> [at |-> "idle", n |-> 0]]
    /\ remains = [t \in Tasks |-> {}]
    /\ memories = <<>> /\ log = {}
    /\ caller = [c \in Callers |-> NoCall]
    /\ made = 0
    /\ whole = [t \in Tasks |-> {}]
    /\ purge = [t \in Tasks |-> "none"]
    /\ recalled = NoRecall

-----------------------------------------------------------------------------
(* The run of a task.                                                      *)

\* Saving the state of a deleted task does nothing.
Saved(t) == IF t \in tombs THEN saved ELSE saved \union {t}

\* A client does not go on with a task whose deletion it has asked for.
StartRun(t) ==
    /\ run[t].at = "idle" /\ run[t].n < MaxRuns /\ purge[t] = "none"
    /\ run' = [run EXCEPT ![t] = [at |-> "active", n |-> @.n + 1]]
    /\ saved' = Saved(t)
    /\ UNCHANGED <<userOf, tombs, remains, memories, log, caller, made, whole, purge, recalled>>

\* The run writes files, events, messages, documents and checkpoints; none of
\* these stores looks at the tombstone.
Leave(t, s) ==
    /\ run[t].at = "active" /\ s \notin remains[t]
    /\ remains' = [remains EXCEPT ![t] = @ \union {s}]
    /\ UNCHANGED <<userOf, saved, tombs, run, memories, log, caller, made, whole, purge, recalled>>

\* The run leaves the registry of active runs and hands its turn to the closer.
EndRun(t) ==
    /\ run[t].at = "active"
    /\ run' = [run EXCEPT ![t].at = "closing"]
    /\ saved' = Saved(t)
    /\ UNCHANGED <<userOf, tombs, remains, memories, log, caller, made, whole, purge, recalled>>

Row(t) == [task |-> t, user |-> userOf[t]]

\* write_turn_memories keeps nothing of a turn that has no answer to keep,
\* and an episode and a summary of the session of any other.
WriteEpisode(t) ==
    /\ run[t].at = "closing"
    /\ \/ memories' = Append(memories, Row(t)) /\ run' = [run EXCEPT ![t].at = "summing"]
       \/ run' = [run EXCEPT ![t].at = "saving"] /\ UNCHANGED memories
    /\ UNCHANGED <<userOf, saved, tombs, remains, log, caller, made, whole, purge, recalled>>

CreateSessionSummary(t) ==
    /\ run[t].at = "summing"
    /\ memories' = Append(memories, Row(t))
    /\ run' = [run EXCEPT ![t].at = "saving"]
    /\ UNCHANGED <<userOf, saved, tombs, remains, log, caller, made, whole, purge, recalled>>

CloseTurn1(t) ==
    /\ run[t].at = "saving"
    /\ run' = [run EXCEPT ![t].at = "idle"]
    /\ saved' = Saved(t)
    /\ UNCHANGED <<userOf, tombs, remains, memories, log, caller, made, whole, purge, recalled>>

\* Feedback on a stored task is a memory as well.
RecordFeedback(t) ==
    /\ t \in saved /\ Len(memories) < MaxMemories
    /\ memories' = Append(memories, Row(t))
    /\ UNCHANGED <<userOf, saved, tombs, run, remains, log, caller, made, whole, purge, recalled>>

\* The memories table is shared by all sessions of all users.
OthersRemember(u) ==
    /\ Len(memories) < MaxMemories
    /\ memories' = Append(memories, [task |-> Elsewhere, user |-> u])
    /\ UNCHANGED <<userOf, saved, tombs, run, remains, log, caller, made, whole, purge, recalled>>

-----------------------------------------------------------------------------
(* The log of model calls: a row is inserted in one transaction, the rows  *)
(* are listed in another and the oldest deleted in a third.                *)

Of(t) == {r \in log : r.task = t}
Bytes(rows) == MapThenSumSet(LAMBDA r : r.size, rows)
WithinLimits(rows) == Cardinality(rows) <= MaxRows /\ Bytes(rows) <= MaxBytes
IdsOf(rows) == {r.id : r \in rows}

\* The longest end of the rows that is within the limits: what stays is within
\* them together with all that came later.
Kept(rows) == {r \in rows : WithinLimits({q \in rows : q.id >= r.id})}

RecordCall(c, t, size) ==
    /\ caller[c].pc = "idle" /\ run[t].at = "active" /\ made < MaxCallsMade
    /\ made' = made + 1
    /\ LET row == [task |-> t, id |-> made + 1, size |-> size] IN
       /\ log' = log \union {row}
       /\ whole' = [whole EXCEPT ![t] = @ \union {row}]
    /\ caller' = [caller EXCEPT ![c] = [pc |-> "stored", task |-> t, drop |-> {}]]
    /\ UNCHANGED <<userOf, saved, tombs, run, remains, memories, purge, recalled>>

\* _enforce_retention decides which rows go from its own list of them.
ListRows(c) ==
    LET rows == Of(caller[c].task) IN
    /\ caller[c].pc = "stored"
    /\ caller' = [caller EXCEPT ![c].pc = "listed", ![c].drop = IdsOf(rows) \ IdsOf(Kept(rows))]
    /\ UNCHANGED <<userOf, saved, tombs, run, remains, memories, log, made, whole, purge, recalled>>

\* Mutant of DropRows: as many of the oldest rows as were too many when the
\* rows were listed.
DropOldest(c) ==
    LET t == caller[c].task
        n == Cardinality(caller[c].drop)
        gone == {r \in Of(t) : Cardinality({q \in Of(t) : q.id < r.id}) < n}
    IN
    /\ caller[c].pc = "listed"
    /\ log' = log \ gone
    /\ caller' = [caller EXCEPT ![c] = NoCall]
    /\ UNCHANGED <<userOf, saved, tombs, run, remains, memories, made, whole, purge, recalled>>

\* _delete_ids_for_task deletes by id.
DropRows(c) ==
    /\ caller[c].pc = "listed"
    /\ log' = log \ {r \in Of(caller[c].task) : r.id \in caller[c].drop}
    /\ caller' = [caller EXCEPT ![c] = NoCall]
    /\ UNCHANGED <<userOf, saved, tombs, run, remains, memories, made, whole, purge, recalled>>

-----------------------------------------------------------------------------
(* The deletion of a task.                                                 *)

StageAfter(stage) ==
    LET i == CHOOSE j \in DOMAIN PurgeOrder : PurgeOrder[j] = stage
    IN  IF i = Len(PurgeOrder) THEN "purged" ELSE PurgeOrder[i + 1]

\* The handler finds the task stored, asks its run to stop ...
RequestDelete(t) ==
    /\ purge[t] = "none" /\ t \in saved
    /\ purge' = [purge EXCEPT ![t] = "cancel"]
    /\ UNCHANGED <<userOf, saved, tombs, run, remains, memories, log, caller, made, whole, recalled>>

\* ... waits until it has left the registry or two seconds are over, and
\* deletes the row.
DeleteRow(t) ==
    /\ purge[t] = "cancel"
    /\ saved' = saved \ {t}
    /\ purge' = [purge EXCEPT ![t] = "tomb"]
    /\ UNCHANGED <<userOf, tombs, run, remains, memories, log, caller, made, whole, recalled>>

MarkTomb(t) ==
    /\ purge[t] = "tomb"
    /\ tombs' = tombs \union {t}
    /\ purge' = [purge EXCEPT ![t] = Head(PurgeOrder)]
    /\ UNCHANGED <<userOf, saved, run, remains, memories, log, caller, made, whole, recalled>>

\* One store after the other, each in its own transaction.
PurgeStore(t) ==
    LET stage == purge[t] IN
    /\ stage \in Range(PurgeOrder)
    /\ remains' = [remains EXCEPT ![t] = @ \ {stage}]
    /\ IF stage = "log"
       THEN /\ log' = log \ Of(t)
            /\ whole' = [whole EXCEPT ![t] = {}]
       ELSE UNCHANGED <<log, whole>>
    /\ memories' = IF stage = "memory" THEN SelectSeq(memories, LAMBDA r : r.task # t) ELSE memories
    /\ purge' = [purge EXCEPT ![t] = StageAfter(stage)]
    /\ UNCHANGED <<userOf, saved, tombs, run, caller, made, recalled>>

-----------------------------------------------------------------------------
(* Searching the memories.                                                 *)

Scanned == IF Len(memories) <= ScanLimit THEN memories
           ELSE SubSeq(memories, Len(memories) - ScanLimit + 1, Len(memories))

\* The rows of the user among the newest of all users.
Candidates(u) == {r \in Range(Scanned) : r.user = u}

\* search_for_context: some of the candidates match; restricted to a session
\* it keeps those of the session's task.
Recall(t, only) ==
    \E matching \in SUBSET Candidates(userOf[t]) :
       LET hits == IF only THEN {r \in matching : r.task = t} ELSE matching IN
       /\ recalled.n < MaxSearched
       /\ Cardinality(hits) <= HitLimit
       /\ recalled' = [user |-> userOf[t], task |-> t, only |-> only, hits |-> hits,
                       n |-> recalled.n + 1]
       /\ UNCHANGED <<userOf, saved, tombs, run, remains, memories, log, caller, made, whole, purge>>

-----------------------------------------------------------------------------
RecordsNext ==
    \/ \E t \in Tasks :
          \/ StartRun(t) \/ EndRun(t) \/ WriteEpisode(t) \/ CreateSessionSummary(t)
          \/ CloseTurn1(t) \/ RecordFeedback(t)
          \/ \E s \in Written : Leave(t, s)
          \/ RequestDelete(t) \/ DeleteRow(t) \/ MarkTomb(t) \/ PurgeStore(t)
          \/ \E only \in BOOLEAN : Recall(t, only)
    \/ \E u \in Users : OthersRemember(u)
    \/ \E c \in Callers :
          \/ \E t \in Tasks, size \in CallSizes : RecordCall(c, t, size)
          \/ ListRows(c) \/ DropRows(c)

RecordsSpec == RecordsInit /\ [][RecordsNext]_recordVars

-----------------------------------------------------------------------------
(* Properties.                                                             *)

\* Once no thread is about to trim it, the log of a task is exactly the longest
\* end of all its calls that the limits allow: threads that list and delete at
\* the same time neither leave too much nor delete a row that fits
\* (_enforce_retention).
LogKeepsNewest ==
    \A t \in Tasks :
       (\A c \in Callers : caller[c].pc # "idle" => caller[c].task # t)
          => Of(t) = Kept(whole[t])

\* A search returns memories of its own user only, and of its own session when
\* it is restricted to it (search and search_for_context).
RecallInScope ==
    \A r \in recalled.hits : r.user = recalled.user /\ (recalled.only => r.task = recalled.task)

\* A deleted task stays deleted: the purge has removed everything it left
\* (purge_task_remains).  Does not hold: only StateStore.save looks at the tombstone.
DeletedStaysDeleted ==
    \A t \in Tasks :
       purge[t] = "purged" => /\ remains[t] = {} /\ Of(t) = {}
                              /\ t \notin {r.task : r \in Range(memories)}
=============================================================================
