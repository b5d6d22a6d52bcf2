----------------------------- MODULE StateStore -----------------------------
(***************************************************************************)
(* The row of one task in the table task_states, the threads that save     *)
(* snapshots of the task into it (app/services/state_store.py) and the     *)
(* delete handler that removes it and leaves an in-process tombstone       *)
(* (app/services/task_tombstone.py, app/api/task_api.py).                  *)
(*                                                                         *)
(* StateStore._save is not one transaction.  It looks at the tombstone,    *)
(* loads the row to protect a terminal status, loads it a second time to   *)
(* carry volatile keys over, and only then writes.  Each of these is an    *)
(* action here, so other threads, other processes and the delete handler   *)
(* run in between; both loads go to the read replica when one is           *)
(* configured, and the replica may lag.                                    *)
(*                                                                         *)
(* A snapshot is abstracted to its status and to one volatile key of       *)
(* input_payload (a planning gate such as require_planning_after_steer).   *)
(***************************************************************************)
EXTENDS Naturals, FiniteSets

CONSTANTS
    Writers,        \* threads that call StateStore.save for the task
    Procs,          \* operating system processes (API server, Celery worker)
    ProcOf,         \* the process of each writer
    UsesReplica,    \* DATABASE_READ_URL is set: read_only loads use the replica
    MaxRetries,     \* settings.DB_SAVE_MAX_RETRIES
    SaveStatuses,   \* the statuses that the snapshots of this instance carry
    MaxSaves        \* bound: calls of save per writer

-----------------------------------------------------------------------------
(* Types                                                                   *)

\* app/runtime/state.py: TaskStatus
TaskStatus ==
    {"NEW", "PLANNED", "RETRIEVED", "TOOL_EXECUTED", "TOOL_FAILED", "REASONED",
     "REASON_FAILED", "POLICY_CHECKED", "COMPLETED", "FAILED", "REJECTED",
     "DEAD_LETTER", "WAITING_REVIEW", "REVIEW_RESOLVED", "PAUSED", "RUNNING", "CANCELLED",
     "TIMED_OUT", "ABANDONED"}

\* _TERMINAL_PROTECT_STATUSES
TerminalProtect ==
    {"TIMED_OUT", "CANCELLED", "COMPLETED", "DEAD_LETTER", "FAILED",
     "REJECTED", "ABANDONED"}

\* A volatile payload key: not in the payload, or present with a false or a
\* true value.
Gate == {"absent", "off", "on"}

Snapshots == [status : SaveStatuses, gate : Gate]

\* The row does not exist.
NoRow == [status |-> "NONE", gate |-> "absent"]

Rows == [status : TaskStatus \cup {"NONE"}, gate : Gate]

\* What an attempt may fail with: SQLite's "database is locked", its
\* "disk I/O error", and anything else (InvariantViolation included).
Errors == {"locked", "disk I/O", "other"}

ASSUME StoreAssumption ==
    /\ ProcOf \in [Writers -> Procs]
    /\ UsesReplica \in BOOLEAN
    /\ MaxRetries \in Nat \ {0}
    /\ SaveStatuses \subseteq TaskStatus
    /\ MaxSaves \in Nat

-----------------------------------------------------------------------------
VARIABLES
    db,         \* the primary: the row and the number of changes made to it
    replica,    \* an earlier value of db
    tomb,       \* per process: the task is in _tombstones
    pc,         \* per writer: the next step of its _save, or "idle"
    snap,       \* per writer: the snapshot being saved
    merged,     \* per writer: the snapshot after _preserve_volatile_fields
    seen,       \* per writer: the change count of the row its guard loaded
    base,       \* per writer: the change count of the row it merged from
    tries,      \* per writer: failed attempts of this save
    err,        \* per writer: what the last failed attempt of it failed with
    calls,      \* per writer: saves begun
    del         \* per process: the next step of its delete_task handler

storeVars == <<db, replica, tomb>>
saveVars == <<pc, snap, merged, seen, base, tries, err, calls>>
vars == <<db, replica, tomb, pc, snap, merged, seen, base, tries, err, calls, del>>

Terminal(row) == row.status \in TerminalProtect

\* What load(task_id, read_only=True) reads.
ReadSource == IF UsesReplica THEN replica ELSE db

Init ==
    /\ db = [row |-> NoRow, ver |-> 0]
    /\ replica = db
    /\ tomb = [p \in Procs |-> FALSE]
    /\ pc = [w \in Writers |-> "idle"]
    /\ snap = [w \in Writers |-> NoRow]
    /\ merged = [w \in Writers |-> NoRow]
    /\ seen = [w \in Writers |-> 0]
    /\ base = [w \in Writers |-> 0]
    /\ tries = [w \in Writers |-> 0]
    /\ err = [w \in Writers |-> "none"]
    /\ calls = [w \in Writers |-> 0]
    /\ del = [p \in Procs |-> "idle"]

-----------------------------------------------------------------------------
(* StateStore.save                                                         *)

\* A node, the pump or a finalizer calls save with the snapshot it holds.
SaveBegin(w, s) ==
    /\ pc[w] = "idle"
    /\ calls[w] < MaxSaves
    /\ pc' = [pc EXCEPT ![w] = "tomb"]
    /\ snap' = [snap EXCEPT ![w] = s]
    /\ tries' = [tries EXCEPT ![w] = 0]
    /\ err' = [err EXCEPT ![w] = "none"]
    /\ calls' = [calls EXCEPT ![w] = @ + 1]
    /\ UNCHANGED <<db, replica, tomb, merged, seen, base, del>>

\* Mutant of CheckTombstone: the tombstone is not looked at.
CheckTombstoneSkipped(w) ==
    /\ pc[w] = "tomb"
    /\ pc' = [pc EXCEPT ![w] = "guard"]
    /\ UNCHANGED <<db, replica, tomb, snap, merged, seen, base, tries, err, calls, del>>

\* A tombstoned task: save returns the snapshot and writes nothing.
CheckTombstone(w) ==
    /\ pc[w] = "tomb"
    /\ pc' = [pc EXCEPT ![w] = IF tomb[ProcOf[w]] THEN "idle" ELSE "guard"]
    /\ UNCHANGED <<db, replica, tomb, snap, merged, seen, base, tries, err, calls, del>>

\* Mutant of CheckTerminal: only an equal status is protected.
CheckTerminalEqual(w) ==
    /\ pc[w] = "guard"
    /\ pc' = [pc EXCEPT ![w] =
                IF Terminal(ReadSource.row) /\ snap[w].status = ReadSource.row.status
                THEN "idle" ELSE "preserve"]
    /\ seen' = [seen EXCEPT ![w] = ReadSource.ver]
    /\ UNCHANGED <<db, replica, tomb, snap, merged, base, tries, err, calls, del>>

\* A terminal row is not overwritten by a snapshot that is not terminal:
\* save returns the stored row instead.
CheckTerminal(w) ==
    /\ pc[w] = "guard"
    /\ pc' = [pc EXCEPT ![w] =
                IF Terminal(ReadSource.row) /\ ~ Terminal(snap[w])
                THEN "idle" ELSE "preserve"]
    /\ seen' = [seen EXCEPT ![w] = ReadSource.ver]
    /\ UNCHANGED <<db, replica, tomb, snap, merged, base, tries, err, calls, del>>

\* Mutant of Preserve: {**incoming, **existing}, the stored key wins.
PreserveStored(s, row) ==
    [s EXCEPT !.gate = IF row.gate = "absent" THEN s.gate ELSE row.gate]

\* A volatile key that the snapshot lacks is taken from the stored row; one
\* that the snapshot holds, whatever its value, is kept.
Preserve(s, row) ==
    [s EXCEPT !.gate = IF s.gate = "absent" THEN row.gate ELSE s.gate]

PreserveVolatile(w) ==
    /\ pc[w] = "preserve"
    /\ pc' = [pc EXCEPT ![w] = "write"]
    /\ merged' = [merged EXCEPT ![w] = Preserve(snap[w], ReadSource.row)]
    /\ base' = [base EXCEPT ![w] = ReadSource.ver]
    /\ UNCHANGED <<db, replica, tomb, snap, seen, tries, err, calls, del>>

\* INSERT OR REPLACE / ON CONFLICT DO UPDATE: unconditional.
Write(w) ==
    /\ pc[w] = "write"
    /\ pc' = [pc EXCEPT ![w] = "idle"]
    /\ db' = [row |-> merged[w], ver |-> db.ver + 1]
    /\ UNCHANGED <<replica, tomb, snap, merged, seen, base, tries, err, calls, del>>

\* run_with_retry lower-cases the message of the exception and looks for the
\* tokens "locked" and "disk I/O" in it, so the second token never matches.
Retryable(e) == e = "locked"

\* Mutant of SaveFails: the attempt is not counted.
SaveFailsUncounted(w, e) ==
    /\ pc[w] \in {"guard", "preserve", "write"}
    /\ err' = [err EXCEPT ![w] = e]
    /\ pc' = [pc EXCEPT ![w] =
                IF Retryable(e) /\ tries[w] # MaxRetries - 1 THEN "tomb" ELSE "idle"]
    /\ UNCHANGED <<db, replica, tomb, snap, merged, seen, base, tries, calls, del>>

\* An attempt fails before it has written.  The whole _save runs again with
\* the original snapshot, or the exception reaches the caller.
SaveFails(w, e) ==
    /\ pc[w] \in {"guard", "preserve", "write"}
    /\ tries' = [tries EXCEPT ![w] = @ + 1]
    /\ err' = [err EXCEPT ![w] = e]
    /\ pc' = [pc EXCEPT ![w] =
                IF Retryable(e) /\ tries[w] # MaxRetries - 1 THEN "tomb" ELSE "idle"]
    /\ UNCHANGED <<db, replica, tomb, snap, merged, seen, base, calls, del>>

-----------------------------------------------------------------------------
(* The delete handler and the replica                                      *)

\* delete_task loads the row; its request_cancel and its wait for the run to
\* become inactive (at most two seconds) have no effect on the row.
DeleteBegin(p) ==
    /\ del[p] = "idle"
    /\ del' = [del EXCEPT ![p] = IF ReadSource.row = NoRow THEN "mark" ELSE "row"]
    /\ UNCHANGED <<storeVars, saveVars>>

DeleteRow(p) ==
    /\ del[p] = "row"
    /\ del' = [del EXCEPT ![p] = "mark"]
    /\ db' = [row |-> NoRow, ver |-> db.ver + 1]
    /\ UNCHANGED <<replica, tomb, saveVars>>

\* The tombstone comes after the row is gone, and only in this process.
MarkTombstone(p) ==
    /\ del[p] = "mark"
    /\ del' = [del EXCEPT ![p] = "done"]
    /\ tomb' = [tomb EXCEPT ![p] = TRUE]
    /\ UNCHANGED <<db, replica, saveVars>>

\* The read replica catches up with the primary.
Replicate ==
    /\ UsesReplica
    /\ replica # db
    /\ replica' = db
    /\ UNCHANGED <<db, tomb, saveVars, del>>

SaveStep(w) ==
    \/ CheckTombstone(w)
    \/ CheckTerminal(w)
    \/ PreserveVolatile(w)
    \/ Write(w)
    \/ \E e \in Errors : SaveFails(w, e)

DeleteStep(p) == DeleteBegin(p) \/ DeleteRow(p) \/ MarkTombstone(p)

Next ==
    \/ \E w \in Writers : SaveStep(w) \/ \E s \in Snapshots : SaveBegin(w, s)
    \/ \E p \in Procs : DeleteStep(p)
    \/ Replicate

\* A save that has begun is carried on by its thread.
Fairness == \A w \in Writers : WF_vars(SaveStep(w))

Spec == Init /\ [][Next]_vars

FairSpec == Spec /\ Fairness

-----------------------------------------------------------------------------
(* Properties                                                              *)

TypeOK ==
    /\ db \in [row : Rows, ver : Nat]
    /\ replica \in [row : Rows, ver : Nat]
    /\ tomb \in [Procs -> BOOLEAN]
    /\ pc \in [Writers -> {"idle", "tomb", "guard", "preserve", "write"}]
    /\ snap \in [Writers -> Rows]
    /\ merged \in [Writers -> Rows]
    /\ seen \in [Writers -> Nat]
    /\ base \in [Writers -> Nat]
    /\ tries \in [Writers -> 0 .. MaxRetries]
    /\ err \in [Writers -> Errors \cup {"none"}]
    /\ calls \in [Writers -> 0 .. MaxSaves]
    /\ del \in [Procs -> {"idle", "row", "mark", "done"}]

\* A write can turn a terminal row into one that is not terminal only when
\* the row changed between the guard of this save and its write: with
\* nothing in between, _TERMINAL_PROTECT_STATUSES does protect the row,
\* retries of the same save included.
TerminalGuard ==
    [][\A w \in Writers :
          Write(w) /\ seen[w] = db.ver /\ Terminal(db.row) => Terminal(db'.row)]_vars

\* A planning gate that a steer stamped on the row survives the save of a
\* snapshot that lacks the key, unless the row changed between the second
\* load of _save and its write; a key the snapshot holds always wins.
GateCarriedOver ==
    [][\A w \in Writers :
          Write(w) /\ base[w] = db.ver =>
             db'.row.gate = IF snap[w].gate = "absent" THEN db.row.gate
                            ELSE snap[w].gate]_vars

\* Every process has the tombstone, no handler is about to delete and no
\* save is past its look at the tombstone.
Drained ==
    /\ \A p \in Procs : tomb[p] /\ del[p] = "done"
    /\ \A w \in Writers : pc[w] \in {"idle", "tomb"}

\* Once the task is drained, late saves are dropped for good: the row is
\* never written again, whatever the writers still try.
LateWritesDropped ==
    [][Drained => Drained' /\ db' = db]_vars

\* A save ends, however often its attempts fail: run_with_retry is bounded.
SaveEnds ==
    \A w \in Writers : pc[w] # "idle" ~> pc[w] = "idle"

\* "Terminal statuses must not be overwritten by in-flight graph node
\* snapshots." (state_store.py): no write turns a terminal row into one that
\* is not terminal.  Does not hold: the guard and the write are two transactions.
TerminalNotOverwritten ==
    [][\A w \in Writers :
          Write(w) /\ Terminal(db.row) => Terminal(db'.row)]_vars
=============================================================================
