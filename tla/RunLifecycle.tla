---------------------------- MODULE RunLifecycle ----------------------------
(***************************************************************************)
(* The life of the turns of one task inside one API process: every turn is *)
(* an SSE stream whose pump runs in the request's thread and whose graph   *)
(* runs in a worker thread (app/services/graph_runner.py).  Streams, the   *)
(* pause and cancel endpoints, the wall-clock watchdog and the background  *)
(* turn closer share, without a common lock, the task's stored row, the    *)
(* run registry, the control handle and the live snapshot.                 *)
(*                                                                         *)
(* A snapshot of the task is abstracted to its status, the two request     *)
(* flags and the abort mark of interrupt_context, and the turn that made   *)
(* it.  The statuses NEW, RUNNING, PLANNED, TOOL_EXECUTED, TOOL_FAILED,    *)
(* REASONED, REASON_FAILED and POLICY_CHECKED, which nothing here tells    *)
(* apart, are all "RUNNING".  What a node decides is a free choice.  A     *)
(* save is one step: its own races are the subject of StateStore.          *)
(***************************************************************************)
EXTENDS Naturals, Sequences

CONSTANTS
    NStreams,        \* bound: turns
    MaxRetry,        \* settings.MAX_RETRY_COUNT
    RecursionLimit,  \* node visits LangGraph allows one run
    MaxRequests,     \* bound: calls of the pause and cancel endpoints
    MaxTimeouts,     \* bound: runs the watchdog finds over budget
    Overlap,         \* a message may arrive while the previous turn runs
    Disconnects      \* the client may drop the connection

ASSUME LifecycleAssumption ==
    /\ NStreams \in Nat \ {0}
    /\ MaxRetry \in Nat \ {0}
    /\ RecursionLimit \in Nat
    /\ MaxRequests \in Nat
    /\ MaxTimeouts \in Nat
    /\ Overlap \in BOOLEAN
    /\ Disconnects \in BOOLEAN

Streams == 1 .. NStreams

\* Statuses that StateStore protects, and the others that matter here.
TerminalProtect ==
    {"TIMED_OUT", "CANCELLED", "COMPLETED", "DEAD_LETTER", "FAILED", "REJECTED"}
Status == TerminalProtect \cup {"RUNNING", "PAUSED", "WAITING_REVIEW", "NONE"}

Snapshot ==
    [status : Status, creq : BOOLEAN, preq : BOOLEAN, abort : BOOLEAN,
     turn : 0 .. NStreams]

NoRow == [status |-> "NONE", creq |-> FALSE, preq |-> FALSE, abort |-> FALSE, turn |-> 0]

\* The control handle of the task; run 0: none is registered.
Control ==
    [run : 0 .. NStreams, pause : BOOLEAN, cancel : BOOLEAN,
     why : {"none", "user", "budget"}]

NoControl == [run |-> 0, pause |-> FALSE, cancel |-> FALSE, why |-> "none"]

\* What the worker puts into node_q; the sentinel None is the last item.
Item == [snap : Snapshot, review : BOOLEAN, last : BOOLEAN]

Nodes == {"plan", "tool", "eng", "reason", "policy", "output", "rejected", "dead_letter"}

VARIABLES
    row,        \* the stored snapshot of the task
    active,     \* _active_run_by_task: the registered run, 0 if none
    control,    \* _control_by_task
    live,       \* _live_by_task: the run of the live snapshot, 0 if none
    pump,       \* per stream: where its generator is
    latest,     \* per stream: the pump's snapshot
    draft,      \* per stream: the snapshot that answer drafts are saved with
    stop,       \* per stream: stream_abort_control
    review,     \* per stream: interrupted_for_review
    q,          \* per stream: node_q
    wpc,        \* per stream: the node its worker visits next
    graph,      \* per stream: the LangGraph state
    errors,     \* per stream: the turn's list of errors is not empty
    retry,      \* per stream: retry_count
    visits,     \* per stream: node visits so far
    failed,     \* per stream: stream_error is set
    closer,     \* per stream: the snapshot its turn closer will save
    request,    \* the pause or cancel request being handled
    requests,   \* number of requests so far
    watchdog,   \* the row the watchdog has loaded
    timeouts,   \* number of timeouts so far
    halted,     \* history: the graph stopped in front of human_review
    mixed       \* history: a stream opened while an older one was under way

shared == <<row, active, control, live>>
pumpVars == <<pump, latest, draft, stop, review>>
workerVars == <<q, wpc, graph, errors, retry, visits, failed, halted, mixed>>
otherVars == <<closer, request, requests, watchdog, timeouts>>
vars == <<row, active, control, live, pump, latest, draft, stop, review,
          q, wpc, graph, errors, retry, visits, failed, closer, request, requests,
          watchdog, timeouts, halted, mixed>>

-----------------------------------------------------------------------------
(* Helpers                                                                 *)

Terminal(s) == s.status \in TerminalProtect

\* StateStore.save as one step: a terminal row refuses a snapshot that is not.
Saved(r, s) == IF Terminal(r) /\ ~ Terminal(s) THEN r ELSE s

\* finalize_control_outcome: settle a pending cancel or pause.  The reason
\* that turns CANCELLED into TIMED_OUT is known only to the control handle.
Settled(s, c) ==
    IF c.cancel \/ s.creq
    THEN [s EXCEPT !.creq = FALSE,
                   !.status = IF c.why = "budget" THEN "TIMED_OUT" ELSE "CANCELLED"]
    ELSE IF c.pause \/ s.preq
         THEN [s EXCEPT !.preq = FALSE, !.status = "PAUSED"]
         ELSE s

\* Mutant of EndRun: the live snapshot stays.
EndRunKeepsLive(s) ==
    /\ active' = IF active = s THEN 0 ELSE active
    /\ control' = NoControl
    /\ UNCHANGED live

\* Mutant of EndRun: the registry entry goes, whichever run it belongs to.
EndRunAny(s) ==
    /\ active' = 0
    /\ live' = 0
    /\ control' = NoControl

\* _end_task_graph_run: the registry entry is dropped when it is this run's,
\* the live snapshot and the control handle in any case.
EndRun(s) ==
    /\ active' = IF active = s THEN 0 ELSE active
    /\ live' = 0
    /\ control' = NoControl

Init ==
    /\ row = NoRow
    /\ active = 0
    /\ control = NoControl
    /\ live = 0
    /\ pump = [s \in Streams |-> "idle"]
    /\ latest = [s \in Streams |-> NoRow]
    /\ draft = [s \in Streams |-> NoRow]
    /\ stop = [s \in Streams |-> FALSE]
    /\ review = [s \in Streams |-> FALSE]
    /\ q = [s \in Streams |-> <<>>]
    /\ wpc = [s \in Streams |-> "none"]
    /\ graph = [s \in Streams |-> NoRow]
    /\ errors = [s \in Streams |-> FALSE]
    /\ retry = [s \in Streams |-> 0]
    /\ visits = [s \in Streams |-> 0]
    /\ failed = [s \in Streams |-> FALSE]
    /\ closer = [s \in Streams |-> NoRow]
    /\ request = [pc |-> "idle", kind |-> "none", stored |-> NoRow]
    /\ requests = 0
    /\ watchdog = NoRow
    /\ timeouts = 0
    /\ halted = [s \in Streams |-> FALSE]
    /\ mixed = FALSE

-----------------------------------------------------------------------------
(* A stream starts                                                         *)

\* The pump has left the stream, and so has its worker if there was one.
Over(s) == pump[s] \in {"done", "leaked"} /\ wpc[s] \in {"none", "dead"}

\* stream_task: prepare_session_turn resets the stored task for a new turn
\* (fresh interrupt_context) and saves it.
Open(s) ==
    /\ pump[s] = "idle"
    /\ \A t \in Streams : t < s => pump[t] # "idle" /\ (Overlap \/ Over(t))
    /\ LET fresh == [NoRow EXCEPT !.status = "RUNNING", !.turn = s] IN
       /\ row' = Saved(row, fresh)
       /\ latest' = [latest EXCEPT ![s] = fresh]
       /\ draft' = [draft EXCEPT ![s] = fresh]
       /\ graph' = [graph EXCEPT ![s] = fresh]
    /\ pump' = [pump EXCEPT ![s] = "open"]
    /\ mixed' = (mixed \/ \E t \in Streams : t < s /\ ~ Over(t))
    /\ UNCHANGED <<active, control, live, stop, review, q, wpc, errors, retry,
                   visits, failed, halted, otherVars>>

\* RunController.cancel: a redirect ends the registered run before the new
\* turn opens, and asks its worker to cancel.
Redirect ==
    /\ Overlap
    /\ active # 0
    /\ \E s \in Streams : pump[s] = "idle"
    /\ active' = IF active = row.turn THEN 0 ELSE active
    /\ control' = IF control.run = 0 THEN control
                  ELSE [control EXCEPT !.cancel = TRUE, !.why = "user"]
    /\ UNCHANGED <<row, live, pumpVars, workerVars, otherVars>>

\* _abort_prior_stream_worker: ask a running graph to pause, then wait for
\* its worker for at most two seconds, so in general not until it is dead.
Preempt(s) ==
    /\ pump[s] = "open"
    /\ pump' = [pump EXCEPT ![s] = "preempted"]
    /\ control' = IF active = 0 \/ control.run = 0 THEN control
                  ELSE [control EXCEPT !.pause = TRUE, !.why = "user"]
    /\ UNCHANGED <<row, active, live, latest, draft, stop, review,
                   workerVars, otherVars>>

\* begin_graph_run.
Register(s) ==
    /\ pump[s] = "preempted"
    /\ pump' = [pump EXCEPT ![s] = "registered"]
    /\ active' = s
    /\ UNCHANGED <<row, control, live, latest, draft, stop, review,
                   workerVars, otherVars>>

\* The rest of _begin_task_graph_run, and register_live.
Attach(s) ==
    /\ pump[s] = "registered"
    /\ pump' = [pump EXCEPT ![s] = "started"]
    /\ control' = [NoControl EXCEPT !.run = s]
    /\ row' = Saved(row, latest[s])
    /\ live' = s
    /\ UNCHANGED <<active, latest, draft, stop, review, workerVars, otherVars>>

\* The worker thread is started after the first progress event was yielded.
StartWorker(s) ==
    /\ pump[s] = "started"
    /\ pump' = [pump EXCEPT ![s] = "pump"]
    /\ wpc' = [wpc EXCEPT ![s] = "plan"]
    /\ UNCHANGED <<shared, latest, draft, stop, review, q, graph, errors, retry, visits,
                   failed, halted, mixed, otherVars>>

-----------------------------------------------------------------------------
(* The worker: one step per node of the graph                              *)

\* Mutant of Visit: the visit is not counted against the recursion limit.
VisitUncounted(s, snap, save, next) ==
    /\ graph' = [graph EXCEPT ![s] = snap]
    /\ row' = IF save THEN Saved(row, snap) ELSE row
    /\ wpc' = [wpc EXCEPT ![s] = next]
    /\ q' = [q EXCEPT ![s] = <<[snap |-> snap, review |-> FALSE, last |-> FALSE]>>]
    /\ UNCHANGED <<visits, active, control, live, pumpVars, failed, mixed, otherVars>>

\* The worker leaves a node with snapshot snap, stored if save, and puts it
\* into node_q.
Visit(s, snap, save, next) ==
    /\ graph' = [graph EXCEPT ![s] = snap]
    /\ row' = IF save THEN Saved(row, snap) ELSE row
    /\ wpc' = [wpc EXCEPT ![s] = next]
    /\ q' = [q EXCEPT ![s] = Append(@, [snap |-> snap, review |-> FALSE, last |-> FALSE])]
    /\ visits' = [visits EXCEPT ![s] = @ + 1]
    /\ UNCHANGED <<active, control, live, pumpVars, failed, mixed, otherVars>>

\* The worker is about to visit the node; LangGraph counts the visits.
At(s, node) == wpc[s] = node /\ visits[s] < RecursionLimit

With(s, status) == [graph[s] EXCEPT !.status = status]

\* What a node does to the errors of the turn and to retry_count.  Errors
\* are never taken back within a turn.
Clean == UNCHANGED <<errors, retry>>
Uncounted(s) == errors' = [errors EXCEPT ![s] = TRUE] /\ UNCHANGED retry
Counted(s) ==
    errors' = [errors EXCEPT ![s] = TRUE] /\ retry' = [retry EXCEPT ![s] = @ + 1]

\* _failed_route: retry the node until retry_count reaches its limit.
FailedRoute(count, node) == IF count >= MaxRetry THEN "dead_letter" ELSE node

\* route_after_incremental_planning after a pass that succeeded: an error
\* recorded earlier in the turn sends it back as if it had failed.
PlanRoutes(s) ==
    IF errors[s] THEN {"plan", FailedRoute(retry[s], "plan")}
    ELSE {"plan", "tool", "eng", "reason"}

\* event_classification .. incremental_planning, retrieval.  A failed
\* planning pass is stored as FAILED before the router retries it, one that
\* ran out of budget is not counted; a failed retrieval is not stored.
PlanNode(s) ==
    /\ At(s, "plan")
    /\ \/ /\ \E next \in PlanRoutes(s) : Visit(s, With(s, "RUNNING"), TRUE, next)
          /\ Clean
       \/ /\ \E save \in BOOLEAN :
                Visit(s, With(s, "FAILED"), save, FailedRoute(retry[s] + 1, "plan"))
          /\ Counted(s)
       \/ /\ Visit(s, With(s, "FAILED"), TRUE, FailedRoute(retry[s], "plan"))
          /\ Uncounted(s)
    /\ UNCHANGED halted

\* RunController.assert_run_active: the stored task is cancelled, timed out
\* or aborted.  Execution_run is not changed in the graph's own state, so the
\* other conditions never hold there.
Refused == row.status \in {"TIMED_OUT", "CANCELLED"} \/ row.abort

\* handle_control_exception for a cancel.
CancelledSnap(s) ==
    [graph[s] EXCEPT !.abort = TRUE,
        !.status = IF control.why = "budget" THEN "TIMED_OUT" ELSE "CANCELLED"]

\* The guard at the entry of tool_execution and the checks before each tool:
\* a cancel or pause is stored and the node returns; the graph goes on.
\* Failed tools are retried without being counted, unless they are marked
\* not retryable; an exception is counted but not stored, and the router
\* then goes by the tool results of before.
ToolNode(s) ==
    /\ At(s, "tool")
    /\ \E next \in {"tool", "plan", "reason"} :
          \/ /\ Refused \/ control.cancel
             /\ Visit(s, CancelledSnap(s), TRUE, next)
             /\ Clean
          \/ /\ ~ Refused /\ ~ control.cancel /\ control.pause
             /\ Visit(s, With(s, "PAUSED"), TRUE, next)
             /\ Clean
          \/ /\ ~ Refused /\ ~ control.cancel /\ ~ control.pause
             /\ \/ Visit(s, With(s, "RUNNING"), TRUE, next) /\ Clean
                \/ /\ \E n \in {FailedRoute(retry[s], "tool"), "reason"} :
                         Visit(s, With(s, "RUNNING"), TRUE, n)
                   /\ Uncounted(s)
                \/ /\ \E n \in {next, FailedRoute(retry[s] + 1, next)} :
                         Visit(s, With(s, "RUNNING"), FALSE, n)
                   /\ Counted(s)
    /\ UNCHANGED halted

\* route_after_engineering.
EngRoute(s) == IF errors[s] THEN FailedRoute(retry[s], "eng") ELSE "policy"

\* engineering_execution: the same control handling; its failure is stored
\* and not counted.
EngNode(s) ==
    /\ At(s, "eng")
    /\ \/ /\ control.cancel
          /\ Visit(s, CancelledSnap(s), TRUE, EngRoute(s))
          /\ Clean
       \/ /\ ~ control.cancel /\ control.pause
          /\ Visit(s, With(s, "PAUSED"), TRUE, EngRoute(s))
          /\ Clean
       \/ /\ ~ control.cancel /\ ~ control.pause
          /\ \/ Visit(s, With(s, "RUNNING"), TRUE, EngRoute(s)) /\ Clean
             \/ Visit(s, With(s, "FAILED"), TRUE, FailedRoute(retry[s], "eng")) /\ Uncounted(s)
    /\ UNCHANGED halted

\* reasoning_or_writing.  The checks are those of the streamed answer, so a
\* request that comes after its last chunk, or an answer that is not
\* streamed, goes unnoticed.  The output guard may reject any result.
ReasonNode(s) ==
    /\ At(s, "reason")
    /\ \/ \E next \in {"policy", "plan"} :
             \/ /\ control.cancel
                /\ Visit(s, With(s, "CANCELLED"), TRUE, next)
                /\ Clean
             \/ /\ ~ control.cancel /\ control.pause
                /\ Visit(s, With(s, "PAUSED"), TRUE, next)
                /\ Clean
             \/ /\ Visit(s, With(s, "RUNNING"), TRUE, next)
                /\ Clean
       \/ /\ Visit(s, With(s, "REJECTED"), TRUE, "rejected")
          /\ Uncounted(s)
       \/ /\ Visit(s, With(s, "RUNNING"), TRUE, FailedRoute(retry[s], "reason"))
          /\ Uncounted(s)
       \/ /\ Visit(s, With(s, "RUNNING"), TRUE, FailedRoute(retry[s] + 1, "reason"))
          /\ Counted(s)
    /\ UNCHANGED halted

\* The graph is compiled with interrupt_before human_review: it stops there,
\* and only a snapshot of the policy node with REVIEW tells the pump why.
StopForReview(s, snap, told) ==
    /\ graph' = [graph EXCEPT ![s] = snap]
    /\ row' = Saved(row, snap)
    /\ wpc' = [wpc EXCEPT ![s] = "end"]
    /\ q' = [q EXCEPT ![s] = Append(@, [snap |-> snap, review |-> told, last |-> FALSE])]
    /\ visits' = [visits EXCEPT ![s] = @ + 1]
    /\ halted' = [halted EXCEPT ![s] = TRUE]
    /\ UNCHANGED <<active, control, live, pumpVars, failed, mixed, otherVars>>

\* verification and policy.  Policy stamps POLICY_CHECKED over whatever
\* status the turn has.
PolicyNode(s) ==
    /\ At(s, "policy")
    /\ \/ /\ \E next \in {"output", "rejected"} : Visit(s, With(s, "RUNNING"), TRUE, next)
          /\ Clean /\ UNCHANGED halted
       \/ /\ Visit(s, With(s, "FAILED"), FALSE, "output")
          /\ Counted(s) /\ UNCHANGED halted
       \/ StopForReview(s, With(s, "RUNNING"), TRUE) /\ Clean      \* REVIEW
       \/ StopForReview(s, With(s, "RUNNING"), FALSE) /\ Clean     \* ESCALATE
       \/ StopForReview(s, graph[s], FALSE) /\ Clean               \* at verification

\* Mutant of OutputNode: the result is not stored and its status is lost.
OutputNodeKeepsStatus(s) ==
    /\ At(s, "output")
    /\ Visit(s, graph[s], TRUE, "end")
    /\ Clean /\ UNCHANGED halted

\* output: COMPLETED, PAUSED for an unfulfilled contract, or an exception.
OutputNode(s) ==
    /\ At(s, "output")
    /\ \/ \E status \in {"COMPLETED", "PAUSED"} : Visit(s, With(s, status), TRUE, "end")
       \/ Visit(s, With(s, "FAILED"), FALSE, "end")
    /\ Clean /\ UNCHANGED halted

RejectedNode(s) ==
    /\ At(s, "rejected")
    /\ Visit(s, With(s, "REJECTED"), TRUE, "end")
    /\ Clean /\ UNCHANGED halted

DeadLetterNode(s) ==
    /\ At(s, "dead_letter")
    /\ Visit(s, With(s, "DEAD_LETTER"), TRUE, "end")
    /\ Clean /\ UNCHANGED halted

\* An exception leaves the graph; at the recursion limit it must.
GraphRaises(s) ==
    /\ wpc[s] \in Nodes
    /\ wpc' = [wpc EXCEPT ![s] = "end"]
    /\ failed' = [failed EXCEPT ![s] = TRUE]
    /\ UNCHANGED <<shared, pumpVars, q, graph, errors, retry, visits, halted, mixed, otherVars>>

\* The finally clause of _run_graph: first the sentinel, then the registries.
PutSentinel(s) ==
    /\ wpc[s] = "end"
    /\ wpc' = [wpc EXCEPT ![s] = "ending"]
    /\ q' = [q EXCEPT ![s] = Append(@, [snap |-> NoRow, review |-> FALSE, last |-> TRUE])]
    /\ UNCHANGED <<shared, pumpVars, graph, errors, retry, visits, failed, halted, mixed, otherVars>>

WorkerEnds(s) ==
    /\ wpc[s] = "ending"
    /\ wpc' = [wpc EXCEPT ![s] = "dead"]
    /\ EndRun(s)
    /\ UNCHANGED <<row, pumpVars, q, graph, errors, retry, visits, failed,
                   halted, mixed, otherVars>>

WorkerStep(s) ==
    \/ PlanNode(s) \/ ToolNode(s) \/ EngNode(s) \/ ReasonNode(s) \/ PolicyNode(s)
    \/ OutputNode(s) \/ RejectedNode(s) \/ DeadLetterNode(s)
    \/ GraphRaises(s) \/ PutSentinel(s) \/ WorkerEnds(s)

-----------------------------------------------------------------------------
(* The pump: the loop of _stream_single                                    *)

\* The handle shows a cancel: the stored row becomes the pump's snapshot.
PumpSeesCancel(s) ==
    /\ pump[s] = "pump"
    /\ control.cancel
    /\ ~ (stop[s] /\ latest[s] = row)
    /\ latest' = [latest EXCEPT ![s] = row]
    /\ stop' = [stop EXCEPT ![s] = TRUE]
    /\ UNCHANGED <<shared, pump, draft, review, workerVars, otherVars>>

\* Partial answers are saved with the snapshot of the last item.
PumpSavesDraft(s) ==
    /\ pump[s] = "pump"
    /\ row' = Saved(row, draft[s])
    /\ row' # row
    /\ UNCHANGED <<active, control, live, pumpVars, workerVars, otherVars>>

\* The next item of node_q.
PumpItem(s) ==
    /\ pump[s] = "pump"
    /\ q[s] # <<>>
    /\ q' = [q EXCEPT ![s] = Tail(@)]
    /\ LET item == Head(q[s]) IN
       IF item.last
       THEN /\ pump' = [pump EXCEPT ![s] = "drained"]
            /\ UNCHANGED <<latest, draft, review>>
       ELSE /\ latest' = [latest EXCEPT ![s] = item.snap]
            /\ draft' = [draft EXCEPT ![s] = item.snap]
            /\ review' = [review EXCEPT ![s] = @ \/ item.review]
            /\ UNCHANGED pump
    /\ UNCHANGED <<shared, stop, wpc, graph, errors, retry, visits, failed, halted, mixed, otherVars>>

\* After a cancel the loop ends with the worker, whatever node_q still holds.
PumpStops(s) ==
    /\ pump[s] = "pump"
    /\ stop[s] /\ wpc[s] = "dead"
    /\ pump' = [pump EXCEPT ![s] = "drained"]
    /\ UNCHANGED <<shared, latest, draft, stop, review, workerVars, otherVars>>

\* A draft that has text is saved once more, and what the store returns
\* becomes the pump's snapshot.
PumpFlushes(s) ==
    /\ pump[s] = "drained"
    /\ pump' = [pump EXCEPT ![s] = "flushed"]
    /\ \/ /\ row' = Saved(row, latest[s])
          /\ latest' = [latest EXCEPT ![s] = row']
       \/ UNCHANGED <<row, latest>>
    /\ UNCHANGED <<active, control, live, draft, stop, review, workerVars, otherVars>>

\* _stream_error for an exception that is not a control signal: FAILED is
\* stored and the turn is not finalized.  (The nodes catch control signals.)
StreamError(s) ==
    /\ pump[s] = "flushed"
    /\ failed[s]
    /\ latest' = [latest EXCEPT ![s].status = "FAILED"]
    /\ row' = Saved(row, latest'[s])
    /\ pump' = [pump EXCEPT ![s] = "quit"]
    /\ UNCHANGED <<active, control, live, draft, stop, review, workerVars, otherVars>>

\* A stored TIMED_OUT, CANCELLED or PAUSED replaces the pump's snapshot.
CheckStored(s) ==
    /\ pump[s] = "flushed"
    /\ ~ failed[s]
    /\ latest' = [latest EXCEPT ![s] =
                    IF row.status \in {"TIMED_OUT", "CANCELLED", "PAUSED"} THEN row ELSE @]
    /\ pump' = [pump EXCEPT ![s] = "join"]
    /\ UNCHANGED <<shared, draft, stop, review, workerVars, otherVars>>

\* The finally clause: join the worker, then end the run a second time.  The
\* queue and the locals of both threads are garbage from here on.
Join(s) ==
    /\ pump[s] \in {"join", "quit"}
    /\ wpc[s] = "dead"
    /\ EndRun(s)
    /\ pump' = [pump EXCEPT ![s] = IF @ = "join" THEN "finalize" ELSE "done"]
    /\ q' = [q EXCEPT ![s] = <<>>]
    /\ draft' = [draft EXCEPT ![s] = NoRow]
    /\ graph' = [graph EXCEPT ![s] = NoRow]
    /\ stop' = [stop EXCEPT ![s] = FALSE]
    /\ failed' = [failed EXCEPT ![s] = FALSE]
    /\ errors' = [errors EXCEPT ![s] = FALSE]
    /\ retry' = [retry EXCEPT ![s] = 0]
    /\ visits' = [visits EXCEPT ![s] = 0]
    /\ UNCHANGED <<row, latest, review, wpc, halted, mixed, otherVars>>

\* _stream_finalize and _finalize_turn.  The handle read here is the task's,
\* by now none or that of a newer run.  A COMPLETED turn whose contract is
\* open becomes PAUSED.  The turn closer gets a copy of the snapshot.
Finalize(s) ==
    /\ pump[s] = "finalize"
    /\ LET ask == IF review[s] THEN [latest[s] EXCEPT !.status = "WAITING_REVIEW"]
                  ELSE latest[s]
           stored == IF review[s] THEN Saved(row, ask) ELSE row
           out == Settled(ask, control)
       IN \E fin \in {out, IF out.status = "COMPLETED"
                           THEN [out EXCEPT !.status = "PAUSED"] ELSE out} :
             /\ closer' = [closer EXCEPT ![s] = fin]
             /\ row' = Saved(stored, fin)
             /\ latest' = [latest EXCEPT ![s] = row']
    /\ pump' = [pump EXCEPT ![s] = "done"]
    /\ UNCHANGED <<active, control, live, draft, stop, review, workerVars,
                   request, requests, watchdog, timeouts>>

\* The client is gone: the generator is closed at its next yield.  Inside
\* the try its finally clause still runs; before it nothing does.
Disconnect(s) ==
    /\ Disconnects
    /\ pump[s] \in {"open", "started", "pump"}
    /\ pump' = [pump EXCEPT ![s] =
                  CASE @ = "open" -> "done" [] @ = "started" -> "leaked" [] @ = "pump" -> "quit"]
    /\ UNCHANGED <<shared, latest, draft, stop, review, workerVars, otherVars>>

PumpStep(s) ==
    \/ Preempt(s) \/ Register(s) \/ Attach(s) \/ StartWorker(s)
    \/ PumpItem(s) \/ PumpStops(s) \/ PumpFlushes(s) \/ StreamError(s) \/ CheckStored(s)
    \/ Join(s) \/ Finalize(s)

\* close_turn_async: the snapshot of the finalized turn is saved again, at
\* any later time.
CloseTurn(s) ==
    /\ closer[s] # NoRow
    /\ row' = Saved(row, closer[s])
    /\ closer' = [closer EXCEPT ![s] = NoRow]
    /\ UNCHANGED <<active, control, live, pumpVars, workerVars,
                   request, requests, watchdog, timeouts>>

-----------------------------------------------------------------------------
(* pause_task and cancel_task, and the watchdog                            *)

\* _apply_control_request loads the row ...
RequestLoad(kind) ==
    /\ request.pc = "idle"
    /\ requests < MaxRequests
    /\ row # NoRow
    /\ request' = [pc |-> "apply", kind |-> kind, stored |-> row]
    /\ requests' = requests + 1
    /\ UNCHANGED <<shared, pumpVars, workerVars, closer, watchdog, timeouts>>

\* ... marks the handle if there is one, else the row, and saves the row it
\* had loaded ...
RequestApply ==
    /\ request.pc = "apply"
    /\ request' = [request EXCEPT !.pc = "settle"]
    /\ LET cancel == request.kind = "cancel"
           pause == request.kind = "pause"
       IN IF control.run # 0
          THEN /\ control' = [control EXCEPT !.pause = @ \/ pause, !.cancel = @ \/ cancel,
                                             !.why = "user"]
               /\ row' = Saved(row, request.stored)
          ELSE /\ row' = Saved(row, [request.stored EXCEPT !.preq = @ \/ pause,
                                                           !.creq = @ \/ cancel])
               /\ UNCHANGED control
    /\ UNCHANGED <<active, live, pumpVars, workerVars, closer, requests,
                   watchdog, timeouts>>

\* Mutant of RequestSettle: also while a run is registered.
RequestSettleAlways ==
    /\ request.pc = "settle"
    /\ request' = [pc |-> "idle", kind |-> "none", stored |-> NoRow]
    /\ row' = Saved(row, Settled(row, control))
    /\ live' = 0
    /\ UNCHANGED <<active, control, pumpVars, workerVars, closer, requests,
                   watchdog, timeouts>>

\* ... and settles the outcome itself when no run is registered.
RequestSettle ==
    /\ request.pc = "settle"
    /\ request' = [pc |-> "idle", kind |-> "none", stored |-> NoRow]
    /\ IF active = 0
       THEN /\ row' = Saved(row, Settled(row, control))
            /\ live' = 0
       ELSE UNCHANGED <<row, live>>
    /\ UNCHANGED <<active, control, pumpVars, workerVars, closer, requests,
                   watchdog, timeouts>>

\* finalize_timed_out_task for a registered run over its wall-clock budget:
\* load the row, then unregister the run, ask it to cancel and save TIMED_OUT.
WatchdogLoad ==
    /\ active # 0
    /\ timeouts < MaxTimeouts
    /\ watchdog = NoRow /\ row # NoRow
    /\ watchdog' = row
    /\ timeouts' = timeouts + 1
    /\ UNCHANGED <<shared, pumpVars, workerVars, closer, request, requests>>

WatchdogFinalize ==
    /\ watchdog # NoRow
    /\ watchdog' = NoRow
    /\ active' = 0
    /\ control' = IF control.run = 0 THEN control
                  ELSE [control EXCEPT !.cancel = TRUE, !.why = "budget"]
    /\ row' = Saved(row, [watchdog EXCEPT !.status = "TIMED_OUT", !.creq = TRUE,
                                          !.abort = TRUE])
    /\ UNCHANGED <<live, pumpVars, workerVars, closer, request, requests, timeouts>>

Next ==
    \/ \E s \in Streams :
          \/ Open(s) \/ PumpStep(s) \/ PumpSeesCancel(s) \/ PumpSavesDraft(s)
          \/ Disconnect(s) \/ WorkerStep(s) \/ CloseTurn(s)
    \/ Redirect
    \/ \E kind \in {"pause", "cancel"} : RequestLoad(kind)
    \/ RequestApply \/ RequestSettle
    \/ WatchdogLoad \/ WatchdogFinalize

\* Threads make progress; nobody is obliged to send messages or requests.
Fairness ==
    /\ \A s \in Streams :
          WF_vars(PumpStep(s)) /\ WF_vars(WorkerStep(s)) /\ WF_vars(CloseTurn(s))
    /\ WF_vars(RequestApply \/ RequestSettle)
    /\ WF_vars(WatchdogFinalize)

Spec == Init /\ [][Next]_vars

FairSpec == Spec /\ Fairness

-----------------------------------------------------------------------------
(* Properties                                                              *)

TypeOK ==
    /\ row \in Snapshot
    /\ active \in 0 .. NStreams
    /\ control \in Control
    /\ live \in 0 .. NStreams
    /\ pump \in [Streams -> {"idle", "open", "preempted", "registered", "started", "pump",
                             "drained", "flushed", "join", "quit", "finalize", "done", "leaked"}]
    /\ latest \in [Streams -> Snapshot]
    /\ draft \in [Streams -> Snapshot]
    /\ stop \in [Streams -> BOOLEAN]
    /\ review \in [Streams -> BOOLEAN]
    /\ q \in [Streams -> Seq(Item)]
    /\ wpc \in [Streams -> Nodes \cup {"none", "end", "ending", "dead"}]
    /\ graph \in [Streams -> Snapshot]
    /\ errors \in [Streams -> BOOLEAN]
    /\ retry \in [Streams -> 0 .. RecursionLimit]
    /\ visits \in [Streams -> 0 .. RecursionLimit]
    /\ failed \in [Streams -> BOOLEAN]
    /\ closer \in [Streams -> Snapshot]
    /\ request \in [pc : {"idle", "apply", "settle"}, kind : {"none", "pause", "cancel"},
                    stored : Snapshot]
    /\ requests \in 0 .. MaxRequests
    /\ watchdog \in Snapshot
    /\ timeouts \in 0 .. MaxTimeouts
    /\ halted \in [Streams -> BOOLEAN]
    /\ mixed \in BOOLEAN

\* A task with a registered run starts to look inactive only by the end of
\* that run's own worker, by a redirect or by the watchdog: the late end of
\* an older stream never unregisters a newer run
\* (graph_run_registry.end_graph_run).
RegistryKept ==
    [][active # 0 /\ active' = 0 =>
          \/ wpc'[active] = "dead"
          \/ WatchdogFinalize
          \/ Redirect]_vars

\* When no stream is under way, nothing of the past runs is left in the run
\* registry, the control handles and the live snapshots, so that the next
\* pause or cancel is settled at once.  The exception is a client that
\* leaves between the registration of its run and the start of the worker.
NothingLeftBehind ==
    (\A s \in Streams : pump[s] = "idle" \/ (pump[s] = "done" /\ Over(s)))
        => active = 0 /\ control = NoControl /\ live = 0

\* Every stream ends: the worker ends by the recursion limit at the latest,
\* and neither a cancel nor an exception leaves the pump waiting for it.
StreamsEnd ==
    \A s \in Streams : pump[s] # "idle" ~> Over(s)

\* As long as turns only follow one another: while a registered run executes,
\* its control handle and its live snapshot are its own, so pause and cancel
\* reach it, whatever the end of the older streams and a timeout do.
RunIsControllable ==
    \A s \in Streams :
        active = s /\ wpc[s] \in Nodes /\ ~ mixed => control.run = s /\ live = s

\* A stored turn is not left in the middle: after the stream of the last
\* turn, with no control request and no client leaving, the row is settled,
\* unless the graph of a turn stopped in front of human_review.
TurnSettled ==
    \A s \in Streams :
        /\ pump[s] = "done" /\ wpc[s] = "dead" /\ requests = 0
        /\ \A t \in Streams : ~ halted[t] /\ (t > s => pump[t] = "idle")
        => row.status # "RUNNING"

\* "Cancel -> CANCELLED, preserve committed artifacts."
\* (finalize_control_outcome): the stored outcome of a turn that was
\* cancelled or timed out is not replaced by the completion of that turn.
\* Does not hold: the nodes after the cancel stamp statuses of their own.
CancelStands ==
    [][row.status \in {"CANCELLED", "TIMED_OUT"} /\ row'.turn = row.turn
          => row'.status # "COMPLETED"]_vars

\* "Waiting for human review. Use POST /reviews to continue."
\* (graph_runner.py): a turn that ends with a review waits for it in the
\* store, where POST /reviews looks.  Does not hold: the first save of a later
\* turn meets the terminal row of the turn before.
ReviewIsStored ==
    \A s \in Streams :
        /\ review[s] /\ pump[s] = "done" /\ wpc[s] = "dead"
        /\ \A t \in Streams : t > s => pump[t] = "idle"
        => row.status = "WAITING_REVIEW"
=============================================================================
