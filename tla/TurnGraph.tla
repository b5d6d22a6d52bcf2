----------------------------- MODULE TurnGraph -----------------------------
(***************************************************************************)
(* The graph a turn runs through (app/runtime/graph.py): its nodes, its    *)
(* routers, and what is done to a task outside of a turn when the graph    *)
(* has stopped: GraphRunner.start_task and submit_review, the requeueing   *)
(* of dead letters, the service that expires reviews, and the background   *)
(* closer of a turn.  One task.  A run is one invocation of the graph; all *)
(* runs write the task's row, without a common lock.                       *)
(*                                                                         *)
(* The graph state is abstracted to what routers and gates read.  What the *)
(* language model, a tool or a classifier returns is a free choice, and so *)
(* is an exception of a node.  Statuses that neither a router, a gate nor  *)
(* the store tells apart (NEW, RUNNING, PLANNED, RETRIEVED, TOOL_EXECUTED, *)
(* TOOL_FAILED, REASONED, REASON_FAILED, POLICY_CHECKED) are "RUNNING".    *)
(* Pause, cancel, the watchdog and streams are in RunLifecycle; a save is  *)
(* one step, see StateStore.  turn_contract is removed from the payload by *)
(* planning_node, so that the branches on a contract are never taken.      *)
(***************************************************************************)
EXTENDS Naturals, FiniteSets

CONSTANTS
    Runs,            \* invocations of the graph
    NoRun,
    MaxRetry,        \* settings.MAX_RETRY_COUNT
    RetryBound,      \* bound: retries counted in one graph state
    TimeoutActions   \* the values of settings.REVIEW_TIMEOUT_ACTION considered

ASSUME TurnAssumption ==
    /\ NoRun \notin Runs
    /\ MaxRetry \in Nat \ {0}
    /\ RetryBound \in Nat
    /\ TimeoutActions \subseteq {"reject", "escalate"}

VARIABLES
    row,    \* the task's row in the store
    dlq,    \* its entry in dead_letter_queue
    active, \* the run in _active_run_by_task
    run,    \* for each run: what it is for, the node it is at, its graph state
    late,   \* what the review timeout service made of the row it loaded
    mixed   \* history: a dead letter was requeued before its run was all over

vars == <<row, dlq, active, run, late, mixed>>

-----------------------------------------------------------------------------
(* Data                                                                    *)

\* _TERMINAL_PROTECT_STATUSES (TIMED_OUT does not occur here).
TerminalProtect ==
    {"CANCELLED", "COMPLETED", "DEAD_LETTER", "FAILED", "REJECTED", "ABANDONED"}

\* Errors of planning, retrieval and engineering ("work"), of policy, of others.
ErrorSources == {"work", "policy", "other"}

Snapshot ==
    [status : TerminalProtect \cup {"RUNNING", "WAITING_REVIEW", "NONE"},
     owner : Runs \cup {NoRun},                      \* execution_run.run_id
     bumped : BOOLEAN,                               \* intent_revision > revision_at_start
     errs : SUBSET ErrorSources,                     \* errors
     retry : Nat,                                    \* retry_count
     tools : BOOLEAN,                                \* selected_tools is not empty
     tool : {"fine", "failed", "final"},             \* the last of tool_results, if any
     guard : {"none", "pass", "fail"},               \* output_guard_result
     policy : {"none", "CONTINUE", "REVIEW", "ESCALATE", "REJECT"},
     review : BOOLEAN,                               \* review_required
     feedback : BOOLEAN,                             \* review_feedback is there
     answer : {"none", "reasoned", "engineered"}]    \* who wrote reasoning_result

\* create_initial_state; with status NONE it stands for a missing row.
Fresh ==
    [status |-> "RUNNING", owner |-> NoRun, bumped |-> FALSE, errs |-> {}, retry |-> 0,
     tools |-> FALSE, tool |-> "fine", guard |-> "none", policy |-> "none",
     review |-> FALSE, feedback |-> FALSE, answer |-> "none"]

NoRow == [Fresh EXCEPT !.status = "NONE"]

GraphNodes ==
    {"event_classification", "incremental_planning", "planning", "engineering_execution",
     "retrieval", "tool_execution", "context_governance", "reasoning_or_writing",
     "verification", "policy", "human_review", "rejected", "dead_letter", "output", "END"}

\* A run outside of the graph: not begun, about to mark the dead letter, about
\* to be started; its closer is at work, over, ended by an exception.
Run ==
    [kind : {"none", "task", "requeue", "review"},
     at : GraphNodes \cup {"idle", "got", "start", "closing", "done", "raised"},
     reset : BOOLEAN,      \* the checkpoint was reset and the graph invoked again
     snap : Snapshot]

Idle == [kind |-> "none", at |-> "idle", reset |-> FALSE, snap |-> NoRow]

Init ==
    /\ row = NoRow
    /\ dlq = "none"
    /\ active = NoRun
    /\ run = [r \in Runs |-> Idle]
    /\ late = NoRow
    /\ mixed = FALSE

\* What of a stored state is read again: all of it by a reviewer and the user
\* of a completed task, the retries of a dead letter, else the status alone.
Kept(s) ==
    CASE s.status \in {"WAITING_REVIEW", "COMPLETED"} -> s
      [] s.status = "DEAD_LETTER" -> [NoRow EXCEPT !.status = s.status, !.retry = s.retry]
      [] OTHER -> [NoRow EXCEPT !.status = s.status]

\* StateStore.save: a protected status is only replaced by a protected one.
Saved(old, new) ==
    IF old.status \in TerminalProtect /\ new.status \notin TerminalProtect
    THEN old
    ELSE Kept(new)

Save(s) == row' = Saved(row, s)

Snap(r) == run[r].snap

At(r, node) == run[r].at = node

\* The node returns the state s, and its router names the next node.
Goes(r, s, next) ==
    /\ s.retry <= RetryBound
    /\ run' = [run EXCEPT ![r].snap = s, ![r].at = next]

\* A node that catches an exception records it, and most count a retry.
Failed(s, source, counted) ==
    [s EXCEPT !.status = "FAILED", !.errs = @ \cup {source},
              !.retry = IF counted THEN @ + 1 ELSE @]

\* graph_turn_had_fatal_error: errors are never cleared within a turn.
Fatal(s) == s.errs # {}

FailedRoute(s, node) == IF s.retry >= MaxRetry THEN "dead_letter" ELSE node

-----------------------------------------------------------------------------
(* Nodes up to the answer                                                  *)

\* event_classification, acknowledge and interrupt_control follow one another
\* and save what they got (abort_requested, on which the third would end the
\* run, is set nowhere): one step.
Ingress(r) ==
    /\ At(r, "event_classification")
    /\ Save(Snap(r))
    /\ Goes(r, Snap(r), "incremental_planning")
    /\ UNCHANGED <<dlq, active, late, mixed>>

\* incremental_planning_node stores RUNNING before it plans ...
PlanEnter(r) ==
    /\ At(r, "incremental_planning")
    /\ LET s == [Snap(r) EXCEPT !.status = "RUNNING"] IN
       /\ Save(s)
       /\ Goes(r, s, "planning")
    /\ UNCHANGED <<dlq, active, late, mixed>>

\* Tools, if planning selected any, else the answer.
Onward(s) == IF s.tools THEN "tool_execution" ELSE "context_governance"

\* route_after_incremental_planning.  A question about the session's sources
\* goes to retrieval before errors are looked at, and a misaligned route audit
\* plans again: the counter that should bound this is no field of the graph
\* state.
PlanRoutes(s) ==
    {"retrieval", "incremental_planning"} \cup
    (IF Fatal(s)
     THEN {FailedRoute(s, "incremental_planning")}
     ELSE {"engineering_execution", Onward(s)})

\* Plans made without the model, also after a call that timed out: they ask for
\* no review and leave intent_revision alone.
ThinPlans(s) == {[s EXCEPT !.tools = t, !.review = FALSE] : t \in BOOLEAN}

\* A plan of the model, which asks for a review when it rates the risk as high.
ModelPlan(s, tools, review) ==
    [s EXCEPT !.tools = tools, !.review = review, !.bumped = TRUE]

ModelPlans(s) == {ModelPlan(s, t, v) : t \in BOOLEAN, v \in BOOLEAN}

\* ... and then plans, or fails: a spent token budget counts no retry.
Plan(r) ==
    /\ At(r, "planning")
    /\ \E s \in ThinPlans(Snap(r)) \cup ModelPlans(Snap(r)) \cup
               {Failed(Snap(r), "work", counted) : counted \in BOOLEAN} :
          /\ Save(s)
          /\ \E next \in PlanRoutes(s) : Goes(r, s, next)
    /\ UNCHANGED <<dlq, active, late, mixed>>

RetrievalRoute(s) == IF Fatal(s) THEN FailedRoute(s, "retrieval") ELSE Onward(s)

\* The state of a retrieval that failed is not saved.
Retrieval(r) ==
    /\ At(r, "retrieval")
    /\ \/ LET s == [Snap(r) EXCEPT !.status = "RUNNING"] IN
          Save(s) /\ Goes(r, s, RetrievalRoute(s))
       \/ LET s == Failed(Snap(r), "work", TRUE) IN
          UNCHANGED row /\ Goes(r, s, RetrievalRoute(s))
    /\ UNCHANGED <<dlq, active, late, mixed>>

\* RunController.assert_run_active: the row is cancelled, or the run is not the
\* registered one and the intent has moved on since it began.
Refused(s) ==
    \/ row.status = "CANCELLED"
    \/ s.owner # NoRun /\ s.owner # active /\ s.bumped

\* route_after_tool.  A failure that must not be retried is explained to the
\* user; after a success the turn writes the next chapter of a batch, plans
\* again (convergence), or goes on to the answer.
ToolRoutes(s) ==
    CASE s.tool = "fine"   -> {"tool_execution", "incremental_planning", "context_governance"}
      [] s.tool = "final"  -> {"context_governance"}
      [] s.tool = "failed" -> {FailedRoute(s, "tool_execution")}

\* tool_execution_node: refused; all of its tools failed; some failed or none;
\* nothing to run; an exception, after which the state is not saved.
ToolStates(s) ==
    IF Refused(s) THEN {[s EXCEPT !.status = "CANCELLED"]}
    ELSE {[s EXCEPT !.status = "RUNNING", !.tool = f, !.errs = @ \cup e] :
             f \in {"failed", "final"}, e \in {{}, {"other"}}} \cup
         {[s EXCEPT !.status = "RUNNING", !.tool = "fine"], [s EXCEPT !.status = "RUNNING"]}

ToolExecution(r) ==
    /\ At(r, "tool_execution")
    /\ \/ \E s \in ToolStates(Snap(r)) :
             Save(s) /\ \E next \in ToolRoutes(s) : Goes(r, s, next)
       \/ LET s == [Failed(Snap(r), "other", TRUE) EXCEPT !.status = "RUNNING"] IN
          UNCHANGED row /\ \E next \in ToolRoutes(s) : Goes(r, s, next)
    /\ UNCHANGED <<dlq, active, late, mixed>>

\* engineering_execution_node; its exception counts no retry.
Engineering(r) ==
    /\ At(r, "engineering_execution")
    /\ \E s \in {[Snap(r) EXCEPT !.status = "RUNNING", !.answer = "engineered"],
                 Failed(Snap(r), "work", FALSE)} :
          /\ Save(s)
          /\ Goes(r, s, IF Fatal(s) THEN FailedRoute(s, "engineering_execution") ELSE "policy")
    /\ UNCHANGED <<dlq, active, late, mixed>>

ContextGovernance(r) ==
    /\ At(r, "context_governance")
    /\ Save(Snap(r))
    /\ Goes(r, Snap(r), "reasoning_or_writing")
    /\ UNCHANGED <<dlq, active, late, mixed>>

\* apply_post_generation_guard: the guard looks at the first answer; a result
\* that is there already is taken for every answer after it.
Guarded(s) ==
    IF s.guard = "none"
    THEN {[s EXCEPT !.guard = "pass"],
          [s EXCEPT !.guard = "fail", !.status = "REJECTED", !.policy = "REJECT",
                    !.errs = @ \cup {"other"}]}
    ELSE {IF s.guard = "fail" THEN [s EXCEPT !.status = "REJECTED"] ELSE s}

\* route_after_reasoning_or_writing when reasoning gave an answer: back to
\* planning when the turn has not converged.
AnswerRoutes(s) ==
    IF s.guard = "fail" \/ s.status = "REJECTED" THEN {"rejected"}
    ELSE {"verification", "incremental_planning"}

\* reasoning_or_writing_node; errors of earlier nodes do not matter to it.  A
\* spent token budget counts no retry.
Reasoning(r) ==
    /\ At(r, "reasoning_or_writing")
    /\ \/ \E s \in Guarded([Snap(r) EXCEPT !.status = "RUNNING", !.answer = "reasoned"]) :
             Save(s) /\ \E next \in AnswerRoutes(s) : Goes(r, s, next)
       \/ \E counted \in BOOLEAN :
             LET s == [Failed(Snap(r), "other", counted) EXCEPT !.status = "RUNNING"] IN
             /\ Save(s)
             /\ Goes(r, s, IF s.guard = "fail" THEN "rejected"
                           ELSE FailedRoute(s, "reasoning_or_writing"))
    /\ UNCHANGED <<dlq, active, late, mixed>>

-----------------------------------------------------------------------------
(* Gates and ends                                                          *)

\* Mutant: verification trusts the policy's last word alone.
DecisionOfPolicy(s) ==
    IF s.policy = "REJECT" THEN "rejected"
    ELSE IF s.policy = "REVIEW" THEN "human_review"
    ELSE "policy"

\* _submission_decision and route_after_verification; "degrade" and "submit"
\* both lead to policy.
Decision(s) ==
    IF s.status = "REJECTED" \/ s.policy = "REJECT" THEN "rejected"
    ELSE IF s.review \/ s.policy = "REVIEW" THEN "human_review"
    ELSE "policy"

Verification(r) ==
    /\ At(r, "verification")
    /\ Save(Snap(r))
    /\ Goes(r, Snap(r), Decision(Snap(r)))
    /\ UNCHANGED <<dlq, active, late, mixed>>

\* PolicyEngine.evaluate: the explicit flag comes first, the rest is by risk.
PolicyResults(s) ==
    IF s.review THEN {"REVIEW"} ELSE {"CONTINUE", "REVIEW", "ESCALATE", "REJECT"}

\* route_after_policy: no result counts as CONTINUE.
PolicyRoute(s) ==
    CASE s.policy \in {"none", "CONTINUE"} -> "output"
      [] s.policy \in {"REVIEW", "ESCALATE"} -> "human_review"
      [] s.policy = "REJECT" -> "rejected"

\* An exception leaves the result that was there, and is not saved.
Policy(r) ==
    /\ At(r, "policy")
    /\ \/ \E p \in PolicyResults(Snap(r)) :
             LET s == [Snap(r) EXCEPT !.status = "RUNNING", !.policy = p,
                                      !.review = p \in {"REVIEW", "ESCALATE"}] IN
             Save(s) /\ Goes(r, s, PolicyRoute(s))
       \/ LET s == Failed(Snap(r), "policy", TRUE) IN
          UNCHANGED row /\ Goes(r, s, PolicyRoute(s))
    /\ UNCHANGED <<dlq, active, late, mixed>>

Output(r) ==
    /\ At(r, "output")
    /\ \/ LET s == [Snap(r) EXCEPT !.status = IF @ = "REJECTED" THEN @ ELSE "COMPLETED"] IN
          Save(s) /\ Goes(r, s, "END")
       \/ UNCHANGED row /\ Goes(r, Failed(Snap(r), "other", TRUE), "END")
    /\ UNCHANGED <<dlq, active, late, mixed>>

Rejected(r) ==
    /\ At(r, "rejected")
    /\ LET s == [Snap(r) EXCEPT !.status = "REJECTED"] IN Save(s) /\ Goes(r, s, "END")
    /\ UNCHANGED <<dlq, active, late, mixed>>

\* Mutant: an entry that exists is not written again.
EnqueuedOnce == IF dlq = "none" THEN "open" ELSE dlq

\* DeadLetterStore.enqueue: INSERT OR REPLACE, with resolved_at NULL.
Enqueued == "open"

DeadLetter(r) ==
    /\ At(r, "dead_letter")
    /\ dlq' = Enqueued
    /\ LET s == [Snap(r) EXCEPT !.status = "DEAD_LETTER"] IN Save(s) /\ Goes(r, s, "END")
    /\ UNCHANGED <<active, late, mixed>>

-----------------------------------------------------------------------------
(* Around the graph                                                        *)

Over(r) == run[r].at \in {"idle", "done", "raised"}

\* A client submits the task ...
Submit(r) ==
    /\ run[r].at = "idle"
    /\ \A q \in Runs : run[q].kind # "task"
    /\ run' = [run EXCEPT ![r].kind = "task", ![r].at = "start"]
    /\ UNCHANGED <<row, dlq, active, late, mixed>>

\* ... or requeues its dead letter: requeue reads the entry and then marks it
\* resolved, before start_task is called.
RequeueGet(r) ==
    /\ run[r].at = "idle"
    /\ dlq = "open"
    /\ run' = [run EXCEPT ![r].kind = "requeue", ![r].at = "got"]
    /\ mixed' = (mixed \/ \E q \in Runs : ~ Over(q))
    /\ UNCHANGED <<row, dlq, active, late>>

RequeueMark(r) ==
    /\ run[r].at = "got"
    /\ dlq' = "resolved"
    /\ run' = [run EXCEPT ![r].at = "start"]
    /\ UNCHANGED <<row, active, late, mixed>>

\* start_task: the new state is saved and the run registered.
StartTask(r) ==
    /\ run[r].at = "start"
    /\ active' = r
    /\ LET s == [Fresh EXCEPT !.owner = r] IN
       /\ Save(s)
       /\ run' = [run EXCEPT ![r].snap = s, ![r].at = "event_classification"]
    /\ UNCHANGED <<dlq, late, mixed>>

\* submit_review: only of a task that waits.  resume_graph passes a state to
\* invoke, with which LangGraph begins at the entry point again.  What the
\* reviewer decided is read in human_review_node alone.
SubmitReview(r) ==
    /\ run[r].at = "idle"
    /\ row.status = "WAITING_REVIEW"
    /\ run' = [run EXCEPT ![r] = [kind |-> "review", at |-> "event_classification",
                                  reset |-> FALSE,
                                  snap |-> [row EXCEPT !.feedback = TRUE]]]
    /\ UNCHANGED <<row, dlq, active, late, mixed>>

Deregistered(r) == IF active = r THEN NoRun ELSE active

\* An exception no node catches: LangGraph's recursion limit, which ends every
\* loop, a failing store, no slot in the pool.  The row stays as it is, also
\* when the dead letter is already marked ...
Raise(r) ==
    /\ run[r].at \in GraphNodes \cup {"got", "start"}
    /\ run' = [run EXCEPT ![r].at = "raised", ![r].snap = NoRow]
    /\ active' = IF run[r].kind = "review" THEN active ELSE Deregistered(r)
    /\ UNCHANGED <<row, dlq, late, mixed>>

\* ... unless it looks like a corrupt checkpoint: _invoke_graph_safe resets the
\* thread and invokes the graph once more with the state it began with.
CheckpointReset(r) ==
    /\ run[r].kind # "review"
    /\ run[r].at \in GraphNodes \ {"END", "human_review"}
    /\ ~ run[r].reset
    /\ run' = [run EXCEPT ![r].at = "event_classification", ![r].reset = TRUE,
                          ![r].snap = [Fresh EXCEPT !.owner = r]]
    /\ UNCHANGED <<row, dlq, active, late, mixed>>

\* _maybe_pause_for_review, in start_task only: human_review_node, which the
\* graph never runs (interrupt_before), stores WAITING_REVIEW for REVIEW; not
\* for ESCALATE, nor for a turn that verification sent here.
Paused(s) ==
    IF s.policy = "REVIEW" /\ ~ s.feedback
    THEN {[s EXCEPT !.status = "WAITING_REVIEW", !.review = TRUE], Failed(s, "other", TRUE)}
    ELSE {s}

\* The graph has ended or stopped in front of human_review; the turn is
\* finalized and saved, and close_turn_async is started.
Finish(r) ==
    /\ run[r].at \in {"END", "human_review"}
    /\ \E s \in IF run[r].kind = "review" THEN {Snap(r)} ELSE Paused(Snap(r)) :
          /\ Save(s)
          /\ run' = [run EXCEPT ![r].at = "closing", ![r].snap = Kept(s)]
    /\ active' = IF run[r].kind = "review" THEN active ELSE Deregistered(r)
    /\ UNCHANGED <<dlq, late, mixed>>

\* The closer saves the finished turn once more, at any later time.
CloseTurn(r) ==
    /\ run[r].at = "closing"
    /\ Save(Snap(r))
    /\ run' = [run EXCEPT ![r].at = "done",
                          ![r].snap = [NoRow EXCEPT !.status = Snap(r).status]]
    /\ UNCHANGED <<dlq, active, late, mixed>>

\* ReviewTimeoutService.process_expired loads the tasks that have waited too
\* long, and later saves what it makes of them.
TimeoutLoad ==
    /\ late = NoRow
    /\ row.status = "WAITING_REVIEW"
    /\ \E action \in TimeoutActions :
          late' = IF action = "escalate"
                  THEN [row EXCEPT !.policy = "REVIEW", !.review = TRUE]
                  ELSE Kept([row EXCEPT !.policy = "REJECT", !.review = FALSE,
                                        !.status = "ABANDONED"])
    /\ UNCHANGED <<row, dlq, active, run, mixed>>

TimeoutSave ==
    /\ late # NoRow
    /\ Save(late)
    /\ late' = NoRow
    /\ UNCHANGED <<dlq, active, run, mixed>>

Node(r) ==
    \/ Ingress(r) \/ PlanEnter(r) \/ Plan(r) \/ Retrieval(r) \/ ToolExecution(r)
    \/ Engineering(r) \/ ContextGovernance(r) \/ Reasoning(r) \/ Verification(r)
    \/ Policy(r) \/ Output(r) \/ Rejected(r) \/ DeadLetter(r)

Next ==
    \/ \E r \in Runs :
          \/ Submit(r) \/ RequeueGet(r) \/ RequeueMark(r) \/ StartTask(r)
          \/ SubmitReview(r) \/ Node(r) \/ Raise(r) \/ CheckpointReset(r) \/ Finish(r) \/ CloseTurn(r)
    \/ TimeoutLoad \/ TimeoutSave

Spec == Init /\ [][Next]_vars

-----------------------------------------------------------------------------
(* Properties                                                              *)

TypeOK ==
    /\ row \in Snapshot
    /\ dlq \in {"none", "open", "resolved"}
    /\ active \in Runs \cup {NoRun}
    /\ run \in [Runs -> Run]
    /\ late \in Snapshot
    /\ mixed \in BOOLEAN

\* Whatever way a turn takes to COMPLETED, its answer was cleared: an answer of
\* the reasoning node was written after a guard had passed, and policy said
\* CONTINUE with no review pending.  The one way around policy is an exception
\* in the policy node itself, and then only an answer of the engineering node,
\* which verification does not see, goes out with a review pending.
CompletedIsCleared ==
    row.status = "COMPLETED" =>
        /\ row.answer \in {"reasoned", "engineered"}
        /\ row.answer = "reasoned" => row.guard = "pass"
        /\ \/ row.policy = "CONTINUE" /\ ~ row.review
           \/ /\ row.policy = "none" /\ "policy" \in row.errs
              /\ row.review => row.answer = "engineered"

\* A turn in which planning, retrieval or engineering failed is never
\* completed, also when the node succeeded at a later try: some router on
\* every way to the answer still finds the error.
NoCompletionAfterError ==
    row.status = "COMPLETED" => "work" \notin row.errs

\* dead_letter_node is for "exhausted-retry tasks": a task gets there only when
\* its nodes have counted MAX_RETRY_COUNT retries.
DeadLetterMeansExhausted == row.status = "DEAD_LETTER" => row.retry >= MaxRetry

\* What the stored status promises.
TurnSound ==
    TypeOK /\ CompletedIsCleared /\ NoCompletionAfterError /\ DeadLetterMeansExhausted

\* A dead letter that nobody works on can be requeued, unless it was requeued
\* and that run was ended by an exception, stopped for a review, or began
\* before the run that made the entry was all over.
DeadLetterNotLost ==
    row.status = "DEAD_LETTER" /\ dlq # "open" =>
        \/ mixed
        \/ \E r \in Runs :
              /\ run[r].kind = "requeue"
              /\ \/ ~ Over(r)
                 \/ run[r].at = "raised"
                 \/ run[r].snap.status \notin TerminalProtect

\* "With feedback -> continue to output; without -> graph interrupt"
\* (human_review_node): a run that carries the reviewer's feedback does not stop
\* for a review again.  Does not hold: the graph starts at its entry point.
ReviewDecides ==
    \A r \in Runs : run[r].kind = "review" => run[r].at # "human_review"
=============================================================================
