------------------------------ MODULE Sessions ------------------------------
(***************************************************************************)
(* The session controller: what one session does with the messages that    *)
(* are delivered to it, perhaps more than once and perhaps while an older  *)
(* one is still being handled (app/services/session_controller.py).        *)
(*                                                                         *)
(* A delivery loads the stored task, classifies the message, may cancel    *)
(* the running turn, opens a turn of its own, and records the message id   *)
(* as applied when the turn is over.  What a message says is kept in the   *)
(* task's input_payload and merged into the payload of every later turn.   *)
(*                                                                         *)
(* Of the text only what the classifier tells apart is left: its cue.  The *)
(* statuses of a turn under way are all "RUNNING".  The threads of a turn  *)
(* are the subject of RunLifecycle; here a turn opens, begins, passes the  *)
(* three control nodes in front of planning, and ends, and its background  *)
(* closer may save its last snapshot later.                                *)
(***************************************************************************)
EXTENDS Naturals, FiniteSets

CONSTANTS
    NDeliveries,   \* bound: messages delivered
    MessageIds,    \* the client_message_ids in use
    Kinds,         \* bound: the kinds of message that are sent
    MaxUnderway    \* bound: deliveries handled at the same time

SessionAssumption ==
    /\ NDeliveries \in Nat \ {0}
    /\ MessageIds \subseteq Nat \ {0}
    /\ Kinds \subseteq {"plain", "correction", "stop", "status", "source", "okay",
                       "halt", "rewrite", "reject", "confirm", "resend"}
    /\ MaxUnderway \in Nat \ {0}

Deliveries == 1 .. NDeliveries

FsmStates == {"IDLE", "RUNNING", "REPLANNING", "WAITING_USER"}
EventTypes == {"new_task", "clarification", "interrupt", "redirect", "confirm",
               "reject", "resume", "status_query"}
Cues == {"plain", "correction", "stop", "status", "source", "okay", "pending"}
Actions == {"none", "stop", "rewrite", "reject"}

\* What a message adds to the payload: merge_stripped_message_payload leaves
\* what the message does not mention as it was.
Message == [cue : Cues, action : Actions, confirm : BOOLEAN, resend : BOOLEAN,
            resume : BOOLEAN]
Plain == [cue |-> "plain", action |-> "none", confirm |-> FALSE, resend |-> FALSE,
          resume |-> FALSE]
Sent(kind) ==
    CASE kind \in Cues -> [Plain EXCEPT !.cue = kind]
      [] kind = "halt" -> [Plain EXCEPT !.action = "stop"]
      [] kind \in {"rewrite", "reject"} -> [Plain EXCEPT !.action = kind]
      [] kind = "confirm" -> [Plain EXCEPT !.confirm = TRUE]
      [] kind = "resend" -> [Plain EXCEPT !.resend = TRUE]

\* A snapshot of the task: status, session_turn, execution_run, the pending
\* flags of interrupt_context, and of the payload the message, the session's
\* state machine, the two replanning gates, the last applied message, the
\* delivery that waits for a confirmation, and the classification.
Task ==
    [status : {"NONE", "RUNNING", "PAUSED", "COMPLETED", "FAILED"},
     turn : 0 .. NDeliveries, run : 0 .. NDeliveries, dead : BOOLEAN,
     asked : BOOLEAN, review : BOOLEAN, msg : Message, fsm : FsmStates \cup {"NONE"},
     gate : BOOLEAN, steer : BOOLEAN, steered : BOOLEAN,
     last : MessageIds \cup {0}, pending : BOOLEAN,
     event : EventTypes \cup {"none"}]

NoTask ==
    [status |-> "NONE", turn |-> 0, run |-> 0, dead |-> FALSE, asked |-> FALSE,
     review |-> FALSE, msg |-> Plain, fsm |-> "NONE", gate |-> FALSE,
     steer |-> FALSE, steered |-> FALSE, last |-> 0, pending |-> FALSE,
     event |-> "none"]

VARIABLES
    task,       \* the stored row
    running,    \* _active_run_by_task: the registered run, 0 if none
    at,         \* per delivery: where its handler is
    id,         \* per delivery: client_message_id
    text,       \* per delivery: what the message says
    held,       \* per delivery: the snapshot its handler or its turn holds
    closing,    \* deliveries whose turn closer has not saved yet
    turnsOf,    \* history: turns opened per message id
    clash,      \* history: ids that another delivery came in the way of
    pauses      \* pause requests so far

sessionVars == <<task, running, at, id, text, held, closing, turnsOf, clash, pauses>>

-----------------------------------------------------------------------------
(* The session's state machine, derived from the flags of the payload      *)

Unfinished(s) == s.status \notin {"COMPLETED", "FAILED"}

ReplanPending(s) == s.gate \/ (s.steer /\ ~ s.steered)

\* is_graph_run_active, with the run of the snapshot if it has one.
ExecutorActive(s) == running # 0 /\ (s.run = 0 \/ s.run = running)

Derived(s) ==
    IF s.review THEN "WAITING_USER"
    ELSE IF ReplanPending(s) THEN "REPLANNING"
    ELSE IF s.run # 0 /\ ~ s.dead /\ s.run = running THEN "RUNNING"
    ELSE "IDLE"

\* apply_replan_gate: the turn contract is retired and planning is required.
WithGate(s) == [s EXCEPT !.gate = TRUE, !.steer = TRUE, !.steered = FALSE]

\* sync_legacy_flags_from_fsm.
SyncFlags(s) ==
    IF s.fsm = "REPLANNING" /\ ~ s.steer THEN WithGate(s)
    ELSE IF s.fsm = "IDLE" /\ s.steered THEN [s EXCEPT !.steer = FALSE]
    ELSE s

\* sync_fsm_state: the stored state is believed unless the flags say that
\* the session replans or waits, or that its run is gone and failed.
Synced(s) ==
    LET d == Derived(s)
        lost == s.fsm = "RUNNING" /\ d = "IDLE" /\ s.status = "FAILED"
        fsm == IF d \in {"REPLANNING", "WAITING_USER"} \/ s.fsm = "NONE" \/ lost
               THEN d ELSE s.fsm
    IN  SyncFlags([s EXCEPT !.fsm = fsm])

\* Mutant of Kept: the store restores nothing.
KeptNothing(s) == s

\* _preserve_volatile_fields: flags a snapshot has lost come back from the row.
Kept(s) ==
    [s EXCEPT !.gate = @ \/ task.gate, !.steer = @ \/ task.steer,
              !.last = IF @ = 0 THEN task.last ELSE @]

\* StateStore.save: a finished row refuses an unfinished snapshot; the guard
\* validate synchronises the state machine on the way.
SessionSaved(s) ==
    IF task.status # "NONE" /\ ~ Unfinished(task) /\ Unfinished(s) THEN task
    ELSE Synced(Kept(s))

-----------------------------------------------------------------------------
(* Classification of a message, in the order of classify_user_event        *)

\* _explicit_interrupt: a pause or cancel pending in the stored context, or
\* an intervention that says so, which may be that of an older message.
ExplicitInterrupt(s, m) == s.asked \/ m.action = "stop"

\* classify_steer_interrupt: a stop word or a rewriting intervention is P0.
PreemptsAtOnce(m) == m.cue = "stop" \/ m.action = "rewrite"

HeuristicInterrupt(s, m) ==
    /\ ExecutorActive(s)
    /\ ~ (s.status = "COMPLETED" /\ m.cue = "correction")
    /\ PreemptsAtOnce(m)

ResumeSignals(s, m) == m.resume /\ ~ (s.status = "FAILED" /\ m.cue = "correction")

ResendRedirect(s, m) == ExecutorActive(s) /\ m.cue = "correction"

ConfirmSignals(s, m) == m.confirm \/ (m.cue = "okay" /\ s.pending)

RejectSignals(m) == m.action = "reject"

\* routing_needs_replan believes the stored state before the flags.
RedirectSignals(s, m) ==
    \/ s.fsm = "REPLANNING"
    \/ s.fsm = "NONE" /\ ReplanPending(s)
    \/ ExecutorActive(s) /\ m.action = "rewrite"

\* _is_constraint_supplement: a short addition to an earlier goal.
Supplement(s, m) == s.turn > 0 /\ m.cue \in {"plain", "okay"}

Classify(s, m) ==
    IF ExplicitInterrupt(s, m) THEN "interrupt"
    ELSE IF m.resend THEN IF ResendRedirect(s, m) THEN "redirect" ELSE "new_task"
    ELSE IF HeuristicInterrupt(s, m) THEN "interrupt"
    ELSE IF ResumeSignals(s, m) THEN "resume"
    ELSE IF m.cue = "status" /\ ExecutorActive(s) THEN "status_query"
    ELSE IF ConfirmSignals(s, m) THEN "confirm"
    ELSE IF RejectSignals(m) THEN "reject"
    ELSE IF RedirectSignals(s, m) THEN "redirect"
    ELSE IF m.cue = "source" \/ Supplement(s, m) THEN "clarification"
    ELSE "new_task"

\* _apply_fsm_dispatch_override.
Dispatched(s, e) == IF e = "resume" /\ s.fsm = "REPLANNING" THEN "redirect" ELSE e

-----------------------------------------------------------------------------
(* Building the payload of a turn                                          *)

\* merge_stripped_message_payload over the stored payload: an intervention,
\* a confirmation, a resend or a resume stays until another one replaces it.
Merged(s, m) ==
    [cue |-> m.cue,
     action |-> IF m.action = "none" THEN s.msg.action ELSE m.action,
     confirm |-> m.confirm \/ s.msg.confirm,
     resend |-> m.resend \/ s.msg.resend,
     resume |-> m.resume \/ s.msg.resume]

\* apply_confirm_pending_delivery: the goal becomes the deferred one.
Confirms(s, m) == s.pending /\ (m.confirm \/ m.cue = "okay")
Confirmed(s, m) == IF Confirms(s, m) THEN [m EXCEPT !.cue = "pending"] ELSE m

\* apply_session_source_inquiry_payload_hints: nothing to replan for.
SourceHints(s) ==
    IF s.msg.cue = "source" THEN [s EXCEPT !.steer = FALSE, !.steered = TRUE] ELSE s

\* build_inbound_merged_payload.
Inbound(s, m) ==
    LET merged == Confirmed(s, Merged(s, m)) IN
    SourceHints([s EXCEPT !.msg = merged,
                          !.pending = @ /\ ~ Confirms(s, Merged(s, m)),
                          !.event = Classify(s, merged)])

\* create_initial_state for the first turn of a session.
FirstTurn(m) ==
    [NoTask EXCEPT !.status = "RUNNING", !.turn = 1, !.msg = m, !.fsm = "NONE",
                   !.event = Classify(NoTask, m)]

\* prepare_session_turn: a later turn resets what belongs to one execution
\* and the interrupt context, and keeps the payload.
NextTurn(s, m) ==
    [Inbound(s, m) EXCEPT !.status = "RUNNING", !.turn = @ + 1, !.asked = FALSE,
                          !.review = FALSE]

\* The payload that the handler built is laid over the one stored now.
Overlaid(h) ==
    [task EXCEPT !.msg = h.msg, !.fsm = IF h.fsm = "NONE" THEN @ ELSE h.fsm,
                 !.gate = @ \/ h.gate, !.steer = @ \/ h.steer, !.steered = h.steered,
                 !.last = IF h.last = 0 THEN @ ELSE h.last, !.pending = @ \/ h.pending]

PreparedTurn(h) ==
    Synced(IF task.status = "NONE" THEN FirstTurn(h.msg)
           ELSE NextTurn(Overlaid(h), h.msg))

-----------------------------------------------------------------------------
(* Handling one delivery                                                   *)

SessionInit ==
    /\ task = NoTask
    /\ running = 0
    /\ at = [d \in Deliveries |-> "idle"]
    /\ id = [d \in Deliveries |-> 0]
    /\ text = [d \in Deliveries |-> Plain]
    /\ held = [d \in Deliveries |-> NoTask]
    /\ closing = {}
    /\ turnsOf = [i \in MessageIds |-> 0]
    /\ clash = {}
    /\ pauses = 0

Underway == {d \in Deliveries : at[d] \notin {"idle", "done"}}

\* Mutant of AlreadyApplied: message ids are not compared.
NeverApplied(i) == FALSE

\* _check_idempotent: only the last applied message is remembered.
AlreadyApplied(i) == task.last = i

\* Where handle_message goes with the event: redirects and interrupts of an
\* unfinished task cancel it first, a status query starts nothing.
DispatchOf(s, e) ==
    IF e \in {"redirect", "interrupt"} /\ s.status # "COMPLETED" THEN "cancel"
    ELSE IF e = "status_query" THEN "stamp"
    ELSE "open"

\* handle_message up to its dispatch, or handle_new_task (direct), which
\* does not classify.
Receive(d, i, m, direct) ==
    LET s == Synced(task)
        h == Inbound(s, m)
        e == Dispatched(s, h.event)
        fresh == direct \/ task.status = "NONE"
    IN
    /\ at[d] = "idle"
    /\ \A c \in Deliveries : c < d => at[c] # "idle"
    /\ Cardinality(Underway) < MaxUnderway
    /\ IF AlreadyApplied(i)
       THEN at' = [at EXCEPT ![d] = "done"] /\ UNCHANGED <<id, text, held>>
       ELSE /\ at' = [at EXCEPT ![d] = IF fresh THEN "open" ELSE DispatchOf(s, e)]
            /\ id' = [id EXCEPT ![d] = i]
            /\ text' = [text EXCEPT ![d] = m]
            /\ held' = [held EXCEPT ![d] =
                           IF fresh THEN [NoTask EXCEPT !.msg = m]
                           ELSE IF DispatchOf(s, e) = "cancel" THEN s ELSE h]
    /\ clash' = IF Underway = {} THEN clash ELSE clash \cup {i} \cup {id[c] : c \in Underway}
    /\ UNCHANGED <<task, running, closing, turnsOf, pauses>>

\* RunController.cancel on the snapshot the handler holds: the run it names
\* leaves the registry, the session replans; and the save after it.
\* _dispatch_redirect then merges the message into the row it loads.
CancelRun(d) ==
    /\ at[d] = "cancel"
    /\ running' = IF running = held[d].run THEN 0 ELSE running
    /\ LET s == WithGate([held[d] EXCEPT !.dead = TRUE, !.fsm = "REPLANNING"]) IN
       task' = SessionSaved(s)
    /\ held' = [held EXCEPT ![d] =
                   [task' EXCEPT !.msg = Merged(task', [text[d] EXCEPT !.resend = FALSE])]]
    /\ at' = [at EXCEPT ![d] = "open"]
    /\ UNCHANGED <<id, text, closing, turnsOf, clash, pauses>>

\* stream_task: the turn is prepared from the row as it is now, and saved.
OpenTurn(d) ==
    /\ at[d] = "open"
    /\ held' = [held EXCEPT ![d] = PreparedTurn(held[d])]
    /\ task' = SessionSaved(PreparedTurn(held[d]))
    /\ turnsOf' = [turnsOf EXCEPT ![id[d]] = @ + 1]
    /\ at' = [at EXCEPT ![d] = "begin"]
    /\ text' = [text EXCEPT ![d] = Plain]
    /\ UNCHANGED <<running, id, closing, clash, pauses>>

\* RunController.begin_run: a session that replans goes on replanning.
BeganRun(s, d) ==
    [s EXCEPT !.run = d, !.dead = FALSE,
              !.fsm = IF @ = "REPLANNING" THEN @ ELSE "RUNNING"]

\* begin_graph_run, begin_run, init_foreground_epoch_on_run and the save.
BeginRun(d) ==
    /\ at[d] = "begin"
    /\ running' = d
    /\ held' = [held EXCEPT ![d] = BeganRun(@, d)]
    /\ task' = SessionSaved(BeganRun(held[d], d))
    /\ at' = [at EXCEPT ![d] = "control"]
    /\ UNCHANGED <<id, text, closing, turnsOf, clash, pauses>>

\* resolve_interrupt_route and apply_interrupt_control.  The context was
\* reset when the turn opened, so the event alone decides.
Interrupted(s) ==
    CASE s.event = "interrupt" -> [s EXCEPT !.steer = TRUE]
      [] s.event = "resume"    -> [s EXCEPT !.asked = FALSE]
      [] OTHER                 -> s

\* event_classification takes the stamped event over, acknowledge reports
\* it, interrupt_control acts on it; each of them saves.
ControlNodes(d) ==
    /\ at[d] = "control"
    /\ held' = [held EXCEPT ![d] = Interrupted(@)]
    /\ task' = SessionSaved(Interrupted(held[d]))
    /\ at' = [at EXCEPT ![d] = "turn"]
    /\ UNCHANGED <<running, id, text, closing, turnsOf, clash, pauses>>

\* The ways a turn can end: answered, with a delivery left to be confirmed,
\* failed, paused with its contract retired, or stopped for a review.
Ended(s) ==
    {[s EXCEPT !.status = "COMPLETED"],
     [s EXCEPT !.status = "COMPLETED", !.pending = TRUE],
     [s EXCEPT !.status = "FAILED"],
     [s EXCEPT !.status = "PAUSED", !.gate = TRUE],
     [s EXCEPT !.status = "PAUSED", !.review = TRUE]}

\* The turn ends, its run leaves the registry, the closer starts.
EndTurn(d) ==
    /\ at[d] = "turn"
    /\ \E s \in Ended(held[d]) :
          /\ held' = [held EXCEPT ![d] = s]
          /\ task' = SessionSaved(s)
    /\ running' = IF running = d THEN 0 ELSE running
    /\ closing' = closing \cup {d}
    /\ at' = [at EXCEPT ![d] = "stamp"]
    /\ UNCHANGED <<id, text, turnsOf, clash, pauses>>

\* The end of handle_message: load, stamp and save.
StampApplied(d) ==
    /\ at[d] = "stamp"
    /\ task' = SessionSaved([task EXCEPT !.last = id[d]])
    /\ clash' = clash \cup ({task.last} \ {0, id[d]})
    /\ at' = [at EXCEPT ![d] = "done"]
    /\ id' = [id EXCEPT ![d] = 0]
    /\ text' = [text EXCEPT ![d] = Plain]
    /\ held' = IF d \in closing THEN held ELSE [held EXCEPT ![d] = NoTask]
    /\ UNCHANGED <<running, closing, turnsOf, pauses>>

\* close_turn_async: the snapshot of the turn's end is saved again, also
\* over the id that was stamped meanwhile.
CloseTurn(d) ==
    /\ d \in closing
    /\ closing' = closing \ {d}
    /\ task' = SessionSaved(held[d])
    /\ clash' = IF task'.last # task.last THEN clash \cup {task.last} ELSE clash
    /\ held' = [held EXCEPT ![d] = NoTask]
    /\ UNCHANGED <<running, at, id, text, turnsOf, pauses>>

\* persist_control_request_to_state for a pause of the running turn.
RequestPause ==
    /\ pauses = 0
    /\ running # 0
    /\ task' = SessionSaved([task EXCEPT !.asked = TRUE])
    /\ pauses' = 1
    /\ UNCHANGED <<running, at, id, text, held, closing, turnsOf, clash>>

HandlerStep(d) ==
    CancelRun(d) \/ OpenTurn(d) \/ BeginRun(d) \/ ControlNodes(d) \/ EndTurn(d)
        \/ StampApplied(d)

SessionNext ==
    \/ \E d \in Deliveries, i \in MessageIds, k \in Kinds : Receive(d, i, Sent(k), FALSE)
    \/ \E d \in Deliveries, i \in MessageIds :
          Receive(d, i, [Plain EXCEPT !.resume = TRUE], TRUE)
    \/ \E d \in Deliveries : HandlerStep(d) \/ CloseTurn(d)
    \/ RequestPause

SessionSpec == SessionInit /\ [][SessionNext]_sessionVars

-----------------------------------------------------------------------------
(* Properties                                                              *)

SessionTypeOK ==
    /\ task \in Task
    /\ running \in 0 .. NDeliveries
    /\ at \in [Deliveries -> {"idle", "cancel", "open", "begin", "control", "turn",
                              "stamp", "done"}]
    /\ id \in [Deliveries -> MessageIds \cup {0}]
    /\ text \in [Deliveries -> Message]
    /\ held \in [Deliveries -> Task]
    /\ closing \subseteq Deliveries
    /\ turnsOf \in [MessageIds -> Nat]
    /\ clash \subseteq MessageIds
    /\ pauses \in 0 .. 1

\* A message that is delivered again opens no second turn, unless another
\* delivery overlapped with it, another message was applied since, or a turn
\* closer wrote the older id back: the id is stamped after the turn, outlives
\* the saves of the turn it was stamped over, and is looked up first.
RepeatsAreRecognised ==
    \A i \in MessageIds : turnsOf[i] > 1 => i \in clash

\* What a redirect sets is never lost again: no later message, turn, save of
\* an older snapshot or closer takes the planning gate back, whoever wins the
\* races for the row (clear_contract_replan_requirement has no caller).
KeepsGate == task.gate => task'.gate

\* The docstring of _check_idempotent: true when the message was already
\* applied.  Then no message would be applied twice by deliveries that follow
\* each other.  Does not hold: only the id applied last is kept.
AppliedOnce == \A i \in MessageIds : turnsOf[i] <= 1
=============================================================================
