-------------------------- MODULE TurnGraphProofs --------------------------
(***************************************************************************)
(* What COMPLETED and DEAD_LETTER promise, for any number of runs of a     *)
(* task and any limit of retries.  A router sees one state at one node;    *)
(* the invariant says what each node may rely on when a state gets there,  *)
(* whichever of the ways through the graph it took (GateOK), and what may  *)
(* be relied on in a stored state (StoredOK).  On top of it, LetterInv     *)
(* relates the entry in dead_letter_queue to the runs under way.           *)
(***************************************************************************)
EXTENDS TurnGraph, TLAPS

\* An answer of the reasoning node has passed the guard.
GuardOK(s) == s.guard # "fail" /\ (s.answer = "reasoned" => s.guard = "pass")

\* The answer may go out (CompletedIsCleared of a state).
Cleared(s) ==
    /\ s.answer \in {"reasoned", "engineered"}
    /\ s.answer = "reasoned" => s.guard = "pass"
    /\ \/ s.policy = "CONTINUE" /\ ~ s.review
       \/ /\ s.policy = "none" /\ "policy" \in s.errs
          /\ s.review => s.answer = "engineered"

\* A state that waits for a review is where a rerun of the graph begins.
StoredOK(s) ==
    /\ s.status = "COMPLETED" => Cleared(s) /\ "work" \notin s.errs
    /\ s.status = "DEAD_LETTER" => s.retry >= MaxRetry
    /\ s.status = "WAITING_REVIEW" => GuardOK(s) /\ s.policy \notin {"CONTINUE", "REJECT"}

\* Nodes that are reached only past a router that looked at the errors.
PastErrors ==
    {"tool_execution", "context_governance", "reasoning_or_writing", "verification",
     "policy", "output"}

\* What holds of a state in front of a node.
GateOK(s, node) ==
    /\ node # "END" => s.status \notin {"COMPLETED", "DEAD_LETTER"}
    /\ node \notin {"rejected", "END"} => GuardOK(s) /\ s.policy # "REJECT"
    /\ node \notin {"output", "END"} => s.policy # "CONTINUE"
    /\ s.policy = "REVIEW" => GuardOK(s)
    /\ node \in {"verification", "policy"} => s.answer # "none"
    /\ node = "policy" => (s.answer = "reasoned" => ~ s.review)
    /\ node = "output" => Cleared(s)
    /\ node \in PastErrors => "work" \notin s.errs
    /\ node = "dead_letter" => s.retry >= MaxRetry

RunOK(x) ==
    /\ x.at \in GraphNodes => StoredOK(x.snap) /\ GateOK(x.snap, x.at)
    /\ x.at = "closing" => StoredOK(x.snap)

IInv ==
    /\ TypeOK
    /\ StoredOK(row)
    /\ StoredOK(late)
    /\ \A r \in Runs : RunOK(run[r])

-----------------------------------------------------------------------------

\* A state that stands for a missing row.
LEMMA NoRowOK == NoRow \in Snapshot /\ StoredOK(NoRow)
BY TurnAssumption DEF NoRow, Fresh, Snapshot, StoredOK, TurnAssumption, TerminalProtect, ErrorSources

\* Only what is read again of a state is stored, and it is as good.
LEMMA KeptOK ==
  ASSUME NEW s \in Snapshot, StoredOK(s)
  PROVE  Kept(s) \in Snapshot /\ StoredOK(Kept(s))
<1>1. CASE s.status \in {"WAITING_REVIEW", "COMPLETED"}
  BY <1>1 DEF Kept
<1>2. CASE s.status = "DEAD_LETTER"
  <2>1. Kept(s) = [NoRow EXCEPT !.status = s.status, !.retry = s.retry]
    BY <1>2 DEF Kept
  <2> QED
    BY <2>1, <1>2, NoRowOK DEF Snapshot, StoredOK
<1>3. CASE s.status \notin {"WAITING_REVIEW", "COMPLETED", "DEAD_LETTER"}
  <2>1. Kept(s) = [NoRow EXCEPT !.status = s.status]
    BY <1>3 DEF Kept
  <2>2. Kept(s) \in Snapshot /\ Kept(s).status = s.status
    BY <2>1, NoRowOK DEF Snapshot
  <2> QED
    BY <2>2, <1>3 DEF StoredOK
<1> QED
  BY <1>1, <1>2, <1>3

\* StateStore.save of a good state over a good row.
LEMMA SavedOK ==
  ASSUME NEW old \in Snapshot, StoredOK(old), NEW s \in Snapshot, StoredOK(s)
  PROVE  Saved(old, s) \in Snapshot /\ StoredOK(Saved(old, s))
BY KeptOK DEF Saved

\* A state a run begins with.
LEMMA FreshOK ==
  ASSUME NEW r \in Runs
  PROVE  LET s == [Fresh EXCEPT !.owner = r] IN
         s \in Snapshot /\ StoredOK(s) /\ GateOK(s, "event_classification")
BY DEF Fresh, Snapshot, StoredOK, GateOK, GuardOK, PastErrors, TerminalProtect, ErrorSources

\* Runs that are left alone stay as they are.
LEMMA RunStep ==
  ASSUME IInv, NEW r \in Runs, NEW x \in Run, RunOK(x), run' = [run EXCEPT ![r] = x],
         row' \in Snapshot, StoredOK(row'), late' \in Snapshot, StoredOK(late'),
         dlq' \in {"none", "open", "resolved"}, active' \in Runs \cup {NoRun},
         mixed' \in BOOLEAN
  PROVE  IInv'
BY DEF IInv, TypeOK

\* A node that returns a good state, stored or not.
LEMMA NodeStep ==
  ASSUME IInv, NEW r \in Runs, NEW s \in Snapshot, NEW next \in GraphNodes,
         StoredOK(s), GateOK(s, next), Goes(r, s, next), Save(s) \/ UNCHANGED row,
         dlq' \in {"none", "open", "resolved"}, UNCHANGED <<active, late, mixed>>
  PROVE  IInv'
<1>1. row' \in Snapshot /\ StoredOK(row')
  BY SavedOK DEF IInv, TypeOK, Save
<1>2. run[r] \in Run
  BY DEF IInv, TypeOK
<1> DEFINE x == [run[r] EXCEPT !.snap = s, !.at = next]
<1>3. x \in Run /\ RunOK(x)
  BY <1>2 DEF Run, RunOK, GraphNodes
<1>4. run' = [run EXCEPT ![r] = x]
  BY <1>2 DEF Goes, Run, IInv, TypeOK
<1> QED
  BY <1>1, <1>3, <1>4, RunStep DEF IInv, TypeOK

\* What a node gets.
LEMMA NodeGets ==
  ASSUME IInv, NEW r \in Runs, NEW node \in GraphNodes, At(r, node)
  PROVE  Snap(r) \in Snapshot /\ StoredOK(Snap(r)) /\ GateOK(Snap(r), node)
BY DEF IInv, TypeOK, Run, RunOK, At, Snap

\* t is s with another status, or other errors, retries or tools: what the
\* gates read is the same.
Alike(s, t) ==
    t.policy = s.policy /\ t.guard = s.guard /\ t.answer = s.answer

\* A node that caught an exception (Failed): another status, one more error.
LEMMA FailedFields ==
  ASSUME NEW s \in Snapshot, NEW source \in ErrorSources, NEW counted \in BOOLEAN
  PROVE  LET t == Failed(s, source, counted) IN
         /\ t \in Snapshot /\ Alike(s, t) /\ t.review = s.review
         /\ t.status = "FAILED" /\ t.errs = s.errs \cup {source}
<1>1. (IF counted THEN s.retry + 1 ELSE s.retry) \in Nat /\ s.errs \cup {source} \in SUBSET ErrorSources
  BY DEF Snapshot
<1> QED
  BY <1>1 DEF Failed, Snapshot, Alike, TerminalProtect

\* A node that stores RUNNING changes nothing else.
LEMMA RunningFields ==
  ASSUME NEW s \in Snapshot
  PROVE  LET t == [s EXCEPT !.status = "RUNNING"] IN
         /\ t \in Snapshot /\ Alike(s, t) /\ t.review = s.review
         /\ t.status = "RUNNING" /\ t.errs = s.errs
BY DEF Snapshot, Alike

\* Tools and reasoning that raised are not FAILED, but have one more error.
LEMMA TriedFields ==
  ASSUME NEW s \in Snapshot, NEW counted \in BOOLEAN
  PROVE  LET t == [Failed(s, "other", counted) EXCEPT !.status = "RUNNING"] IN
         /\ t \in Snapshot /\ Alike(s, t)
         /\ t.status = "RUNNING" /\ t.errs = s.errs \cup {"other"}
<1> DEFINE f == Failed(s, "other", counted)
<1>1. f \in Snapshot /\ Alike(s, f) /\ f.errs = s.errs \cup {"other"}
  BY FailedFields DEF ErrorSources
<1> HIDE DEF f
<1>2. LET t == [f EXCEPT !.status = "RUNNING"] IN
      t \in Snapshot /\ Alike(f, t) /\ t.status = "RUNNING" /\ t.errs = f.errs
  BY <1>1, RunningFields
<1> QED
  BY <1>1, <1>2 DEF f, Alike

\* A plan changes neither status nor errors nor what the gates read.
LEMMA PlanFields ==
  ASSUME NEW s \in Snapshot, NEW t \in ThinPlans(s) \cup ModelPlans(s)
  PROVE  t \in Snapshot /\ Alike(s, t) /\ t.status = s.status /\ t.errs = s.errs
<1>1. CASE t \in ThinPlans(s)
  <2>1. PICK tools \in BOOLEAN : t = [s EXCEPT !.tools = tools, !.review = FALSE]
    BY <1>1 DEF ThinPlans
  <2> QED
    BY <2>1 DEF Snapshot, Alike
<1>2. ASSUME NEW tools \in BOOLEAN, NEW review \in BOOLEAN,
             t = ModelPlan(s, tools, review)
      PROVE  t \in Snapshot /\ Alike(s, t) /\ t.status = s.status /\ t.errs = s.errs
  BY <1>2 DEF Snapshot, Alike, ModelPlan
<1>3. CASE t \in ModelPlans(s)
  BY <1>2, <1>3 DEF ModelPlans
<1> QED
  BY <1>1, <1>3

\* After apply_post_generation_guard the answer has passed, or is rejected.
LEMMA GuardedFields ==
  ASSUME NEW f \in Snapshot, f.status = "RUNNING", f.guard \in {"none", "pass"}, NEW t \in Guarded(f)
  PROVE  /\ t \in Snapshot /\ t.answer = f.answer /\ t.status \in {"RUNNING", "REJECTED"}
         /\ (t.guard = "fail" /\ t.policy = "REJECT") \/ (t.guard = "pass" /\ t.policy = f.policy)
         /\ t.guard # "fail" => t.errs = f.errs
<1>1. CASE t = f /\ f.guard = "pass"
  BY <1>1
<1>2. CASE t = [f EXCEPT !.guard = "pass"]
  BY <1>2 DEF Snapshot
<1>3. f.errs \cup {"other"} \in SUBSET ErrorSources
  BY DEF Snapshot, ErrorSources
<1>4. f.guard = "none" =>
          \/ t = [f EXCEPT !.guard = "pass"]
          \/ t = [f EXCEPT !.guard = "fail", !.status = "REJECTED", !.policy = "REJECT",
                           !.errs = @ \cup {"other"}]
  BY Zenon DEF Guarded
<1>5. f.guard = "pass" => t = f
  BY DEF Guarded
<1>6. [f EXCEPT !.guard = "fail", !.status = "REJECTED", !.policy = "REJECT",
                !.errs = @ \cup {"other"}]
      = [f EXCEPT !.guard = "fail", !.status = "REJECTED", !.policy = "REJECT",
                  !.errs = f.errs \cup {"other"}]
  BY DEF Snapshot
<1>7. CASE f.guard = "none" /\ t # [f EXCEPT !.guard = "pass"]
  <2> DEFINE e == f.errs \cup {"other"}
  <2>1. t = [f EXCEPT !.guard = "fail", !.status = "REJECTED", !.policy = "REJECT", !.errs = e]
    BY <1>4, <1>6, <1>7, Zenon
  <2>2. e \in SUBSET ErrorSources
    BY <1>3
  <2> HIDE DEF e
  <2>3. t \in Snapshot
    BY <2>1, <2>2 DEF Snapshot, TerminalProtect
  <2>4. t.answer = f.answer /\ t.status = "REJECTED" /\ t.guard = "fail" /\ t.policy = "REJECT"
    BY <2>1 DEF Snapshot
  <2> QED
    BY <2>3, <2>4
<1> QED
  BY <1>1, <1>2, <1>5, <1>7

\* tool_execution_node adds no error of planning, retrieval or engineering.
LEMMA ToolFields ==
  ASSUME NEW s \in Snapshot, NEW t \in ToolStates(s)
  PROVE  /\ t \in Snapshot /\ Alike(s, t) /\ t.status \in {"RUNNING", "CANCELLED"}
         /\ t.errs \subseteq s.errs \cup {"other"}
<1>1. CASE t = [s EXCEPT !.status = "CANCELLED"]
  BY <1>1 DEF Snapshot, Alike, TerminalProtect
<1>2. CASE t \in {[s EXCEPT !.status = "RUNNING", !.tool = "fine"], [s EXCEPT !.status = "RUNNING"]}
  BY <1>2 DEF Snapshot, Alike
<1>3. ASSUME NEW f \in {"failed", "final"}, NEW e \in {{}, {"other"}},
             t = [s EXCEPT !.status = "RUNNING", !.tool = f, !.errs = @ \cup e]
      PROVE  /\ t \in Snapshot /\ Alike(s, t) /\ t.status = "RUNNING"
             /\ t.errs \subseteq s.errs \cup {"other"}
  <2>1. s.errs \cup e \in SUBSET ErrorSources /\ s.errs \cup e \subseteq s.errs \cup {"other"}
    BY DEF Snapshot, ErrorSources
  <2> QED
    BY <1>3, <2>1 DEF Snapshot, Alike
<1> QED
  BY <1>1, <1>2, <1>3 DEF ToolStates

(* Node by node: from what a node gets to what the next one may rely on.   *)

\* The nodes at the entrance.
LEMMA IngressOK ==
  ASSUME IInv, NEW r \in Runs, Ingress(r)
  PROVE  IInv'
<1>1. Snap(r) \in Snapshot /\ StoredOK(Snap(r)) /\ GateOK(Snap(r), "event_classification")
  BY NodeGets DEF Ingress, GraphNodes
<1>2. GateOK(Snap(r), "incremental_planning")
  BY <1>1 DEF GateOK, PastErrors
<1> QED
  BY <1>1, <1>2, NodeStep DEF Ingress, GraphNodes, IInv, TypeOK

\* incremental_planning_node before it plans.
LEMMA PlanEnterOK ==
  ASSUME IInv, NEW r \in Runs, PlanEnter(r)
  PROVE  IInv'
<1> DEFINE s == [Snap(r) EXCEPT !.status = "RUNNING"]
<1>1. Snap(r) \in Snapshot /\ StoredOK(Snap(r)) /\ GateOK(Snap(r), "incremental_planning")
  BY NodeGets DEF PlanEnter, GraphNodes
<1>2. s \in Snapshot /\ StoredOK(s) /\ GateOK(s, "planning")
  BY <1>1 DEF Snapshot, StoredOK, GateOK, GuardOK, Cleared, PastErrors
<1> QED
  BY <1>2, NodeStep DEF PlanEnter, GraphNodes, IInv, TypeOK

\* planning_node and route_after_incremental_planning: on to tools or the answer
\* only without errors.
LEMMA PlanOK ==
  ASSUME IInv, NEW r \in Runs, Plan(r)
  PROVE  IInv'
<1>1. Snap(r) \in Snapshot /\ StoredOK(Snap(r)) /\ GateOK(Snap(r), "planning")
  BY NodeGets DEF Plan, GraphNodes
<1>2. PICK s \in ThinPlans(Snap(r)) \cup ModelPlans(Snap(r)) \cup
               {Failed(Snap(r), "work", counted) : counted \in BOOLEAN} :
          Save(s) /\ \E next \in PlanRoutes(s) : Goes(r, s, next)
  BY DEF Plan
<1>3. PICK next \in PlanRoutes(s) : Goes(r, s, next)
  BY <1>2
<1>4. s \in Snapshot /\ StoredOK(s) /\ GateOK(s, "planning")
  <2>1. CASE s \in ThinPlans(Snap(r))
    BY <1>1, <2>1, PlanFields DEF StoredOK, GateOK, GuardOK, PastErrors, Alike
  <2>2. CASE s \in ModelPlans(Snap(r))
    BY <1>1, <2>2, PlanFields DEF StoredOK, GateOK, GuardOK, PastErrors, Alike
  <2>3. CASE s \in {Failed(Snap(r), "work", counted) : counted \in BOOLEAN}
    BY <1>1, <2>3, FailedFields DEF StoredOK, GateOK, GuardOK, PastErrors, Alike, ErrorSources
  <2> QED
    BY <1>2, <2>1, <2>2, <2>3
<1>5. next \in GraphNodes /\ GateOK(s, next)
  BY <1>3, <1>4, TurnAssumption DEF PlanRoutes, Fatal, FailedRoute, Onward, GraphNodes, GateOK,
     PastErrors, Snapshot, TurnAssumption
<1> QED
  BY <1>2, <1>3, <1>4, <1>5, NodeStep DEF Plan, IInv, TypeOK

\* retrieval_node and route_after_retrieval: the errors of planning are found here
\* at the latest.
LEMMA RetrievalOK ==
  ASSUME IInv, NEW r \in Runs, Retrieval(r)
  PROVE  IInv'
<1> DEFINE fine == [Snap(r) EXCEPT !.status = "RUNNING"]
           bad  == Failed(Snap(r), "work", TRUE)
<1>1. Snap(r) \in Snapshot /\ StoredOK(Snap(r)) /\ GateOK(Snap(r), "retrieval")
  BY NodeGets DEF Retrieval, GraphNodes
<1>2. PICK s \in {fine, bad} :
          (Save(s) \/ UNCHANGED row) /\ Goes(r, s, RetrievalRoute(s))
  BY DEF Retrieval
<1>3. s \in Snapshot /\ StoredOK(s) /\ GateOK(s, "retrieval")
  <2>1. CASE s = fine
    BY <1>1, <2>1, RunningFields DEF StoredOK, GateOK, GuardOK, PastErrors, Alike
  <2>2. CASE s = bad
    BY <1>1, <2>2, FailedFields DEF StoredOK, GateOK, GuardOK, PastErrors, Alike, ErrorSources
  <2> QED
    BY <1>2, <2>1, <2>2
<1>4. RetrievalRoute(s) \in GraphNodes /\ GateOK(s, RetrievalRoute(s))
  BY <1>3, TurnAssumption DEF RetrievalRoute, Fatal, FailedRoute, Onward, GraphNodes, GateOK,
     PastErrors, Snapshot, TurnAssumption
<1> QED
  BY <1>2, <1>3, <1>4, NodeStep DEF Retrieval, IInv, TypeOK

\* tool_execution_node and route_after_tool.
LEMMA ToolExecutionOK ==
  ASSUME IInv, NEW r \in Runs, ToolExecution(r)
  PROVE  IInv'
<1> DEFINE bad == [Failed(Snap(r), "other", TRUE) EXCEPT !.status = "RUNNING"]
<1>1. Snap(r) \in Snapshot /\ StoredOK(Snap(r)) /\ GateOK(Snap(r), "tool_execution")
  BY NodeGets DEF ToolExecution, GraphNodes
<1>2. PICK s \in ToolStates(Snap(r)) \cup {bad} :
          (Save(s) \/ UNCHANGED row) /\ \E next \in ToolRoutes(s) : Goes(r, s, next)
  BY DEF ToolExecution
<1>3. PICK next \in ToolRoutes(s) : Goes(r, s, next)
  BY <1>2
<1>4. s \in Snapshot /\ StoredOK(s) /\ GateOK(s, "tool_execution")
  <2>1. CASE s \in ToolStates(Snap(r))
    BY <1>1, <2>1, ToolFields DEF StoredOK, GateOK, GuardOK, PastErrors, Alike
  <2>2. CASE s = bad
    <3>1. /\ s \in Snapshot /\ Alike(Snap(r), s) /\ s.status = "RUNNING"
          /\ s.errs = Snap(r).errs \cup {"other"}
      BY <1>1, <2>2, TriedFields
    <3> QED
      BY <1>1, <3>1 DEF StoredOK, GateOK, GuardOK, PastErrors, Alike
  <2> QED
    BY <1>2, <2>1, <2>2
<1>5. next \in GraphNodes /\ GateOK(s, next)
  BY <1>3, <1>4, TurnAssumption DEF ToolRoutes, FailedRoute, GraphNodes, GateOK, PastErrors,
     Snapshot, TurnAssumption
<1> QED
  BY <1>2, <1>3, <1>4, <1>5, NodeStep DEF ToolExecution, IInv, TypeOK

\* engineering_execution_node: its answer goes to policy, past the guard.
LEMMA EngineeringOK ==
  ASSUME IInv, NEW r \in Runs, Engineering(r)
  PROVE  IInv'
<1> DEFINE fine == [Snap(r) EXCEPT !.status = "RUNNING", !.answer = "engineered"]
           bad  == Failed(Snap(r), "work", FALSE)
           To(s) == IF Fatal(s) THEN FailedRoute(s, "engineering_execution") ELSE "policy"
<1>1. Snap(r) \in Snapshot /\ StoredOK(Snap(r)) /\ GateOK(Snap(r), "engineering_execution")
  BY NodeGets DEF Engineering, GraphNodes
<1>2. PICK s \in {fine, bad} : Save(s) /\ Goes(r, s, To(s))
  BY DEF Engineering
<1>3. s \in Snapshot /\ StoredOK(s) /\ GateOK(s, "engineering_execution")
  <2>1. CASE s = fine
    BY <1>1, <2>1 DEF Snapshot, StoredOK, GateOK, GuardOK, Cleared, PastErrors
  <2>2. CASE s = bad
    BY <1>1, <2>2, FailedFields DEF StoredOK, GateOK, GuardOK, PastErrors, Alike, ErrorSources
  <2> QED
    BY <1>2, <2>1, <2>2
<1>4. Fatal(s) \/ s.answer = "engineered"
  <2>1. bad.errs # {}
    BY <1>1, FailedFields DEF ErrorSources
  <2>2. fine.answer = "engineered"
    BY <1>1 DEF Snapshot
  <2> QED
    BY <1>2, <2>1, <2>2 DEF Fatal
<1>5. To(s) \in GraphNodes /\ GateOK(s, To(s))
  BY <1>3, <1>4, TurnAssumption DEF Fatal, FailedRoute, GraphNodes, GateOK, PastErrors, Snapshot,
     TurnAssumption
<1> QED
  BY <1>2, <1>3, <1>5, NodeStep DEF Engineering, IInv, TypeOK

\* context_governance_node.
LEMMA ContextGovernanceOK ==
  ASSUME IInv, NEW r \in Runs, ContextGovernance(r)
  PROVE  IInv'
<1>1. Snap(r) \in Snapshot /\ StoredOK(Snap(r)) /\ GateOK(Snap(r), "context_governance")
  BY NodeGets DEF ContextGovernance, GraphNodes
<1>2. GateOK(Snap(r), "reasoning_or_writing")
  BY <1>1 DEF GateOK, PastErrors
<1> QED
  BY <1>1, <1>2, NodeStep DEF ContextGovernance, GraphNodes, IInv, TypeOK

\* reasoning_or_writing_node: an answer goes on to verification when it passed.
LEMMA ReasoningOK ==
  ASSUME IInv, NEW r \in Runs, Reasoning(r)
  PROVE  IInv'
<1> DEFINE first == [Snap(r) EXCEPT !.status = "RUNNING", !.answer = "reasoned"]
           bad(counted) == [Failed(Snap(r), "other", counted) EXCEPT !.status = "RUNNING"]
           To(s) == IF s.guard = "fail" THEN "rejected" ELSE FailedRoute(s, "reasoning_or_writing")
<1>1. Snap(r) \in Snapshot /\ StoredOK(Snap(r)) /\ GateOK(Snap(r), "reasoning_or_writing")
  BY NodeGets DEF Reasoning, GraphNodes
<1>2. CASE \E s \in Guarded(first) : Save(s) /\ \E next \in AnswerRoutes(s) : Goes(r, s, next)
  <2>1. PICK s \in Guarded(first) : Save(s) /\ \E next \in AnswerRoutes(s) : Goes(r, s, next)
    BY <1>2
  <2>2. PICK next \in AnswerRoutes(s) : Goes(r, s, next)
    BY <2>1
  <2>3. first \in Snapshot /\ first.answer = "reasoned" /\ first.status = "RUNNING"
        /\ first.policy = Snap(r).policy /\ first.guard = Snap(r).guard /\ first.errs = Snap(r).errs
    BY <1>1 DEF Snapshot
  <2>4. /\ s \in Snapshot /\ s.answer = "reasoned" /\ s.status \in {"RUNNING", "REJECTED"}
        /\ (s.guard = "fail" /\ s.policy = "REJECT") \/ (s.guard = "pass" /\ s.policy = Snap(r).policy)
        /\ s.guard # "fail" => s.errs = Snap(r).errs
    <3> HIDE DEF first
    <3>1. first.guard \in {"none", "pass"}
      BY <1>1, <2>3 DEF GateOK, GuardOK, Snapshot
    <3> QED
      BY <2>1, <2>3, <3>1, GuardedFields
  <2>5. StoredOK(s)
    BY <2>4 DEF StoredOK
  <2>6. next \in GraphNodes /\ GateOK(s, next)
    BY <1>1, <2>2, <2>4 DEF AnswerRoutes, GraphNodes, GateOK, GuardOK, PastErrors
  <2> QED
    BY <2>1, <2>2, <2>4, <2>5, <2>6, NodeStep DEF Reasoning, IInv, TypeOK
<1>3. ASSUME NEW counted \in BOOLEAN, Save(bad(counted)), Goes(r, bad(counted), To(bad(counted)))
      PROVE  IInv'
  <2> DEFINE s == bad(counted)
  <2>1. s \in Snapshot /\ StoredOK(s) /\ GateOK(s, "reasoning_or_writing")
    BY <1>1, TriedFields DEF StoredOK, GateOK, GuardOK, PastErrors, Alike
  <2> HIDE DEF s
  <2>2. To(s) \in GraphNodes /\ GateOK(s, To(s))
    BY <2>1, TurnAssumption DEF FailedRoute, GraphNodes, GateOK, GuardOK, PastErrors, Snapshot,
       TurnAssumption
  <2>3. Save(s) /\ Goes(r, s, To(s))
    BY <1>3 DEF s
  <2> QED
    BY <2>1, <2>2, <2>3, NodeStep DEF Reasoning, IInv, TypeOK
<1> QED
  BY <1>2, <1>3 DEF Reasoning

\* verification_node: no answer with a review pending goes on to policy.
LEMMA VerificationOK ==
  ASSUME IInv, NEW r \in Runs, Verification(r)
  PROVE  IInv'
<1>1. Snap(r) \in Snapshot /\ StoredOK(Snap(r)) /\ GateOK(Snap(r), "verification")
  BY NodeGets DEF Verification, GraphNodes
<1>2. Decision(Snap(r)) \in GraphNodes /\ GateOK(Snap(r), Decision(Snap(r)))
  BY <1>1 DEF Decision, GraphNodes, GateOK, PastErrors, Snapshot
<1> QED
  BY <1>1, <1>2, NodeStep DEF Verification, IInv, TypeOK

\* policy_node: CONTINUE, or an exception with no result, goes on to output.
LEMMA PolicyOK ==
  ASSUME IInv, NEW r \in Runs, Policy(r)
  PROVE  IInv'
<1> DEFINE judged(p) == [Snap(r) EXCEPT !.status = "RUNNING", !.policy = p,
                                        !.review = p \in {"REVIEW", "ESCALATE"}]
           bad == Failed(Snap(r), "policy", TRUE)
<1>1. Snap(r) \in Snapshot /\ StoredOK(Snap(r)) /\ GateOK(Snap(r), "policy")
  BY NodeGets DEF Policy, GraphNodes
<1>2. ASSUME NEW p \in PolicyResults(Snap(r)), Save(judged(p)),
             Goes(r, judged(p), PolicyRoute(judged(p)))
      PROVE  IInv'
  <2> DEFINE s == judged(p)
  <2>1. p \in {"CONTINUE", "REVIEW", "ESCALATE", "REJECT"}
    BY DEF PolicyResults
  <2>2. s \in Snapshot /\ StoredOK(s)
    <3>1. (p \in {"REVIEW", "ESCALATE"}) \in BOOLEAN
      OBVIOUS
    <3>2. s \in Snapshot /\ s.status = "RUNNING"
      BY <1>1, <2>1, <3>1 DEF Snapshot
    <3> QED
      BY <3>2 DEF StoredOK
  <2>3. PolicyRoute(s) \in GraphNodes /\ GateOK(s, PolicyRoute(s))
    BY <1>1, <2>1 DEF PolicyRoute, GraphNodes, Snapshot, StoredOK, GateOK, GuardOK, Cleared, PastErrors
  <2> QED
    BY <1>2, <2>2, <2>3, NodeStep DEF Policy, IInv, TypeOK
<1>3. CASE UNCHANGED row /\ Goes(r, bad, PolicyRoute(bad))
  <2>1. bad \in Snapshot /\ StoredOK(bad)
    BY <1>1, FailedFields DEF StoredOK, ErrorSources
  <2>2. PolicyRoute(bad) \in GraphNodes /\ GateOK(bad, PolicyRoute(bad))
    BY <1>1 DEF Failed, PolicyRoute, GraphNodes, Snapshot, StoredOK, GateOK, GuardOK, Cleared, PastErrors
  <2> QED
    BY <1>3, <2>1, <2>2, NodeStep DEF Policy, IInv, TypeOK
<1> QED
  BY <1>2, <1>3 DEF Policy

\* output_node stores COMPLETED.
LEMMA OutputOK ==
  ASSUME IInv, NEW r \in Runs, Output(r)
  PROVE  IInv'
<1> DEFINE out == [Snap(r) EXCEPT !.status = IF @ = "REJECTED" THEN @ ELSE "COMPLETED"]
           bad == Failed(Snap(r), "other", TRUE)
<1>1. Snap(r) \in Snapshot /\ StoredOK(Snap(r)) /\ GateOK(Snap(r), "output")
  BY NodeGets DEF Output, GraphNodes
<1>2. PICK s \in {out, bad} : (Save(s) \/ UNCHANGED row) /\ Goes(r, s, "END")
  BY DEF Output
<1>3. s \in Snapshot /\ StoredOK(s) /\ GateOK(s, "END")
  <2>1. CASE s = out
    BY <1>1, <2>1 DEF TerminalProtect, Snapshot, StoredOK, GateOK, GuardOK, Cleared, PastErrors
  <2>2. CASE s = bad
    BY <1>1, <2>2, FailedFields DEF StoredOK, GateOK, GuardOK, PastErrors, Alike, ErrorSources
  <2> QED
    BY <1>2, <2>1, <2>2
<1> QED
  BY <1>2, <1>3, NodeStep DEF Output, GraphNodes, IInv, TypeOK

\* rejected_node.
LEMMA RejectedOK ==
  ASSUME IInv, NEW r \in Runs, Rejected(r)
  PROVE  IInv'
<1> DEFINE s == [Snap(r) EXCEPT !.status = "REJECTED"]
<1>1. Snap(r) \in Snapshot /\ StoredOK(Snap(r)) /\ GateOK(Snap(r), "rejected")
  BY NodeGets DEF Rejected, GraphNodes
<1>2. s \in Snapshot /\ StoredOK(s) /\ GateOK(s, "END")
  BY <1>1 DEF TerminalProtect, Snapshot, StoredOK, GateOK, GuardOK, Cleared, PastErrors
<1> QED
  BY <1>2, NodeStep DEF Rejected, GraphNodes, IInv, TypeOK

\* dead_letter_node stores DEAD_LETTER.
LEMMA DeadLetterOK ==
  ASSUME IInv, NEW r \in Runs, DeadLetter(r)
  PROVE  IInv'
<1> DEFINE s == [Snap(r) EXCEPT !.status = "DEAD_LETTER"]
<1>1. Snap(r) \in Snapshot /\ StoredOK(Snap(r)) /\ GateOK(Snap(r), "dead_letter")
  BY NodeGets DEF DeadLetter, GraphNodes
<1>2. s \in Snapshot /\ StoredOK(s) /\ GateOK(s, "END")
  BY <1>1 DEF TerminalProtect, Snapshot, StoredOK, GateOK, GuardOK, Cleared, PastErrors
<1> QED
  BY <1>2, NodeStep DEF DeadLetter, Enqueued, GraphNodes

\* Every node keeps the invariant.
LEMMA NodeOK ==
  ASSUME IInv, NEW r \in Runs, Node(r)
  PROVE  IInv'
BY IngressOK, PlanEnterOK, PlanOK, RetrievalOK, ToolExecutionOK, EngineeringOK,
   ContextGovernanceOK, ReasoningOK, VerificationOK, PolicyOK, OutputOK, RejectedOK,
   DeadLetterOK DEF Node

-----------------------------------------------------------------------------

\* A run that only moves between places outside of the graph.
LEMMA MoveOK ==
  ASSUME IInv, NEW r \in Runs, NEW x \in Run, x.at \notin GraphNodes \cup {"closing"},
         run' = [run EXCEPT ![r] = x], UNCHANGED <<row, late>>,
         dlq' \in {"none", "open", "resolved"}, active' \in Runs \cup {NoRun},
         mixed' \in BOOLEAN
  PROVE  IInv'
<1>1. RunOK(x)
  BY DEF RunOK
<1> QED
  BY <1>1, RunStep DEF IInv, TypeOK

\* The ways into the graph.
LEMMA StartOK ==
  ASSUME IInv, NEW r \in Runs,
         Submit(r) \/ RequeueGet(r) \/ RequeueMark(r) \/ StartTask(r) \/ SubmitReview(r)
  PROVE  IInv'
<1>0. run[r] \in Run /\ run \in [Runs -> Run] /\ row \in Snapshot /\ StoredOK(row) /\ TypeOK
      /\ late \in Snapshot /\ StoredOK(late)
  BY DEF IInv, TypeOK
<1>1. CASE Submit(r)
  <2> DEFINE x == [run[r] EXCEPT !.kind = "task", !.at = "start"]
  <2>1. x \in Run /\ x.at = "start" /\ run' = [run EXCEPT ![r] = x]
    BY <1>0, <1>1 DEF Submit, Run
  <2> QED
    BY <1>0, <1>1, <2>1, MoveOK DEF Submit, GraphNodes, TypeOK
<1>2. CASE RequeueGet(r)
  <2> DEFINE x == [run[r] EXCEPT !.kind = "requeue", !.at = "got"]
  <2>1. x \in Run /\ x.at = "got" /\ run' = [run EXCEPT ![r] = x]
    BY <1>0, <1>2 DEF RequeueGet, Run
  <2>2. mixed' \in BOOLEAN
    BY <1>0, <1>2 DEF RequeueGet, TypeOK
  <2> QED
    BY <1>0, <1>2, <2>1, <2>2, MoveOK DEF RequeueGet, GraphNodes, TypeOK
<1>3. CASE RequeueMark(r)
  <2> DEFINE x == [run[r] EXCEPT !.at = "start"]
  <2>1. x \in Run /\ x.at = "start" /\ run' = [run EXCEPT ![r] = x]
    BY <1>0, <1>3 DEF RequeueMark, Run
  <2> QED
    BY <1>0, <1>3, <2>1, MoveOK DEF RequeueMark, GraphNodes, TypeOK
<1>4. CASE StartTask(r)
  <2> DEFINE s == [Fresh EXCEPT !.owner = r]
             x == [run[r] EXCEPT !.snap = s, !.at = "event_classification"]
  <2>1. s \in Snapshot /\ StoredOK(s) /\ GateOK(s, "event_classification")
    BY FreshOK
  <2>2. row' = Saved(row, s) /\ run' = [run EXCEPT ![r].snap = s, ![r].at = "event_classification"]
    BY <1>4 DEF StartTask, Save
  <2> HIDE DEF s
  <2>3. x \in Run /\ RunOK(x) /\ run' = [run EXCEPT ![r] = x]
    BY <1>0, <2>1, <2>2 DEF Run, RunOK, GraphNodes
  <2>4. row' \in Snapshot /\ StoredOK(row')
    BY <1>0, <2>1, <2>2, SavedOK
  <2> QED
    BY <1>0, <1>4, <2>3, <2>4, RunStep DEF StartTask, TypeOK
<1>5. CASE SubmitReview(r)
  <2> DEFINE s == [row EXCEPT !.feedback = TRUE]
             x == [kind |-> "review", at |-> "event_classification", reset |-> FALSE, snap |-> s]
  <2>1. /\ s \in Snapshot /\ Alike(row, s) /\ s.status = "WAITING_REVIEW"
    BY <1>0, <1>5 DEF SubmitReview, Snapshot, Alike
  <2>2. GuardOK(row) /\ row.policy \notin {"CONTINUE", "REJECT"}
    BY <1>0, <1>5 DEF SubmitReview, StoredOK
  <2>3. run' = [run EXCEPT ![r] = x]
    BY <1>5 DEF SubmitReview
  <2> HIDE DEF s
  <2>4. StoredOK(s) /\ GateOK(s, "event_classification")
    BY <2>1, <2>2 DEF StoredOK, GateOK, GuardOK, Alike, PastErrors
  <2>5. x \in Run /\ RunOK(x)
    BY <2>1, <2>4 DEF Run, RunOK, GraphNodes
  <2> QED
    BY <1>0, <1>5, <2>3, <2>5, RunStep DEF SubmitReview, TypeOK
<1> QED
  BY <1>1, <1>2, <1>3, <1>4, <1>5

\* The ways out of it.
LEMMA RaiseOK ==
  ASSUME IInv, NEW r \in Runs, Raise(r)
  PROVE  IInv'
<1> DEFINE x == [run[r] EXCEPT !.at = "raised", !.snap = NoRow]
<1>1. run[r] \in Run /\ TypeOK
  BY DEF IInv, TypeOK
<1>2. x \in Run /\ x.at = "raised" /\ run' = [run EXCEPT ![r] = x]
  BY <1>1, NoRowOK DEF Raise, Run, TypeOK
<1>3. active' \in Runs \cup {NoRun}
  BY <1>1 DEF Raise, Deregistered, TypeOK
<1> QED
  BY <1>1, <1>2, <1>3, MoveOK DEF Raise, GraphNodes, TypeOK

\* A graph invoked again starts with a new state.
LEMMA CheckpointResetOK ==
  ASSUME IInv, NEW r \in Runs, CheckpointReset(r)
  PROVE  IInv'
<1> DEFINE s == [Fresh EXCEPT !.owner = r]
           x == [run[r] EXCEPT !.at = "event_classification", !.reset = TRUE, !.snap = s]
<1>1. run[r] \in Run /\ TypeOK /\ StoredOK(row) /\ StoredOK(late)
  BY DEF IInv, TypeOK
<1>2. s \in Snapshot /\ StoredOK(s) /\ GateOK(s, "event_classification")
  BY FreshOK
<1>3. run' = [run EXCEPT ![r].at = "event_classification", ![r].reset = TRUE, ![r].snap = s]
  BY DEF CheckpointReset
<1> HIDE DEF s
<1>4. x \in Run /\ RunOK(x) /\ run' = [run EXCEPT ![r] = x]
  BY <1>1, <1>2, <1>3 DEF Run, RunOK, GraphNodes, TypeOK
<1> QED
  BY <1>1, <1>4, RunStep DEF CheckpointReset, TypeOK

\* What a finished run stores: a state that stops for a review was guarded.
LEMMA PausedOK ==
  ASSUME NEW s \in Snapshot, StoredOK(s), s.policy = "REVIEW" => GuardOK(s), NEW t \in Paused(s)
  PROVE  t \in Snapshot /\ StoredOK(t)
<1>1. CASE t = s
  BY <1>1
<1>2. CASE s.policy = "REVIEW" /\ t = [s EXCEPT !.status = "WAITING_REVIEW", !.review = TRUE]
  <2>1. t \in Snapshot /\ Alike(s, t) /\ t.status = "WAITING_REVIEW"
    BY <1>2 DEF Snapshot, Alike
  <2> QED
    BY <1>2, <2>1 DEF StoredOK, GuardOK, Alike
<1>3. CASE t = Failed(s, "other", TRUE)
  BY <1>3, FailedFields DEF StoredOK, ErrorSources
<1> QED
  BY <1>1, <1>2, <1>3 DEF Paused

\* A turn is finalized.
LEMMA FinishOK ==
  ASSUME IInv, NEW r \in Runs, Finish(r)
  PROVE  IInv'
<1>1. run[r] \in Run /\ run \in [Runs -> Run] /\ TypeOK /\ StoredOK(row) /\ StoredOK(late)
  BY DEF IInv, TypeOK
<1>2. Snap(r) \in Snapshot /\ StoredOK(Snap(r)) /\ (Snap(r).policy = "REVIEW" => GuardOK(Snap(r)))
  BY NodeGets DEF Finish, At, GraphNodes, GateOK
<1>3. PICK s \in {Snap(r)} \cup Paused(Snap(r)) :
          Save(s) /\ run' = [run EXCEPT ![r].at = "closing", ![r].snap = Kept(s)]
  BY DEF Finish
<1>4. s \in Snapshot /\ StoredOK(s)
  BY <1>2, <1>3, PausedOK
<1>5. Kept(s) \in Snapshot /\ StoredOK(Kept(s))
  BY <1>4, KeptOK
<1>6. row' \in Snapshot /\ StoredOK(row')
  BY <1>1, <1>3, <1>4, SavedOK DEF Save, TypeOK
<1> DEFINE x == [run[r] EXCEPT !.at = "closing", !.snap = Kept(s)]
<1>7. x \in Run /\ RunOK(x) /\ run' = [run EXCEPT ![r] = x]
  BY <1>1, <1>3, <1>5 DEF Run, RunOK, GraphNodes
<1>8. active' \in Runs \cup {NoRun}
  BY <1>1 DEF Finish, Deregistered, TypeOK
<1> QED
  BY <1>1, <1>6, <1>7, <1>8, RunStep DEF Finish, TypeOK

\* The background closer saves what was finalized.
LEMMA CloseTurnOK ==
  ASSUME IInv, NEW r \in Runs, CloseTurn(r)
  PROVE  IInv'
<1> DEFINE s == [NoRow EXCEPT !.status = Snap(r).status]
           x == [run[r] EXCEPT !.at = "done", !.snap = s]
<1>1. run[r] \in Run /\ run \in [Runs -> Run] /\ TypeOK /\ StoredOK(row) /\ StoredOK(late)
  BY DEF IInv, TypeOK
<1>2. Snap(r) \in Snapshot /\ StoredOK(Snap(r))
  BY DEF IInv, TypeOK, CloseTurn, RunOK, Snap, Run
<1>3. row' \in Snapshot /\ StoredOK(row')
  BY <1>1, <1>2, SavedOK DEF CloseTurn, Save, TypeOK
<1>4. s \in Snapshot
  BY <1>2, NoRowOK DEF Snapshot
<1>5. run' = [run EXCEPT ![r].at = "done", ![r].snap = s]
  BY DEF CloseTurn
<1> HIDE DEF s
<1>6. x \in Run /\ RunOK(x) /\ run' = [run EXCEPT ![r] = x]
  BY <1>1, <1>4, <1>5 DEF Run, RunOK, GraphNodes
<1> QED
  BY <1>1, <1>3, <1>6, RunStep DEF CloseTurn, TypeOK

\* The review timeout service.
LEMMA TimeoutOK ==
  ASSUME IInv, TimeoutLoad \/ TimeoutSave
  PROVE  IInv'
<1>1. TypeOK /\ StoredOK(row) /\ StoredOK(late) /\ row \in Snapshot /\ late \in Snapshot
  BY DEF IInv, TypeOK
<1>2. CASE TimeoutLoad
  <2> DEFINE kept == [row EXCEPT !.policy = "REVIEW", !.review = TRUE]
             gone == [row EXCEPT !.policy = "REJECT", !.review = FALSE, !.status = "ABANDONED"]
  <2>1. kept \in Snapshot /\ kept.status = row.status /\ kept.guard = row.guard
        /\ kept.answer = row.answer /\ kept.policy = "REVIEW"
    BY <1>1 DEF Snapshot
  <2>2. StoredOK(kept)
    BY <1>1, <1>2, <2>1 DEF TimeoutLoad, StoredOK, GuardOK
  <2>3. gone \in Snapshot /\ gone.status = "ABANDONED"
    <3> DEFINE said == [row EXCEPT !.policy = "REJECT", !.review = FALSE]
    <3>1. said \in Snapshot /\ gone = [said EXCEPT !.status = "ABANDONED"]
      BY <1>1 DEF Snapshot
    <3> HIDE DEF said
    <3> QED
      BY <3>1 DEF Snapshot, TerminalProtect
  <2>4. StoredOK(gone)
    BY <2>3 DEF StoredOK
  <2>5. late' \in {kept, Kept(gone)}
    BY <1>2 DEF TimeoutLoad
  <2>6. late' \in Snapshot /\ StoredOK(late')
    BY <2>1, <2>2, <2>3, <2>4, <2>5, KeptOK
  <2> QED
    BY <1>2, <2>6 DEF TimeoutLoad, IInv, TypeOK
<1>3. CASE TimeoutSave
  <2>1. row' \in Snapshot /\ StoredOK(row')
    BY <1>1, <1>3, SavedOK DEF TimeoutSave, Save
  <2>2. late' \in Snapshot /\ StoredOK(late')
    BY <1>3, NoRowOK DEF TimeoutSave
  <2> QED
    BY <1>3, <2>1, <2>2 DEF TimeoutSave, IInv, TypeOK
<1> QED
  BY <1>2, <1>3

-----------------------------------------------------------------------------

\* The invariant holds at the start and is kept by every step.
THEOREM Invariance == Spec => []IInv
<1>1. Init => IInv
  <2> SUFFICES ASSUME Init PROVE IInv
    OBVIOUS
  <2>1. Idle \in Run /\ RunOK(Idle)
    BY NoRowOK DEF Idle, Run, RunOK, GraphNodes
  <2> QED
    BY <2>1, NoRowOK DEF Init, IInv, TypeOK
<1>2. IInv /\ [Next]_vars => IInv'
  <2> SUFFICES ASSUME IInv, [Next]_vars PROVE IInv'
    OBVIOUS
  <2>1. ASSUME NEW r \in Runs,
               \/ Submit(r) \/ RequeueGet(r) \/ RequeueMark(r) \/ StartTask(r)
               \/ SubmitReview(r) \/ Node(r) \/ Raise(r) \/ CheckpointReset(r) \/ Finish(r)
               \/ CloseTurn(r)
        PROVE  IInv'
    BY <2>1, StartOK, NodeOK, RaiseOK, CheckpointResetOK, FinishOK, CloseTurnOK
  <2>2. CASE UNCHANGED vars
    BY <2>2 DEF vars, IInv, TypeOK
  <2> QED
    BY <2>1, <2>2, TimeoutOK DEF Next
<1> QED
  BY <1>1, <1>2, PTL DEF Spec

\* The type invariant of the graph's runs and the stored state.
THEOREM TypeCorrect == Spec => []TypeOK
BY Invariance, PTL DEF IInv

\* No way through the routers, whatever the nodes decide and however often the
\* task is requeued or reviewed, ends in COMPLETED with an answer that guard and
\* policy have not cleared.
THEOREM CompletedIsClearedHolds == Spec => []CompletedIsCleared
<1>1. IInv => CompletedIsCleared
  BY DEF IInv, StoredOK, Cleared, CompletedIsCleared
<1> QED
  BY <1>1, Invariance, PTL

\* A turn in which planning, retrieval or engineering failed once is never stored
\* as COMPLETED.
THEOREM NoCompletionAfterErrorHolds == Spec => []NoCompletionAfterError
<1>1. IInv => NoCompletionAfterError
  BY DEF IInv, StoredOK, NoCompletionAfterError
<1> QED
  BY <1>1, Invariance, PTL

\* Only a turn that has used up MAX_RETRY_COUNT becomes a dead letter.
THEOREM DeadLetterMeansExhaustedHolds == Spec => []DeadLetterMeansExhausted
<1>1. IInv => DeadLetterMeansExhausted
  BY DEF IInv, StoredOK, DeadLetterMeansExhausted
<1> QED
  BY <1>1, Invariance, PTL

\* What COMPLETED and DEAD_LETTER promise, all at once.
THEOREM TurnCorrect == Spec => []TurnSound
BY TypeCorrect, CompletedIsClearedHolds, NoCompletionAfterErrorHolds,
   DeadLetterMeansExhaustedHolds, PTL DEF TurnSound

-----------------------------------------------------------------------------
(* Dead letters.  The entry that dead_letter_node makes is lost when a run *)
(* that is under way stores DEAD_LETTER after a requeue has marked the     *)
(* entry; the invariant says who is under way at that time.                *)

Begun == \E r \in Runs : run[r].kind = "task"

LetterInv ==
    /\ \A r \in Runs :
          /\ run[r].at = "idle" <=> run[r].kind = "none"
          /\ run[r].at = "got" => run[r].kind = "requeue"
          /\ run[r].kind = "requeue" => dlq # "none"
          /\ run[r].at \in {"END", "closing"} /\ run[r].snap.status = "DEAD_LETTER" =>
                dlq # "none" /\ (dlq = "open" \/ mixed)
    /\ ~ Begun =>
          /\ row.status = "NONE" /\ late.status = "NONE" /\ dlq = "none"
          /\ \A r \in Runs : run[r].kind = "none"
    /\ late.status # "DEAD_LETTER"
    /\ row.status = "DEAD_LETTER" => dlq # "none"
    /\ dlq # "none" => row.status \in TerminalProtect
    /\ ~ mixed =>
          \A r \in Runs : run[r].kind = "requeue" /\ ~ Over(r) => \A q \in Runs \ {r} : Over(q)
    /\ DeadLetterNotLost

\* Which status a save leaves behind.
LEMMA SavedStatus ==
  ASSUME NEW old \in Snapshot, NEW s \in Snapshot
  PROVE  /\ Kept(s).status = s.status
         /\ Saved(old, s).status \in {old.status, s.status}
         /\ s.status \in TerminalProtect => Saved(old, s).status = s.status
         /\ old.status \in TerminalProtect => Saved(old, s).status \in TerminalProtect
<1>1. NoRow \in Snapshot
  BY NoRowOK
<1>2. Kept(s).status = s.status
  BY <1>1 DEF Kept, Snapshot
<1> QED
  BY <1>2 DEF Saved

\* What a node does to a run and to the row; only dead_letter_node stores
\* DEAD_LETTER, and writes the entry.
LEMMA NodeWrites ==
  ASSUME IInv, NEW r \in Runs, Node(r)
  PROVE  /\ run[r].at \in GraphNodes
         /\ UNCHANGED <<active, late, mixed>>
         /\ \E s \in Snapshot, next \in GraphNodes :
               /\ Goes(r, s, next)
               /\ Save(s) \/ UNCHANGED row
               /\ \/ s.status # "DEAD_LETTER" /\ UNCHANGED dlq
                  \/ s.status = "DEAD_LETTER" /\ Save(s) /\ dlq' = "open"
<1>0. IInv' /\ run \in [Runs -> Run] /\ run[r] \in Run
  BY NodeOK DEF IInv, TypeOK
<1>1. ASSUME NEW s, NEW next \in GraphNodes \ {"END"}, Goes(r, s, next)
      PROVE  s \in Snapshot /\ s.status # "DEAD_LETTER"
  <2>1. run'[r].snap = s /\ run'[r].at = next
    BY <1>0, <1>1 DEF Goes, Run
  <2> QED
    BY <1>0, <1>1, <2>1 DEF IInv, TypeOK, Run, RunOK, GateOK
<1>2. CASE Ingress(r)
  BY <1>1, <1>2 DEF Ingress, At, GraphNodes
<1>3. CASE PlanEnter(r)
  BY <1>1, <1>3 DEF PlanEnter, At, GraphNodes
<1>4. CASE Plan(r)
  <2>1. PICK s : (\E next \in PlanRoutes(s) : Goes(r, s, next)) /\ Save(s)
    BY <1>4 DEF Plan
  <2>2. PlanRoutes(s) \subseteq GraphNodes \ {"END"}
    BY DEF PlanRoutes, FailedRoute, Onward, GraphNodes
  <2> QED
    BY <1>1, <1>4, <2>1, <2>2 DEF Plan, At, GraphNodes
<1>5. CASE Retrieval(r)
  <2>1. PICK s : Goes(r, s, RetrievalRoute(s)) /\ (Save(s) \/ UNCHANGED row)
    BY <1>5 DEF Retrieval
  <2>2. RetrievalRoute(s) \in GraphNodes \ {"END"}
    BY DEF RetrievalRoute, FailedRoute, Onward, GraphNodes
  <2> QED
    BY <1>1, <1>5, <2>1, <2>2 DEF Retrieval, At, GraphNodes
<1>6. CASE ToolExecution(r)
  <2>1. PICK s \in ToolStates(Snap(r)) \cup {[Failed(Snap(r), "other", TRUE) EXCEPT !.status = "RUNNING"]} :
           (\E next \in ToolRoutes(s) : Goes(r, s, next)) /\ (Save(s) \/ UNCHANGED row)
    BY <1>6 DEF ToolExecution
  <2>2. s.tool \in {"fine", "failed", "final"}
    <3>1. Snap(r) \in Snapshot
      BY <1>0 DEF Snap, Run
    <3>2. s \in Snapshot
      BY <2>1, <3>1, ToolFields, TriedFields
    <3> QED
      BY <3>2 DEF Snapshot
  <2>3. ToolRoutes(s) \subseteq GraphNodes \ {"END"}
    BY <2>2 DEF ToolRoutes, FailedRoute, GraphNodes
  <2> QED
    BY <1>1, <1>6, <2>1, <2>3 DEF ToolExecution, At, GraphNodes
<1>7. CASE Engineering(r)
  <2>1. PICK s : /\ Goes(r, s, IF Fatal(s) THEN FailedRoute(s, "engineering_execution") ELSE "policy")
                 /\ Save(s)
    BY <1>7 DEF Engineering
  <2>2. (IF Fatal(s) THEN FailedRoute(s, "engineering_execution") ELSE "policy") \in GraphNodes \ {"END"}
    BY DEF FailedRoute, GraphNodes
  <2> QED
    BY <1>1, <1>7, <2>1, <2>2 DEF Engineering, At, GraphNodes
<1>8. CASE ContextGovernance(r)
  BY <1>1, <1>8 DEF ContextGovernance, At, GraphNodes
<1>9. CASE Reasoning(r)
  <2>1. PICK s : /\ Save(s)
                 /\ \E next \in AnswerRoutes(s) \cup {"rejected", FailedRoute(s, "reasoning_or_writing")} :
                       Goes(r, s, next)
    BY <1>9 DEF Reasoning
  <2>2. AnswerRoutes(s) \cup {"rejected", FailedRoute(s, "reasoning_or_writing")}
           \subseteq GraphNodes \ {"END"}
    BY DEF AnswerRoutes, FailedRoute, GraphNodes
  <2> QED
    BY <1>1, <1>9, <2>1, <2>2 DEF Reasoning, At, GraphNodes
<1>10. CASE Verification(r)
  <2>1. Decision(Snap(r)) \in GraphNodes \ {"END"}
    BY DEF Decision, GraphNodes
  <2> QED
    BY <1>1, <1>10, <2>1 DEF Verification, At, GraphNodes
<1>11. CASE Policy(r)
  <2>1. PICK s \in {[Snap(r) EXCEPT !.status = "RUNNING", !.policy = p,
                                    !.review = p \in {"REVIEW", "ESCALATE"}] : p \in PolicyResults(Snap(r))}
                   \cup {Failed(Snap(r), "policy", TRUE)} :
           Goes(r, s, PolicyRoute(s)) /\ (Save(s) \/ UNCHANGED row)
    BY <1>11 DEF Policy
  <2>2. s.policy \in {"none", "CONTINUE", "REVIEW", "ESCALATE", "REJECT"}
    <3>1. Snap(r) \in Snapshot
      BY <1>0 DEF Snap, Run
    <3> QED
      <4>1. CASE s = Failed(Snap(r), "policy", TRUE)
        BY <3>1, <4>1, FailedFields DEF Snapshot, Alike, ErrorSources
      <4>2. ASSUME NEW p \in PolicyResults(Snap(r)),
                   s = [Snap(r) EXCEPT !.status = "RUNNING", !.policy = p,
                                       !.review = p \in {"REVIEW", "ESCALATE"}]
            PROVE  s.policy = p /\ p \in {"CONTINUE", "REVIEW", "ESCALATE", "REJECT"}
        BY <3>1, <4>2 DEF PolicyResults, Snapshot
      <4> QED
        BY <2>1, <4>1, <4>2
  <2>3. PolicyRoute(s) \in GraphNodes \ {"END"}
    BY <2>2 DEF PolicyRoute, GraphNodes
  <2> QED
    BY <1>1, <1>11, <2>1, <2>3 DEF Policy, At, GraphNodes
<1>12. CASE Output(r) \/ Rejected(r) \/ DeadLetter(r)
  <2>1. Snap(r) \in Snapshot /\ run[r].at \in {"output", "rejected", "dead_letter"} /\ run[r].snap = Snap(r)
    BY <1>0, <1>12 DEF Output, Rejected, DeadLetter, At, Snap, Run
  <2>2. PICK s : /\ Goes(r, s, "END")
                 /\ Save(s) \/ UNCHANGED row
                 /\ \/ s.status # "DEAD_LETTER" /\ UNCHANGED dlq
                    \/ s.status = "DEAD_LETTER" /\ Save(s) /\ dlq' = "open"
    <3>1. CASE Rejected(r)
      BY <2>1, <3>1 DEF Rejected, Snapshot
    <3>2. CASE DeadLetter(r)
      BY <2>1, <3>2 DEF DeadLetter, Enqueued, Snapshot
    <3>3. CASE Output(r)
      <4>1. /\ [Snap(r) EXCEPT !.status = IF @ = "REJECTED" THEN @ ELSE "COMPLETED"].status # "DEAD_LETTER"
            /\ Failed(Snap(r), "other", TRUE).status # "DEAD_LETTER"
        BY <2>1, FailedFields DEF Snapshot, ErrorSources
      <4> QED
        BY <3>3, <4>1, Zenon DEF Output
    <3> QED
      BY <1>12, <3>1, <3>2, <3>3
  <2>3. s \in Snapshot
    <3>1. run'[r].snap = s
      BY <1>0, <2>2 DEF Goes, Run
    <3> QED
      BY <1>0, <3>1 DEF IInv, TypeOK, Run
  <2> QED
    BY <1>12, <2>1, <2>2, <2>3 DEF Output, Rejected, DeadLetter, GraphNodes
<1> QED
  BY <1>2, <1>3, <1>4, <1>5, <1>6, <1>7, <1>8, <1>9, <1>10, <1>11, <1>12 DEF Node

\* A step of a run that is under way keeps what is said of dead letters, if it
\* stores DEAD_LETTER, or ends with it, only while the entry is open.
LEMMA RunWrites ==
  ASSUME IInv, LetterInv, NEW r \in Runs, NEW x \in Run, ~ Over(r),
         run' = [run EXCEPT ![r] = x], x.kind = run[r].kind, x.at \notin {"idle", "got"},
         UNCHANGED <<late, mixed>>,
         dlq' \in {dlq, "open"} \/ (run[r].kind = "requeue" /\ x.at = "start" /\ dlq' = "resolved"),
         dlq # "none" => dlq' # "none",
         dlq' # "none" => row'.status \in TerminalProtect,
         row'.status = "DEAD_LETTER" => row.status = "DEAD_LETTER" \/ (dlq' # "none" /\ (dlq' = "open" \/ mixed)),
         x.at \in {"END", "closing"} /\ x.snap.status = "DEAD_LETTER" =>
             dlq' # "none" /\ (dlq' = "open" \/ mixed),
         x.at = "done" /\ x.snap.status \in TerminalProtect /\ row'.status = "DEAD_LETTER" =>
             dlq' = "open" \/ mixed
  PROVE  LetterInv'
<1>0. /\ run \in [Runs -> Run]
      /\ run'[r] = x
      /\ \A q \in Runs \ {r} : run'[q] = run[q]
      /\ \A q \in Runs : run'[q].kind = run[q].kind
  BY DEF IInv, TypeOK
<1>1. run[r].kind # "none" /\ run[r].at \notin {"idle", "done", "raised"}
  BY DEF LetterInv, Over
<1>2. Begun'
  BY <1>0, <1>1 DEF LetterInv, Begun
<1>3. ASSUME NEW q \in Runs
      PROVE  /\ run'[q].at = "idle" <=> run'[q].kind = "none"
             /\ run'[q].at = "got" => run'[q].kind = "requeue"
             /\ run'[q].kind = "requeue" => dlq' # "none"
  BY <1>0, <1>1 DEF LetterInv
<1>4. ~ mixed' =>
         \A q \in Runs : run'[q].kind = "requeue" /\ ~ Over(q)' => \A p \in Runs \ {q} : Over(p)'
  <2> SUFFICES ASSUME ~ mixed, NEW q \in Runs, run[q].kind = "requeue", ~ Over(q)',
                      NEW p \in Runs \ {q}
               PROVE  Over(p)'
    BY <1>0
  <2>1. CASE q = r
    BY <1>0, <2>1 DEF LetterInv, Over
  <2>2. CASE q # r
    <3>1. ~ Over(q)
      BY <1>0, <2>2 DEF Over
    <3> QED
      BY <2>2, <3>1 DEF LetterInv
  <2> QED
    BY <2>1, <2>2
<1>5. ASSUME NEW q \in Runs, run'[q].at \in {"END", "closing"}, run'[q].snap.status = "DEAD_LETTER"
      PROVE  dlq' # "none" /\ (dlq' = "open" \/ mixed')
  <2>1. CASE q = r
    BY <1>0, <1>5, <2>1
  <2>2. CASE q # r
    <3>1. /\ dlq # "none" /\ (dlq = "open" \/ mixed) /\ ~ Over(q)
      BY <1>0, <1>5, <2>2 DEF LetterInv, Over
    <3>2. mixed \/ run[r].kind # "requeue"
      BY <2>2, <3>1 DEF LetterInv
    <3> QED
      BY <3>1, <3>2
  <2> QED
    BY <2>1, <2>2
<1>6. DeadLetterNotLost'
  <2> SUFFICES ASSUME row'.status = "DEAD_LETTER", dlq' # "open", ~ mixed
               PROVE  \E q \in Runs :
                         /\ run'[q].kind = "requeue"
                         /\ \/ ~ Over(q)'
                            \/ run'[q].at = "raised"
                            \/ run'[q].snap.status \notin TerminalProtect
    BY DEF DeadLetterNotLost
  <2>1. CASE run[r].kind = "requeue" /\ x.at = "start" /\ dlq' = "resolved"
    BY <1>0, <2>1 DEF Over
  <2>2. CASE dlq' = dlq
    <3>1. row.status = "DEAD_LETTER" /\ dlq # "open"
      BY <2>2
    <3>2. PICK q \in Runs :
             /\ run[q].kind = "requeue"
             /\ \/ ~ Over(q)
                \/ run[q].at = "raised"
                \/ run[q].snap.status \notin TerminalProtect
      BY <3>1 DEF LetterInv, DeadLetterNotLost
    <3>3. CASE q # r
      BY <1>0, <3>2, <3>3 DEF Over
    <3>4. CASE q = r /\ x.at = "done"
      BY <1>0, <3>2, <3>4
    <3>5. CASE q = r /\ x.at # "done"
      BY <1>0, <3>2, <3>5 DEF Over
    <3> QED
      BY <3>3, <3>4, <3>5
  <2> QED
    BY <2>1, <2>2
<1>7. late'.status # "DEAD_LETTER" /\ (row'.status = "DEAD_LETTER" => dlq' # "none")
  BY DEF LetterInv
<1> QED
  BY <1>2, <1>3, <1>4, <1>5, <1>6, <1>7 DEF LetterInv

\* A run enters the graph.
LEMMA LetterStart ==
  ASSUME IInv, LetterInv, NEW r \in Runs, Submit(r) \/ RequeueGet(r) \/ SubmitReview(r)
  PROVE  LetterInv'
<1>0. run \in [Runs -> Run] /\ run[r].at = "idle" /\ run[r].kind = "none" /\ run[r] \in Run
  BY DEF IInv, TypeOK, Submit, RequeueGet, SubmitReview, LetterInv
<1>1. CASE Submit(r)
  <2>1. /\ run' = [run EXCEPT ![r] = [run[r] EXCEPT !.kind = "task", !.at = "start"]]
        /\ UNCHANGED <<row, dlq, late, mixed>>
    BY <1>0, <1>1 DEF Submit, Run
  <2>2. /\ run'[r].kind = "task" /\ run'[r].at = "start" /\ run'[r].snap = run[r].snap
        /\ \A q \in Runs \ {r} : run'[q] = run[q]
    BY <1>0, <2>1 DEF Run
  <2>3. dlq = "none" /\ row.status # "DEAD_LETTER" /\ \A q \in Runs : run[q].kind = "none"
    BY <1>1 DEF Submit, Begun, LetterInv
  <2> QED
    BY <1>0, <2>1, <2>2, <2>3 DEF LetterInv, Begun, DeadLetterNotLost, Over
<1>2. CASE RequeueGet(r)
  <2>1. /\ run' = [run EXCEPT ![r] = [run[r] EXCEPT !.kind = "requeue", !.at = "got"]]
        /\ UNCHANGED <<row, dlq, late>> /\ dlq = "open"
        /\ mixed' = (mixed \/ \E q \in Runs : ~ Over(q))
    BY <1>0, <1>2 DEF RequeueGet, Run
  <2>2. /\ run'[r].kind = "requeue" /\ run'[r].at = "got"
        /\ \A q \in Runs \ {r} : run'[q] = run[q]
    BY <1>0, <2>1 DEF Run
  <2>3. Begun'
    BY <1>0, <2>1, <2>2 DEF LetterInv, Begun
  <2>4. ~ mixed' => \A q \in Runs : Over(q)
    BY <2>1
  <2>5. ~ mixed' =>
         \A q \in Runs : run'[q].kind = "requeue" /\ ~ Over(q)' => \A p \in Runs \ {q} : Over(p)'
    BY <2>2, <2>4 DEF Over
  <2>6. DeadLetterNotLost'
    BY <2>1 DEF DeadLetterNotLost
  <2> QED
    BY <1>0, <2>1, <2>2, <2>3, <2>5, <2>6 DEF LetterInv
<1>3. CASE SubmitReview(r)
  <2>1. /\ run' = [run EXCEPT ![r] = [kind |-> "review", at |-> "event_classification",
                                      reset |-> FALSE, snap |-> [row EXCEPT !.feedback = TRUE]]]
        /\ UNCHANGED <<row, dlq, late, mixed>> /\ row.status = "WAITING_REVIEW"
    BY <1>3 DEF SubmitReview
  <2>2. /\ run'[r].kind = "review" /\ run'[r].at = "event_classification"
        /\ \A q \in Runs \ {r} : run'[q] = run[q]
    BY <1>0, <2>1
  <2>3. dlq = "none" /\ Begun
    BY <2>1 DEF LetterInv, TerminalProtect
  <2>4. Begun'
    BY <1>0, <2>2, <2>3 DEF Begun
  <2>5. \A q \in Runs : run'[q].kind # "requeue"
    BY <2>2, <2>3 DEF LetterInv
  <2> QED
    BY <1>0, <2>1, <2>2, <2>3, <2>4, <2>5 DEF LetterInv, DeadLetterNotLost
<1> QED
  BY <1>1, <1>2, <1>3

\* A run is under way: its node, its marking of the dead letter, its start and
\* its end.
LEMMA LetterRun ==
  ASSUME IInv, LetterInv, NEW r \in Runs,
         \/ Node(r) \/ RequeueMark(r) \/ StartTask(r) \/ Raise(r) \/ CheckpointReset(r)
         \/ Finish(r) \/ CloseTurn(r)
  PROVE  LetterInv'
<1>0. run \in [Runs -> Run] /\ run[r] \in Run /\ row \in Snapshot /\ Snap(r) \in Snapshot
      /\ run[r].snap = Snap(r)
  BY DEF IInv, TypeOK, Run, Snap
<1>1. CASE Node(r)
  <2>1. PICK s \in Snapshot, next \in GraphNodes :
           /\ Goes(r, s, next)
           /\ Save(s) \/ UNCHANGED row
           /\ \/ s.status # "DEAD_LETTER" /\ UNCHANGED dlq
              \/ s.status = "DEAD_LETTER" /\ Save(s) /\ dlq' = "open"
    BY <1>1, NodeWrites
  <2>2. run[r].at \in GraphNodes /\ UNCHANGED <<active, late, mixed>>
    BY <1>1, NodeWrites
  <2> DEFINE x == [run[r] EXCEPT !.snap = s, !.at = next]
  <2>3. /\ x \in Run /\ run' = [run EXCEPT ![r] = x] /\ x.kind = run[r].kind /\ x.at = next
        /\ x.snap = s
    BY <1>0, <2>1 DEF Goes, Run
  <2>4. row'.status \in {row.status, s.status} /\ (row.status \in TerminalProtect => row'.status \in TerminalProtect)
    BY <1>0, <2>1, SavedStatus DEF Save
  <2>5. s.status = "DEAD_LETTER" => row'.status = "DEAD_LETTER"
    BY <1>0, <2>1, SavedStatus DEF Save, TerminalProtect
  <2>6. dlq' # "none" => row'.status \in TerminalProtect
    BY <2>1, <2>4, <2>5 DEF LetterInv, TerminalProtect
  <2>7. ~ Over(r) /\ next \notin {"idle", "got", "done"}
    BY <2>2 DEF Over, GraphNodes
  <2>8. row'.status = "DEAD_LETTER" => row.status = "DEAD_LETTER" \/ dlq' = "open"
    BY <2>1, <2>4
  <2>9. dlq' \in {dlq, "open"} /\ (dlq # "none" => dlq' # "none")
    BY <2>1
  <2>10. s.status = "DEAD_LETTER" => dlq' = "open"
    BY <2>1
  <2> HIDE DEF x
  <2> QED
    BY <2>2, <2>3, <2>6, <2>7, <2>8, <2>9, <2>10, RunWrites
<1>2. CASE RequeueMark(r)
  <2> DEFINE x == [run[r] EXCEPT !.at = "start"]
  <2>1. /\ x \in Run /\ run' = [run EXCEPT ![r] = x] /\ x.kind = run[r].kind /\ x.at = "start"
        /\ run[r].at = "got" /\ dlq' = "resolved" /\ UNCHANGED <<row, late, mixed>>
    BY <1>0, <1>2 DEF RequeueMark, Run
  <2>2. run[r].kind = "requeue" /\ row.status \in TerminalProtect /\ ~ Over(r)
    BY <2>1 DEF LetterInv, Over
  <2> HIDE DEF x
  <2> QED
    BY <2>1, <2>2, RunWrites
<1>3. CASE StartTask(r) \/ CheckpointReset(r)
  <2> DEFINE s == [Fresh EXCEPT !.owner = r]
             k == IF StartTask(r) THEN run[r].reset ELSE TRUE
             x == [run[r] EXCEPT !.at = "event_classification", !.reset = k, !.snap = s]
  <2>1. s \in Snapshot /\ s.status = "RUNNING"
    BY FreshOK DEF Fresh
  <2>2. k \in BOOLEAN
    BY <1>0 DEF Run
  <2>3. /\ run' = [run EXCEPT ![r] = x]
        /\ row' = Saved(row, s) \/ UNCHANGED row
        /\ UNCHANGED <<dlq, late, mixed>> /\ ~ Over(r)
    <3>1. CASE StartTask(r)
      <4>1. k = run[r].reset
        BY <3>1
      <4>2. run' = [run EXCEPT ![r].snap = s, ![r].at = "event_classification"]
        BY <3>1 DEF StartTask
      <4> HIDE DEF s, k
      <4>3. run' = [run EXCEPT ![r] = x]
        BY <1>0, <4>1, <4>2 DEF Run
      <4> QED
        BY <3>1, <4>3 DEF StartTask, Save, Over, s
    <3>2. CASE CheckpointReset(r) /\ ~ StartTask(r)
      <4>1. k = TRUE
        BY <3>2
      <4>2. run' = [run EXCEPT ![r].at = "event_classification", ![r].reset = TRUE, ![r].snap = s]
        BY <3>2 DEF CheckpointReset
      <4> HIDE DEF s, k
      <4>3. run' = [run EXCEPT ![r] = x]
        BY <1>0, <4>1, <4>2 DEF Run
      <4> QED
        BY <3>2, <4>3 DEF CheckpointReset, Over, GraphNodes
    <3> QED
      BY <1>3, <3>1, <3>2
  <2> HIDE DEF s, k
  <2>4. /\ row'.status \in {row.status, s.status}
        /\ row.status \in TerminalProtect => row'.status \in TerminalProtect
    BY <1>0, <2>1, <2>3, SavedStatus
  <2>5. x \in Run /\ x.kind = run[r].kind /\ x.at = "event_classification" /\ x.snap = s
    BY <1>0, <2>1, <2>2 DEF Run, GraphNodes
  <2>6. dlq' # "none" => row'.status \in TerminalProtect
    BY <2>3, <2>4 DEF LetterInv
  <2>7. row'.status = "DEAD_LETTER" => row.status = "DEAD_LETTER"
    BY <2>1, <2>4
  <2> HIDE DEF x
  <2> QED
    BY <2>3, <2>5, <2>6, <2>7, RunWrites
<1>4. CASE Raise(r)
  <2> DEFINE x == [run[r] EXCEPT !.at = "raised", !.snap = NoRow]
  <2>1. /\ x \in Run /\ run' = [run EXCEPT ![r] = x] /\ x.kind = run[r].kind /\ x.at = "raised"
        /\ ~ Over(r) /\ UNCHANGED <<row, dlq, late, mixed>>
    BY <1>0, <1>4, NoRowOK DEF Raise, Run, Over, GraphNodes
  <2>2. dlq' # "none" => row'.status \in TerminalProtect
    BY <2>1 DEF LetterInv
  <2> HIDE DEF x
  <2> QED
    BY <2>1, <2>2, RunWrites
<1>5. CASE Finish(r)
  <2>1. PICK s \in {Snap(r)} \cup Paused(Snap(r)) :
           Save(s) /\ run' = [run EXCEPT ![r].at = "closing", ![r].snap = Kept(s)]
    BY <1>5 DEF Finish
  <2>2. /\ s \in Snapshot
        /\ s.status = "DEAD_LETTER" => Snap(r).status = "DEAD_LETTER"
    <3>1. CASE s = Snap(r)
      BY <1>0, <3>1
    <3>2. CASE s = [Snap(r) EXCEPT !.status = "WAITING_REVIEW", !.review = TRUE]
      BY <1>0, <3>2 DEF Snapshot
    <3>3. CASE s = Failed(Snap(r), "other", TRUE)
      BY <1>0, <3>3, FailedFields DEF ErrorSources
    <3> QED
      BY <2>1, <3>1, <3>2, <3>3 DEF Paused
  <2>3. Kept(s) \in Snapshot /\ Kept(s).status = s.status
    <3>1. Snap(r).policy = "REVIEW" => GuardOK(Snap(r))
      BY <1>5, NodeGets DEF Finish, At, GraphNodes, GateOK
    <3>2. StoredOK(s)
      BY <1>0, <1>5, <2>1, <3>1, NodeGets, PausedOK DEF Finish, At, GraphNodes
    <3> QED
      BY <1>0, <2>2, <3>2, KeptOK, SavedStatus
  <2> DEFINE x == [run[r] EXCEPT !.at = "closing", !.snap = Kept(s)]
  <2>4. /\ x \in Run /\ run' = [run EXCEPT ![r] = x] /\ x.kind = run[r].kind /\ x.at = "closing"
        /\ x.snap.status = s.status /\ UNCHANGED <<dlq, late, mixed>> /\ ~ Over(r)
    BY <1>0, <1>5, <2>1, <2>3 DEF Finish, Run, Over, GraphNodes
  <2>5. s.status = "DEAD_LETTER" => dlq # "none" /\ (dlq = "open" \/ mixed)
    <3> SUFFICES ASSUME s.status = "DEAD_LETTER" PROVE dlq # "none" /\ (dlq = "open" \/ mixed)
      OBVIOUS
    <3>1. run[r].at = "END"
      BY <1>5, <2>2, NodeGets DEF Finish, At, GraphNodes, GateOK
    <3> QED
      BY <1>0, <2>2, <3>1 DEF LetterInv
  <2>6. /\ row'.status \in {row.status, s.status}
        /\ row.status \in TerminalProtect => row'.status \in TerminalProtect
    BY <1>0, <2>1, <2>2, SavedStatus DEF Save
  <2>7. dlq' # "none" => row'.status \in TerminalProtect
    BY <2>4, <2>6 DEF LetterInv
  <2>8. row'.status = "DEAD_LETTER" =>
           row.status = "DEAD_LETTER" \/ (dlq' # "none" /\ (dlq' = "open" \/ mixed))
    BY <2>4, <2>5, <2>6
  <2> HIDE DEF x
  <2> QED
    BY <2>4, <2>5, <2>7, <2>8, RunWrites
<1>6. CASE CloseTurn(r)
  <2> DEFINE s == [NoRow EXCEPT !.status = Snap(r).status]
             x == [run[r] EXCEPT !.at = "done", !.snap = s]
  <2>1. s \in Snapshot /\ s.status = Snap(r).status
    BY <1>0, NoRowOK DEF Snapshot
  <2>2. run' = [run EXCEPT ![r].at = "done", ![r].snap = s]
    BY <1>6 DEF CloseTurn
  <2> HIDE DEF s
  <2>3. /\ x \in Run /\ run' = [run EXCEPT ![r] = x] /\ x.kind = run[r].kind /\ x.at = "done"
        /\ x.snap = s
    BY <1>0, <2>1, <2>2 DEF Run
  <2>4. /\ run[r].at = "closing" /\ ~ Over(r) /\ row' = Saved(row, Snap(r))
        /\ UNCHANGED <<dlq, late, mixed>>
    BY <1>6 DEF CloseTurn, Over, Save
  <2>5. /\ row'.status \in {row.status, s.status}
        /\ row.status \in TerminalProtect => row'.status \in TerminalProtect
        /\ s.status \in TerminalProtect => row'.status = s.status
    BY <1>0, <2>1, <2>4, SavedStatus
  <2>6. s.status = "DEAD_LETTER" => dlq # "none" /\ (dlq = "open" \/ mixed)
    BY <1>0, <2>1, <2>4 DEF LetterInv
  <2>7. dlq' # "none" => row'.status \in TerminalProtect
    BY <2>4, <2>5 DEF LetterInv
  <2>8. row'.status = "DEAD_LETTER" =>
           row.status = "DEAD_LETTER" \/ (dlq' # "none" /\ (dlq' = "open" \/ mixed))
    BY <2>4, <2>5, <2>6
  <2>9. s.status \in TerminalProtect /\ row'.status = "DEAD_LETTER" => dlq' = "open" \/ mixed
    BY <2>4, <2>5, <2>6
  <2> HIDE DEF x
  <2> QED
    BY <2>3, <2>4, <2>7, <2>8, <2>9, RunWrites
<1> QED
  BY <1>1, <1>2, <1>3, <1>4, <1>5, <1>6

\* The service that expires reviews never makes a dead letter.
LEMMA LetterTimeout ==
  ASSUME IInv, LetterInv, TimeoutLoad \/ TimeoutSave
  PROVE  LetterInv'
<1>0. row \in Snapshot /\ late \in Snapshot
  BY DEF IInv, TypeOK
<1>1. CASE TimeoutLoad
  <2>1. UNCHANGED <<row, dlq, active, run, mixed>> /\ row.status = "WAITING_REVIEW"
    BY <1>1 DEF TimeoutLoad
  <2>2. late'.status # "DEAD_LETTER"
    <3> DEFINE said == [row EXCEPT !.policy = "REJECT", !.review = FALSE]
               gone == [row EXCEPT !.policy = "REJECT", !.review = FALSE, !.status = "ABANDONED"]
    <3>1. said \in Snapshot /\ gone = [said EXCEPT !.status = "ABANDONED"]
      BY <1>0 DEF Snapshot
    <3>2. gone \in Snapshot /\ gone.status = "ABANDONED"
      <4> HIDE DEF said
      <4> QED
        BY <3>1 DEF Snapshot, TerminalProtect
    <3>3. Kept(gone).status = "ABANDONED"
      BY <3>2, SavedStatus
    <3>4. [row EXCEPT !.policy = "REVIEW", !.review = TRUE].status = row.status
      BY <1>0 DEF Snapshot
    <3>5. late' \in {[row EXCEPT !.policy = "REVIEW", !.review = TRUE], Kept(gone)}
      BY <1>1 DEF TimeoutLoad
    <3> HIDE DEF gone
    <3> QED
      BY <2>1, <3>3, <3>4, <3>5
  <2>3. Begun
    BY <2>1 DEF LetterInv
  <2>4. Begun' /\ DeadLetterNotLost'
    BY <2>1, <2>3 DEF Begun, DeadLetterNotLost, LetterInv, Over
  <2> QED
    BY <2>1, <2>2, <2>4 DEF LetterInv, Over
<1>2. CASE TimeoutSave
  <2>1. row' = Saved(row, late) /\ late' = NoRow /\ UNCHANGED <<dlq, active, run, mixed>>
    BY <1>2 DEF TimeoutSave, Save
  <2>2. /\ row'.status \in {row.status, late.status}
        /\ row.status \in TerminalProtect => row'.status \in TerminalProtect
    BY <1>0, <2>1, SavedStatus
  <2>3. late'.status = "NONE"
    BY <2>1, NoRowOK DEF NoRow, Fresh, Snapshot
  <2>4. row'.status = "DEAD_LETTER" => row.status = "DEAD_LETTER"
    BY <2>2 DEF LetterInv
  <2>5. DeadLetterNotLost'
    BY <2>1, <2>4 DEF DeadLetterNotLost, LetterInv, Over
  <2> QED
    BY <2>1, <2>2, <2>3, <2>4, <2>5 DEF LetterInv, Over, Begun
<1> QED
  BY <1>1, <1>2

\* A dead letter that nobody works on can be requeued: the entry is only lost to
\* a run that was ended by an exception, that stopped for a review, or that was
\* requeued while another run of the task was still under way, for every number
\* of runs, requeues, reviews and timeouts.
THEOREM DeadLetterNotLostHolds == Spec => []DeadLetterNotLost
<1>1. Init => LetterInv
  BY DEF Init, LetterInv, Idle, NoRow, Fresh, DeadLetterNotLost
<1>2. IInv /\ LetterInv /\ [Next]_vars => LetterInv'
  <2> SUFFICES ASSUME IInv, LetterInv, [Next]_vars PROVE LetterInv'
    OBVIOUS
  <2>1. ASSUME NEW r \in Runs,
               \/ Submit(r) \/ RequeueGet(r) \/ RequeueMark(r) \/ StartTask(r)
               \/ SubmitReview(r) \/ Node(r) \/ Raise(r) \/ CheckpointReset(r) \/ Finish(r)
               \/ CloseTurn(r)
        PROVE  LetterInv'
    BY <2>1, LetterStart, LetterRun
  <2>2. CASE UNCHANGED vars
    BY <2>2 DEF vars, LetterInv, Begun, Over, DeadLetterNotLost
  <2> QED
    BY <2>1, <2>2, LetterTimeout DEF Next
<1>3. LetterInv => DeadLetterNotLost
  BY DEF LetterInv
<1> QED
  BY <1>1, <1>2, <1>3, Invariance, PTL DEF Spec
=============================================================================
