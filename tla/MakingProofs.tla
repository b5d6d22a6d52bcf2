---------------------------- MODULE MakingProofs ----------------------------
(***************************************************************************)
(* What a turn makes, for every value of the constants: the deliveries of  *)
(* the engineering node, the supervisor and its subtasks, and the files of *)
(* a session with the tools that work on them.                             *)
(* Each part has an inductive invariant of its own; the state of the other *)
(* parts does not matter, for a behaviour belongs to one of them.          *)
(***************************************************************************)
EXTENDS MCMaking, Integers, FiniteSets, Sequences, FiniteSetTheorems, TLAPS

-----------------------------------------------------------------------------
(* Deliveries (Engineering): v1 is the run of every task, v2 the free      *)
(* slots, v3 the verifications of tools, v4 the requests.                  *)

MakerPoints == {"idle", "plan", "write", "read", "verify", "running", "decide", "minimal", "llm",
                "rewrite", "final", "compile", "done"}
Issues == {"not_started", "empty_goal", "verify_skipped_budget", "no_files_written",
           "no_backend_for_intent", "verify_concurrency_limit", "verify_exception", "exit_code", ""}
Trees == [G!FileKinds -> {"none", "empty", "bad", "good"}]
Verdicts == [ok : BOOLEAN, status : {"skipped", "degraded", "failed", "ok"}, issue : Issues,
             version : Nat]
IntentKinds == {"interactive_app", "small_project", "code", "general"}
BackendNames == G!FileKinds \cup {""}
MakerRows == [at : MakerPoints, used : Nat, attempts : Nat, intent : IntentKinds,
              backend : BackendNames, tree : Trees, version : Nat, plan : Trees,
              written : BOOLEAN, verdict : Verdicts, minimal : BOOLEAN, code : BOOLEAN,
              out : {"none", "REASONED", "FAILED", "PAUSED", "CANCELLED"}]

HasBackend(name) == name # ""

\* The verdict was given for the files as they are, or says it was skipped.
Judged(r) ==
    /\ r.verdict.ok \/ r.verdict.status # "skipped" => r.verdict.version = r.version
    /\ r.verdict.ok => HasBackend(r.backend) /\ G!Compiles(r.tree, r.backend)

\* A run between two steps.  While files are rewritten no verdict is ok; what
\* is delivered without being judged has failed on an exhausted budget.
MakerSound(r) ==
    /\ r \in MakerRows
    /\ r.at = "idle" => ~r.code
    /\ r.at = "compile" => r.code
    /\ r.code => r.at \in {"compile", "done"}
    /\ r.at = "running" => HasBackend(r.backend)
    /\ r.at \in {"minimal", "llm", "rewrite"} => ~r.verdict.ok
    /\ r.at = "decide" => Judged(r)
    /\ r.at = "final" => Judged(r) \/ (G!Exhausted(r) /\ ~r.verdict.ok)
    /\ r.at = "done" /\ r.out = "REASONED" =>
          /\ r.verdict.status \in {"ok", "failed"} /\ ~r.code => r.verdict.version = r.version
          /\ r.verdict.ok /\ ~r.code => HasBackend(r.backend) /\ G!Compiles(r.tree, r.backend)
          /\ r.verdict.ok /\ r.code => r.tree["cpp"] = "good"

\* The verifications that hold a slot, beside those of the tools.
Running == {t \in Makers : v1[t].at = "running"}

SlotsSound ==
    /\ v2 \in Nat /\ v3 \in Nat
    /\ IsFiniteSet(Running)
    /\ v2 + v3 + Cardinality(Running) = VerifySlots

EngineeringState ==
    /\ v1 = [t \in Makers |-> v1[t]] /\ \A t \in Makers : MakerSound(v1[t])
    /\ v4 \in [Makers -> {"none", "PAUSED", "CANCELLED"}]
    /\ SlotsSound

EngineeringInv == part = "engineering" => EngineeringState

-----------------------------------------------------------------------------
(* The supervisor (Supervisor): v1 is the task, v2 its threads, v3 the     *)
(* batch, v6 and v7 count the runs and the completed ones.                 *)

TaskPoints == {"decompose", "work", "merge", "compensate", "synthesize", "policy"}
TaskRows == [at : TaskPoints, status : {"PENDING", "PLANNED", "FAILED", "REASONED"},
             subs : SUBSET Subtasks, row : [Subtasks -> {"PENDING"} \cup P!Outcomes],
             compensated : SUBSET Subtasks, result : [Subtasks -> {"none"} \cup P!Outcomes],
             answer : {"none", "merged", "degraded"}]
ThreadRows == [at : {"idle", "here", "there", "done"}, tries : Nat,
               outcome : {"none", "raised"} \cup P!Outcomes]

SupervisorTypeInv ==
    /\ v1 \in TaskRows
    /\ v2 \in [Subtasks -> ThreadRows]
    /\ v3 \in SUBSET Subtasks
    /\ v6 \in [Subtasks -> Nat]
    /\ v7 \in [Subtasks -> Nat]

\* Runs of a subtask in one round: the first one and its retries.
Round == Retries + 1

\* A thread of the batch whose subtask had at most base runs before this
\* round, and none that was completed.
ThreadSound(s, base) ==
    /\ v2[s].at = "idle" => v6[s] <= base /\ v7[s] = 0
    /\ v2[s].at = "here" => v2[s].tries <= Retries /\ v6[s] <= base + v2[s].tries /\ v7[s] = 0
    /\ v2[s].at = "there" => v6[s] <= base /\ v7[s] = 0
    /\ v2[s].at = "done" =>
          /\ v6[s] <= base + Round /\ v7[s] <= 1
          /\ v2[s].outcome # "none"
          /\ v2[s].outcome # "COMPLETED" => v7[s] = 0

\* Threads run only in a round, and only for its batch.
BatchSound ==
    /\ v1.at \notin {"work", "compensate"} => v3 = {}
    /\ v1.at = "work" => v3 = v1.subs /\ \A s \in v3 : ThreadSound(s, 0)
    /\ v1.at = "compensate" => v3 \subseteq v1.subs
                               /\ \A s \in v3 : v1.row[s] = "FAILED" /\ ThreadSound(s, Round)
    /\ \A s \in Subtasks \ v3 : v2[s] = P!NoThread

\* Rows and results are written together, and for all of a batch or for none
\* of it.
RowsSound ==
    /\ \A s \in Subtasks :
          v1.row[s] = IF v1.result[s] = "none" THEN "PENDING" ELSE v1.result[s]
    /\ (\A s \in v1.subs : v1.result[s] = "none") \/ (\A s \in v1.subs : v1.result[s] # "none")
    /\ v1.at \in {"decompose", "work"} => \A s \in Subtasks : v1.result[s] = "none"

\* The runs of the subtasks that no thread works on.
RunsSound ==
    /\ v1.at = "decompose" => v1.subs = {}
    /\ \A s \in Subtasks \ v1.subs : v6[s] = 0 /\ v7[s] = 0
    /\ v1.at \in {"merge", "compensate"} => \A s \in v1.subs \ v3 : v6[s] <= Round
    /\ v1.at \in {"synthesize", "policy"} => \A s \in v1.subs : v6[s] <= 2 * Round
    /\ \A s \in v1.subs \ v3 : v7[s] <= 1
    /\ v1.at \in {"merge", "compensate", "synthesize"} =>
          \A s \in v1.subs \ v3 : v1.result[s] = "FAILED" => v7[s] = 0
    /\ v1.at # "policy" => v1.answer = "none"
    /\ v1.answer = "degraded" => \A s \in v1.subs : v7[s] = 0

SupervisorState == SupervisorTypeInv /\ BatchSound /\ RowsSound /\ RunsSound

SupervisorInv == part = "supervisor" => SupervisorState

LEMMA RoundNat == P!SupervisorAssumption => Retries \in Nat /\ Round \in Nat /\ Round >= 1
BY DEF P!SupervisorAssumption, Round

LEMMA SupervisorInitInv == P!SupervisorAssumption /\ P!SupervisorInit => SupervisorState
<1> SUFFICES ASSUME P!SupervisorAssumption, P!SupervisorInit PROVE SupervisorState
  OBVIOUS
<1>1. SupervisorTypeInv
  BY DEF SupervisorTypeInv, P!SupervisorInit, TaskRows, TaskPoints, ThreadRows, P!NoThread
<1>2. BatchSound
  BY DEF BatchSound, P!SupervisorInit
<1>3. RowsSound
  BY DEF RowsSound, P!SupervisorInit
<1>4. RunsSound
  BY RoundNat DEF RunsSound, P!SupervisorInit
<1> QED
  BY <1>1, <1>2, <1>3, <1>4 DEF SupervisorState

\* A step of one thread of the batch: it is enough that this thread stays
\* sound.
LEMMA ThreadStep ==
    ASSUME SupervisorState, NEW s \in v3, UNCHANGED <<v1, v3>>,
           v2' \in [Subtasks -> ThreadRows], v6' \in [Subtasks -> Nat], v7' \in [Subtasks -> Nat],
           \A r \in Subtasks : r # s => v2'[r] = v2[r] /\ v6'[r] = v6[r] /\ v7'[r] = v7[r],
           v1.at = "work" => ThreadSound(s, 0)',
           v1.at = "compensate" => ThreadSound(s, Round)'
    PROVE  SupervisorState'
<1> USE DEF SupervisorState
<1>0. s \in Subtasks /\ v3 \subseteq Subtasks
  BY DEF SupervisorTypeInv
<1>1. SupervisorTypeInv'
  BY DEF SupervisorTypeInv
<1>2. \A r \in v3 : r # s =>
          /\ ThreadSound(r, 0) => ThreadSound(r, 0)'
          /\ ThreadSound(r, Round) => ThreadSound(r, Round)'
  BY <1>0 DEF ThreadSound
<1>3. BatchSound'
  <2>1. (v1.at = "work" => v3 = v1.subs /\ \A r \in v3 : ThreadSound(r, 0))'
    BY <1>2 DEF BatchSound
  <2>2. (v1.at = "compensate" => v3 \subseteq v1.subs
                               /\ \A r \in v3 : v1.row[r] = "FAILED" /\ ThreadSound(r, Round))'
    BY <1>2 DEF BatchSound
  <2>3. (\A r \in Subtasks \ v3 : v2[r] = P!NoThread)'
    BY <1>0 DEF BatchSound, P!NoThread
  <2> QED
    BY <2>1, <2>2, <2>3 DEF BatchSound
<1>4. RowsSound'
  BY DEF RowsSound
<1>5. v1.at \in {"work", "compensate"} /\ s \in v1.subs
  BY DEF BatchSound, SupervisorTypeInv, TaskRows, TaskPoints
<1>6. RunsSound'
  <2>1. \A r \in Subtasks : r \notin v3 => v6'[r] = v6[r] /\ v7'[r] = v7[r]
    OBVIOUS
  <2>2. v1.subs \subseteq Subtasks
    BY DEF SupervisorTypeInv, TaskRows
  <2>3. v1.answer = "none"
    BY <1>5 DEF RunsSound
  <2>4. (\A r \in Subtasks \ v1.subs : v6[r] = 0 /\ v7[r] = 0)'
    BY <1>5 DEF RunsSound
  <2>5. v1.at = "compensate" => \A r \in v1.subs \ v3 : v6'[r] <= Round
    BY <2>1, <2>2 DEF RunsSound
  <2>6. \A r \in v1.subs \ v3 : v7'[r] <= 1
    BY <2>1, <2>2 DEF RunsSound
  <2>7. v1.at = "compensate" => \A r \in v1.subs \ v3 : v1.result[r] = "FAILED" => v7'[r] = 0
    BY <2>1, <2>2 DEF RunsSound
  <2> QED
    BY <1>5, <2>3, <2>4, <2>5, <2>6, <2>7 DEF RunsSound
<1> QED
  BY <1>1, <1>3, <1>4, <1>6

\* A thread that is not idle belongs to the batch of a round.
LEMMA ThreadInBatch ==
    ASSUME SupervisorState, NEW s \in Subtasks, v2[s].at # "idle"
    PROVE  /\ s \in v3 /\ v1.at \in {"work", "compensate"}
           /\ v1.at = "work" => ThreadSound(s, 0)
           /\ v1.at = "compensate" => ThreadSound(s, Round)
BY DEF SupervisorState, SupervisorTypeInv, TaskRows, TaskPoints, BatchSound, P!NoThread

LEMMA DispatchStep ==
    ASSUME P!SupervisorAssumption, SupervisorState, NEW s \in Subtasks, P!Dispatch(s)
    PROVE  SupervisorState'
<1>1. /\ s \in v3 /\ v2[s].at = "idle" /\ v1.at \in {"work", "compensate"}
      /\ UNCHANGED <<v1, v3, v6, v7>>
  BY DEF P!Dispatch
<1>2. PICK at \in {"here", "there"} :
          v2' = [v2 EXCEPT ![s] = [v2[s] EXCEPT !.at = at, !.tries = 0]]
  BY DEF P!Dispatch
<1>3. v2 \in [Subtasks -> ThreadRows] /\ v6 \in [Subtasks -> Nat] /\ v7 \in [Subtasks -> Nat]
  BY DEF SupervisorState, SupervisorTypeInv
<1>4. v2' \in [Subtasks -> ThreadRows] /\ v2'[s].at = at /\ v2'[s].tries = 0
  BY <1>2, <1>3 DEF ThreadRows
<1>5. \A r \in Subtasks : r # s => v2'[r] = v2[r]
  BY <1>2, <1>3
<1>6. v1.at = "work" => ThreadSound(s, 0)'
  <2> SUFFICES ASSUME v1.at = "work" PROVE ThreadSound(s, 0)'
    OBVIOUS
  <2>1. v6[s] <= 0 /\ v7[s] = 0
    BY <1>1 DEF SupervisorState, BatchSound, ThreadSound
  <2> QED
    BY <2>1, <1>1, <1>3, <1>4, RoundNat DEF ThreadSound
<1>7. v1.at = "compensate" => ThreadSound(s, Round)'
  <2> SUFFICES ASSUME v1.at = "compensate" PROVE ThreadSound(s, Round)'
    OBVIOUS
  <2>1. v6[s] <= Round /\ v7[s] = 0
    BY <1>1 DEF SupervisorState, BatchSound, ThreadSound
  <2> QED
    BY <2>1, <1>1, <1>3, <1>4, RoundNat DEF ThreadSound
<1> QED
  BY <1>1, <1>3, <1>4, <1>5, <1>6, <1>7, ThreadStep

\* A run of the worker, here or at the other service: it ends the thread, or
\* a retry is left.
LEMMA RunSound ==
    ASSUME P!SupervisorAssumption, SupervisorState, NEW s \in Subtasks, NEW o \in P!Outcomes,
           NEW base \in Nat, ThreadSound(s, base), P!Counted(s, o),
           v2[s].at \in {"here", "there"}, v2'[s] \in ThreadRows,
           \/ /\ v2[s].at = "here" /\ o # "COMPLETED" /\ v2[s].tries < Retries
              /\ v2'[s].at = "here" /\ v2'[s].tries = v2[s].tries + 1
           \/ v2'[s].at = "done" /\ v2'[s].outcome = o
    PROVE  ThreadSound(s, base)'
<1> USE DEF SupervisorState, SupervisorTypeInv
<1>1. /\ v6[s] \in Nat /\ v7[s] \in Nat /\ v2[s].tries \in Nat /\ v2'[s].tries \in Nat
      /\ v6'[s] = v6[s] + 1 /\ v7'[s] = IF o = "COMPLETED" THEN v7[s] + 1 ELSE v7[s]
  BY DEF P!Counted, ThreadRows
<1>2. v6[s] + 1 <= base + Round /\ v7[s] = 0
  BY <1>1, RoundNat DEF ThreadSound, Round
<1>3. v2'[s].at = "here" => v6'[s] <= base + v2'[s].tries /\ v2'[s].tries <= Retries /\ v7'[s] = 0
  BY <1>1, <1>2, RoundNat DEF ThreadSound, Round
<1>4. v2'[s].at = "done" => v6'[s] <= base + Round /\ v7'[s] <= 1
                            /\ v2'[s].outcome # "none" /\ (v2'[s].outcome # "COMPLETED" => v7'[s] = 0)
  BY <1>1, <1>2 DEF P!Outcomes
<1> QED
  BY <1>3, <1>4 DEF ThreadSound

LEMMA RunStep ==
    ASSUME P!SupervisorAssumption, SupervisorState, NEW s \in Subtasks,
           P!RunWorker(s) \/ P!RunThere(s)
    PROVE  SupervisorState'
<1>1. /\ v2[s].at \in {"here", "there"} /\ UNCHANGED <<v1, v3>>
  BY DEF P!RunWorker, P!RunThere
<1>2. v2 \in [Subtasks -> ThreadRows] /\ v6 \in [Subtasks -> Nat] /\ v7 \in [Subtasks -> Nat]
  BY DEF SupervisorState, SupervisorTypeInv
<1>3. PICK o \in P!Outcomes :
          /\ P!Counted(s, o)
          /\ \/ /\ v2[s].at = "here" /\ P!MayTryAgain(v2[s], o)
                /\ v2' = [v2 EXCEPT ![s].tries = @ + 1]
             \/ v2' = [v2 EXCEPT ![s].at = "done", ![s].outcome = o]
  <2>1. CASE P!RunWorker(s)
    <3>1. v2[s].at = "here"
      BY <2>1 DEF P!RunWorker
    <3> QED
      BY <2>1, <3>1 DEF P!RunWorker
  <2>2. CASE P!RunThere(s)
    BY <2>2 DEF P!RunThere
  <2> QED
    BY <2>1, <2>2
<1>4. /\ v2' \in [Subtasks -> ThreadRows]
      /\ \A r \in Subtasks : r # s => v2'[r] = v2[r]
      /\ \/ /\ v2[s].at = "here" /\ o # "COMPLETED" /\ v2[s].tries < Retries
            /\ v2'[s].at = "here" /\ v2'[s].tries = v2[s].tries + 1
         \/ v2'[s].at = "done" /\ v2'[s].outcome = o
  <2>1. v2[s] \in ThreadRows
    BY <1>2
  <2>2. CASE /\ v2[s].at = "here" /\ P!MayTryAgain(v2[s], o)
             /\ v2' = [v2 EXCEPT ![s].tries = @ + 1]
    BY <1>2, <2>1, <2>2 DEF ThreadRows, P!MayTryAgain
  <2>3. CASE v2' = [v2 EXCEPT ![s].at = "done", ![s].outcome = o]
    BY <1>2, <2>1, <2>3 DEF ThreadRows
  <2> QED
    BY <1>3, <2>2, <2>3
<1>5. /\ v6' \in [Subtasks -> Nat] /\ v7' \in [Subtasks -> Nat]
      /\ \A r \in Subtasks : r # s => v6'[r] = v6[r] /\ v7'[r] = v7[r]
  BY <1>2, <1>3 DEF P!Counted
<1>6. /\ s \in v3 /\ v1.at \in {"work", "compensate"}
      /\ v1.at = "work" => ThreadSound(s, 0)
      /\ v1.at = "compensate" => ThreadSound(s, Round)
  BY <1>1, ThreadInBatch
<1>7. v2'[s] \in ThreadRows
  BY <1>4
<1>8. v1.at = "work" => ThreadSound(s, 0)'
  BY <1>1, <1>3, <1>4, <1>6, <1>7, RunSound
<1>9. v1.at = "compensate" => ThreadSound(s, Round)'
  BY <1>1, <1>3, <1>4, <1>6, <1>7, RunSound, RoundNat
<1> QED
  BY <1>1, <1>4, <1>5, <1>6, <1>8, <1>9, ThreadStep

LEMMA RaiseStep ==
    ASSUME P!SupervisorAssumption, SupervisorState, NEW s \in Subtasks, P!WorkerRaises(s)
    PROVE  SupervisorState'
<1>1. /\ v2[s].at = "here" /\ v2[s].tries = 0 /\ UNCHANGED <<v1, v3, v6, v7>>
      /\ v2' = [v2 EXCEPT ![s] = [@ EXCEPT !.at = "done", !.outcome = "raised"]]
  BY DEF P!WorkerRaises
<1>2. v2 \in [Subtasks -> ThreadRows] /\ v6 \in [Subtasks -> Nat] /\ v7 \in [Subtasks -> Nat]
  BY DEF SupervisorState, SupervisorTypeInv
<1>3. /\ v2' \in [Subtasks -> ThreadRows] /\ v2'[s].at = "done" /\ v2'[s].outcome = "raised"
      /\ \A r \in Subtasks : r # s => v2'[r] = v2[r]
  BY <1>1, <1>2 DEF ThreadRows
<1>4. /\ s \in v3 /\ v1.at \in {"work", "compensate"}
      /\ v1.at = "work" => ThreadSound(s, 0)
      /\ v1.at = "compensate" => ThreadSound(s, Round)
  BY <1>1, ThreadInBatch
<1>5. v1.at = "work" => ThreadSound(s, 0)'
  BY <1>1, <1>2, <1>3, <1>4, RoundNat DEF ThreadSound
<1>6. v1.at = "compensate" => ThreadSound(s, Round)'
  BY <1>1, <1>2, <1>3, <1>4, RoundNat DEF ThreadSound
<1> QED
  BY <1>1, <1>2, <1>3, <1>4, <1>5, <1>6, ThreadStep

LEMMA DecomposeStep ==
    ASSUME P!SupervisorAssumption, SupervisorState, P!Decompose
    PROVE  SupervisorState'
<1>1. PICK subs \in SUBSET Subtasks : v1' = P!AfterDecompose(subs)
  BY DEF P!Decompose
<1>2. v1.at = "decompose" /\ v3' = v1'.subs /\ UNCHANGED <<v2, v6, v7>>
  BY DEF P!Decompose
<1>3. v1 \in TaskRows
  BY DEF SupervisorState, SupervisorTypeInv
<1>4. /\ v1' \in TaskRows /\ v1'.at = "work" /\ v1'.subs = subs
      /\ v1'.row = v1.row /\ v1'.result = v1.result /\ v1'.answer = v1.answer
  BY <1>1, <1>3 DEF P!AfterDecompose, TaskRows, TaskPoints
<1>5. v1.subs = {} /\ v3 = {} /\ v1.answer = "none"
  BY <1>2 DEF SupervisorState, BatchSound, RunsSound
<1>6. \A s \in Subtasks : v2[s] = P!NoThread /\ v6[s] = 0 /\ v7[s] = 0 /\ v1.result[s] = "none"
  BY <1>2, <1>5 DEF SupervisorState, BatchSound, RunsSound, RowsSound
<1>7. SupervisorTypeInv'
  BY <1>2, <1>4 DEF SupervisorState, SupervisorTypeInv
<1>8. BatchSound'
  BY <1>2, <1>4, <1>6 DEF BatchSound, ThreadSound, P!NoThread
<1>9. RowsSound'
  BY <1>4, <1>6 DEF RowsSound, SupervisorState
<1>10. RunsSound'
  BY <1>2, <1>4, <1>5, <1>6 DEF RunsSound
<1> QED
  BY <1>7, <1>8, <1>9, <1>10 DEF SupervisorState

\* What a batch that ended without an exception leaves in the task.
LEMMA ToldRows ==
    ASSUME P!SupervisorAssumption, SupervisorState, v1.at \in {"work", "compensate"},
           P!AllDone, ~ P!Raised
    PROVE  /\ P!Told(v1) \in TaskRows
           /\ P!Told(v1).subs = v1.subs /\ P!Told(v1).answer = v1.answer
           /\ \A s \in Subtasks : P!Told(v1).result[s] = IF s \in v3 THEN v2[s].outcome ELSE v1.result[s]
           /\ \A s \in Subtasks : P!Told(v1).row[s] = IF s \in v3 THEN v2[s].outcome ELSE v1.row[s]
           /\ \A s \in v3 : v2[s].outcome \in P!Outcomes
<1>1. v1 \in TaskRows /\ v3 \subseteq Subtasks /\ v2 \in [Subtasks -> ThreadRows]
  BY DEF SupervisorState, SupervisorTypeInv
<1>2. \A s \in v3 : v2[s].outcome \in P!Outcomes
  <2> SUFFICES ASSUME NEW s \in v3 PROVE v2[s].outcome \in P!Outcomes
    OBVIOUS
  <2>1. v2[s].at = "done" /\ v2[s].outcome # "raised"
    BY DEF P!AllDone, P!Raised
  <2>2. v2[s].outcome # "none"
    BY <2>1 DEF SupervisorState, BatchSound, ThreadSound
  <2> QED
    BY <1>1, <2>1, <2>2 DEF ThreadRows
<1>3. P!Told(v1) \in TaskRows
  BY <1>1, <1>2 DEF P!Told, TaskRows
<1>4. /\ P!Told(v1).subs = v1.subs /\ P!Told(v1).answer = v1.answer
      /\ \A s \in Subtasks : P!Told(v1).result[s] = IF s \in v3 THEN v2[s].outcome ELSE v1.result[s]
      /\ \A s \in Subtasks : P!Told(v1).row[s] = IF s \in v3 THEN v2[s].outcome ELSE v1.row[s]
  BY <1>1 DEF P!Told, TaskRows
<1> QED
  BY <1>2, <1>3, <1>4

\* The rows and results after a batch, for the batches of both rounds.
LEMMA ToldAgree ==
    ASSUME P!SupervisorAssumption, SupervisorState, v1.at \in {"work", "compensate"},
           P!AllDone, ~ P!Raised,
           v1'.result = P!Told(v1).result, v1'.row = P!Told(v1).row, v1'.subs = v1.subs,
           v1'.at \notin {"decompose", "work"}
    PROVE  RowsSound'
<1>1. /\ v3 \subseteq Subtasks /\ v1.subs \subseteq Subtasks
  BY DEF SupervisorState, SupervisorTypeInv, TaskRows
<1>2. \A s \in Subtasks : v1'.row[s] = IF v1'.result[s] = "none" THEN "PENDING" ELSE v1'.result[s]
  BY ToldRows DEF SupervisorState, RowsSound, P!Outcomes
<1>3. CASE v1.at = "work"
  <2>1. v3 = v1.subs
    BY <1>3 DEF SupervisorState, BatchSound
  <2>2. \A s \in v1.subs : v1'.result[s] # "none"
    BY <1>1, <2>1, ToldRows DEF P!Outcomes
  <2> QED
    BY <1>2, <2>2 DEF RowsSound
<1>4. CASE v1.at = "compensate"
  <2>1. \A s \in v3 : s \in v1.subs /\ v1.result[s] # "none"
    BY <1>1, <1>4 DEF SupervisorState, BatchSound, RowsSound
  <2>2. CASE \A s \in v1.subs : v1.result[s] = "none"
    BY <1>1, <1>2, <2>1, <2>2, ToldRows DEF RowsSound
  <2>3. CASE \A s \in v1.subs : v1.result[s] # "none"
    BY <1>1, <1>2, <2>3, ToldRows DEF RowsSound, P!Outcomes
  <2> QED
    BY <2>2, <2>3 DEF SupervisorState, RowsSound
<1> QED
  BY <1>3, <1>4

LEMMA WorkersEndStep ==
    ASSUME P!SupervisorAssumption, SupervisorState, P!WorkersEnd
    PROVE  SupervisorState'
<1>1. /\ v1.at = "work" /\ P!AllDone /\ v3' = {} /\ v2' = [s \in Subtasks |-> P!NoThread]
      /\ v1' = IF P!Raised THEN [v1 EXCEPT !.at = "merge", !.status = "FAILED"]
               ELSE [P!Told(v1) EXCEPT !.at = "merge", !.status = "REASONED"]
      /\ UNCHANGED <<v6, v7>>
  BY DEF P!WorkersEnd
<1>2. v1 \in TaskRows /\ v1.subs \subseteq Subtasks
  BY DEF SupervisorState, SupervisorTypeInv, TaskRows
<1>3. v3 = v1.subs /\ \A s \in v1.subs : ThreadSound(s, 0) /\ v2[s].at = "done"
  BY <1>1 DEF SupervisorState, BatchSound, P!AllDone
<1>4. \A s \in v1.subs : v6[s] <= Round /\ v7[s] <= 1 /\ (v2[s].outcome # "COMPLETED" => v7[s] = 0)
  BY <1>2, <1>3, RoundNat DEF ThreadSound, SupervisorState, SupervisorTypeInv
<1>5. /\ v1' \in TaskRows /\ v1'.at = "merge" /\ v1'.subs = v1.subs /\ v1'.answer = v1.answer
      /\ P!Raised => v1'.row = v1.row /\ v1'.result = v1.result
      /\ ~ P!Raised => v1'.row = P!Told(v1).row /\ v1'.result = P!Told(v1).result
  <2>1. CASE P!Raised
    BY <1>1, <1>2, <2>1 DEF TaskRows, TaskPoints
  <2>2. CASE ~ P!Raised
    <3>1. P!Told(v1) \in TaskRows /\ P!Told(v1).subs = v1.subs /\ P!Told(v1).answer = v1.answer
      BY <1>1, <2>2, ToldRows
    <3> QED
      BY <1>1, <2>2, <3>1 DEF TaskRows, TaskPoints
  <2> QED
    BY <2>1, <2>2
<1>6. SupervisorTypeInv'
  BY <1>1, <1>5 DEF SupervisorState, SupervisorTypeInv, ThreadRows, P!NoThread
<1>7. BatchSound'
  BY <1>1, <1>5 DEF BatchSound
<1>8. RowsSound'
  <2>1. CASE P!Raised
    BY <1>1, <1>5, <2>1 DEF SupervisorState, RowsSound
  <2>2. CASE ~ P!Raised
    BY <1>1, <1>5, <2>2, ToldAgree
  <2> QED
    BY <2>1, <2>2
<1>9. \A s \in v1.subs : v1'.result[s] = "FAILED" => v7[s] = 0
  <2> SUFFICES ASSUME NEW s \in v1.subs, v1'.result[s] = "FAILED" PROVE v7[s] = 0
    OBVIOUS
  <2>1. CASE P!Raised
    BY <1>1, <1>2, <1>5, <2>1 DEF SupervisorState, RowsSound
  <2>2. CASE ~ P!Raised
    BY <1>1, <1>2, <1>3, <1>4, <1>5, <2>2, ToldRows
  <2> QED
    BY <2>1, <2>2
<1>10. v1.answer = "none"
  BY <1>1 DEF SupervisorState, RunsSound
<1>11. (\A s \in Subtasks \ v1.subs : v6[s] = 0 /\ v7[s] = 0)'
  BY <1>1, <1>5 DEF SupervisorState, RunsSound
<1>12. RunsSound'
  BY <1>1, <1>4, <1>5, <1>9, <1>10, <1>11 DEF RunsSound
<1> QED
  BY <1>6, <1>7, <1>8, <1>12 DEF SupervisorState

LEMMA CompensatedStep ==
    ASSUME P!SupervisorAssumption, SupervisorState, P!Compensated
    PROVE  SupervisorState'
<1>1. /\ v1.at = "compensate" /\ P!AllDone /\ v3' = {} /\ v2' = [s \in Subtasks |-> P!NoThread]
      /\ v1' = IF P!Raised THEN [v1 EXCEPT !.at = "policy", !.status = "FAILED"]
               ELSE [P!Told(v1) EXCEPT !.at = "synthesize", !.compensated = @ \cup v3]
      /\ UNCHANGED <<v6, v7>>
  BY DEF P!Compensated
<1>2. v1 \in TaskRows /\ v1.subs \subseteq Subtasks /\ v3 \subseteq v1.subs
  BY <1>1 DEF SupervisorState, SupervisorTypeInv, BatchSound, TaskRows
<1>3. \A s \in v3 : ThreadSound(s, Round) /\ v2[s].at = "done"
  BY <1>1 DEF SupervisorState, BatchSound, P!AllDone
<1>4. \A s \in v3 : v6[s] <= 2 * Round /\ v7[s] <= 1 /\ (v2[s].outcome # "COMPLETED" => v7[s] = 0)
  BY <1>2, <1>3, RoundNat DEF ThreadSound, SupervisorState, SupervisorTypeInv
<1>5. \A s \in v1.subs : v6[s] <= 2 * Round /\ v7[s] <= 1
  <2> SUFFICES ASSUME NEW s \in v1.subs PROVE v6[s] <= 2 * Round /\ v7[s] <= 1
    OBVIOUS
  <2>1. CASE s \in v3
    BY <1>4, <2>1
  <2>2. CASE s \notin v3
    BY <1>1, <1>2, <2>2, RoundNat DEF SupervisorState, SupervisorTypeInv, RunsSound
  <2> QED
    BY <2>1, <2>2
<1>6. /\ v1' \in TaskRows /\ v1'.subs = v1.subs /\ v1'.answer = v1.answer
      /\ P!Raised => v1'.at = "policy" /\ v1'.row = v1.row /\ v1'.result = v1.result
      /\ ~ P!Raised => v1'.at = "synthesize" /\ v1'.row = P!Told(v1).row
                       /\ v1'.result = P!Told(v1).result
  <2>1. CASE P!Raised
    BY <1>1, <1>2, <2>1 DEF TaskRows, TaskPoints
  <2>2. CASE ~ P!Raised
    <3>1. P!Told(v1) \in TaskRows /\ P!Told(v1).subs = v1.subs /\ P!Told(v1).answer = v1.answer
      BY <1>1, <2>2, ToldRows
    <3> QED
      BY <1>1, <1>2, <2>2, <3>1 DEF TaskRows, TaskPoints
  <2> QED
    BY <2>1, <2>2
<1>7. SupervisorTypeInv'
  BY <1>1, <1>6 DEF SupervisorState, SupervisorTypeInv, ThreadRows, P!NoThread
<1>8. BatchSound'
  BY <1>1, <1>6 DEF BatchSound
<1>9. RowsSound'
  <2>1. CASE P!Raised
    BY <1>1, <1>6, <2>1 DEF SupervisorState, RowsSound
  <2>2. CASE ~ P!Raised
    BY <1>1, <1>6, <2>2, ToldAgree
  <2> QED
    BY <2>1, <2>2
<1>10. v1'.at = "synthesize" => \A s \in v1.subs : v1'.result[s] = "FAILED" => v7[s] = 0
  <2> SUFFICES ASSUME v1'.at = "synthesize", NEW s \in v1.subs, v1'.result[s] = "FAILED" PROVE v7[s] = 0
    OBVIOUS
  <2>1. ~ P!Raised
    BY <1>6
  <2>2. CASE s \in v3
    BY <1>1, <1>2, <1>4, <1>6, <2>1, <2>2, ToldRows
  <2>3. CASE s \notin v3
    <3>1. v1.result[s] = "FAILED"
      BY <1>1, <1>2, <1>6, <2>1, <2>3, ToldRows
    <3> QED
      BY <1>1, <2>3, <3>1 DEF SupervisorState, RunsSound
  <2> QED
    BY <2>2, <2>3
<1>11. v1.answer = "none"
  BY <1>1 DEF SupervisorState, RunsSound
<1>12. (\A s \in Subtasks \ v1.subs : v6[s] = 0 /\ v7[s] = 0)'
  BY <1>1, <1>6 DEF SupervisorState, RunsSound
<1>13. RunsSound'
  BY <1>1, <1>5, <1>6, <1>10, <1>11, <1>12 DEF RunsSound
<1> QED
  BY <1>7, <1>8, <1>9, <1>13 DEF SupervisorState

\* The failed subtasks of the first round make the second batch.
LEMMA MergeStep ==
    ASSUME P!SupervisorAssumption, SupervisorState, P!MergeStarts
    PROVE  SupervisorState'
<1>1. /\ v1.at = "merge" /\ v3' = P!Critical /\ UNCHANGED <<v2, v6, v7>>
      /\ v1' = [v1 EXCEPT !.at = IF P!Critical = {} THEN "synthesize" ELSE "compensate"]
  BY DEF P!MergeStarts
<1>2. v1 \in TaskRows /\ v1.subs \subseteq Subtasks /\ v3 = {}
  BY <1>1 DEF SupervisorState, SupervisorTypeInv, BatchSound, TaskRows
<1>3. P!Critical \subseteq v1.subs /\ \A s \in P!Critical : v1.row[s] = "FAILED"
  BY DEF P!Critical
<1>4. /\ v1' \in TaskRows /\ v1'.at \in {"synthesize", "compensate"}
      /\ v1'.at = "synthesize" => P!Critical = {}
      /\ v1'.subs = v1.subs /\ v1'.row = v1.row /\ v1'.result = v1.result /\ v1'.answer = v1.answer
  BY <1>1, <1>2 DEF TaskRows, TaskPoints
<1>5. \A s \in v1.subs : v6[s] <= Round /\ v7[s] <= 1 /\ (v1.result[s] = "FAILED" => v7[s] = 0)
  BY <1>1, <1>2 DEF SupervisorState, RunsSound
<1>6. SupervisorTypeInv'
  BY <1>1, <1>2, <1>3, <1>4 DEF SupervisorState, SupervisorTypeInv
<1>7. \A s \in Subtasks : v2[s] = P!NoThread
  BY <1>2 DEF SupervisorState, BatchSound
<1>8. \A s \in P!Critical : v1.row[s] = "FAILED" /\ ThreadSound(s, Round)'
  <2> SUFFICES ASSUME NEW s \in P!Critical PROVE v1.row[s] = "FAILED" /\ ThreadSound(s, Round)'
    OBVIOUS
  <2>1. s \in v1.subs /\ s \in Subtasks /\ v1.row[s] = "FAILED" /\ v2'[s].at = "idle"
    BY <1>1, <1>2, <1>3, <1>7 DEF P!NoThread
  <2>2. v1.result[s] = "FAILED"
    BY <2>1 DEF SupervisorState, RowsSound
  <2> QED
    BY <1>1, <1>5, <2>1, <2>2 DEF ThreadSound
<1>9. BatchSound'
  BY <1>1, <1>3, <1>4, <1>7, <1>8 DEF BatchSound
<1>10. RowsSound'
  BY <1>4 DEF SupervisorState, RowsSound
<1>11. v1.answer = "none"
  BY <1>1 DEF SupervisorState, RunsSound
<1>12. (\A s \in Subtasks \ v1.subs : v6[s] = 0 /\ v7[s] = 0)'
  BY <1>1, <1>4 DEF SupervisorState, RunsSound
<1>13. \A s \in v1.subs : v6[s] <= 2 * Round
  BY <1>2, <1>5, RoundNat DEF SupervisorState, SupervisorTypeInv
<1>14. RunsSound'
  BY <1>1, <1>4, <1>5, <1>11, <1>12, <1>13 DEF RunsSound
<1> QED
  BY <1>6, <1>9, <1>10, <1>14 DEF SupervisorState

\* An answer is degraded only if every subtask has a result and it is FAILED.
LEMMA SynthesizeStep ==
    ASSUME P!SupervisorAssumption, SupervisorState, P!Synthesize
    PROVE  SupervisorState'
<1>1. v1.at = "synthesize" /\ UNCHANGED <<v2, v3, v6, v7>>
  BY DEF P!Synthesize
<1>2. PICK ans \in {"degraded", "merged", "none"} :
          /\ v1' = [v1 EXCEPT !.at = "policy", !.answer = ans,
                              !.status = IF ans = "none" THEN "FAILED" ELSE "REASONED"]
          /\ ans = "degraded" => LET have == {s \in v1.subs : v1.result[s] # "none"} IN
                               have # {} /\ \A s \in have : v1.result[s] = "FAILED"
  BY DEF P!Synthesize
<1>3. v1 \in TaskRows /\ v3 = {}
  BY <1>1 DEF SupervisorState, SupervisorTypeInv, BatchSound
<1>4. /\ v1' \in TaskRows /\ v1'.at = "policy" /\ v1'.answer = ans
      /\ v1'.subs = v1.subs /\ v1'.row = v1.row /\ v1'.result = v1.result
  BY <1>2, <1>3 DEF TaskRows, TaskPoints
<1>5. ans = "degraded" => \A s \in v1.subs : v7[s] = 0
  <2> SUFFICES ASSUME ans = "degraded", NEW s \in v1.subs PROVE v7[s] = 0
    OBVIOUS
  <2>1. \A r \in v1.subs : v1.result[r] # "none"
    BY <1>2 DEF SupervisorState, RowsSound
  <2>2. v1.result[s] = "FAILED"
    BY <1>2, <2>1
  <2> QED
    BY <1>1, <1>3, <2>2 DEF SupervisorState, RunsSound
<1>6. SupervisorTypeInv'
  BY <1>1, <1>4 DEF SupervisorState, SupervisorTypeInv
<1>7. BatchSound'
  BY <1>1, <1>3, <1>4 DEF SupervisorState, BatchSound
<1>8. RowsSound'
  BY <1>4 DEF SupervisorState, RowsSound
<1>9. RunsSound'
  BY <1>1, <1>3, <1>4, <1>5 DEF SupervisorState, RunsSound
<1> QED
  BY <1>6, <1>7, <1>8, <1>9 DEF SupervisorState

LEMMA SupervisorStutter ==
    ASSUME SupervisorState, UNCHANGED <<v1, v2, v3, v6, v7>>
    PROVE  SupervisorState'
<1>1. SupervisorTypeInv'
  BY DEF SupervisorState, SupervisorTypeInv
<1>2. BatchSound'
  BY DEF SupervisorState, BatchSound, ThreadSound
<1>3. RowsSound'
  BY DEF SupervisorState, RowsSound
<1>4. RunsSound'
  BY DEF SupervisorState, RunsSound
<1> QED
  BY <1>1, <1>2, <1>3, <1>4 DEF SupervisorState

\* Supervisor tasks (supervisor_graph.py, a2a_dispatch.py): for any number of
\* subtasks, threads and retries, rows and results agree when the answer is
\* made, a degraded answer hides no completed subtask, no subtask runs more
\* often than two rounds allow, and none is completed twice.
THEOREM SupervisorCorrect == Spec => []SupervisorSound
<1> USE MakingAssumptions
<1>0. P!SupervisorAssumption
  BY DEF MakingAssumptions
<1>1. Init => SupervisorInv
  <2> SUFFICES ASSUME Init, part = "supervisor" PROVE SupervisorState
    BY DEF SupervisorInv
  <2>1. P!SupervisorInit
    BY DEF Init
  <2> QED
    BY <1>0, <2>1, SupervisorInitInv
<1>2. SupervisorInv /\ [Next]_vars => SupervisorInv'
  <2> SUFFICES ASSUME SupervisorInv, [Next]_vars, part' = "supervisor" PROVE SupervisorState'
    BY DEF SupervisorInv
  <2>1. part = "supervisor" /\ SupervisorState
    BY DEF Next, vars, SupervisorInv
  <2>2. CASE P!SupervisorNext
    <3>1. CASE \E s \in Subtasks : P!Dispatch(s) \/ P!RunWorker(s) \/ P!RunThere(s) \/ P!WorkerRaises(s)
      BY <1>0, <2>1, <3>1, DispatchStep, RunStep, RaiseStep
    <3>2. CASE P!Register \/ P!Heartbeat \/ P!Tick
      <4>1. UNCHANGED <<v1, v2, v3, v6, v7>>
        BY <3>2 DEF P!Register, P!Heartbeat, P!Tick, P!registryOnly
      <4> QED
        BY <2>1, <4>1, SupervisorStutter
    <3> QED
      BY <1>0, <2>1, <2>2, <3>1, <3>2, DecomposeStep, WorkersEndStep, MergeStep,
         CompensatedStep, SynthesizeStep DEF P!SupervisorNext
  <2>3. CASE UNCHANGED vars
    BY <2>1, <2>3, SupervisorStutter DEF vars
  <2> QED
    BY <2>1, <2>2, <2>3 DEF Next
<1>3. SupervisorInv => SupervisorSound
  <2> SUFFICES ASSUME part = "supervisor", SupervisorState PROVE P!SubtasksAgree /\ P!WorkBounded
    BY DEF SupervisorInv, SupervisorSound
  <2>1. v1.subs \subseteq Subtasks /\ v3 \subseteq Subtasks
    BY DEF SupervisorState, SupervisorTypeInv, TaskRows
  <2>2. P!SubtasksAgree
    BY <2>1 DEF SupervisorState, RowsSound, RunsSound, P!SubtasksAgree
  <2>3. \A s \in Subtasks : v6[s] <= 2 * Round /\ v7[s] <= 1
    <3> SUFFICES ASSUME NEW s \in Subtasks PROVE v6[s] <= 2 * Round /\ v7[s] <= 1
      OBVIOUS
    <3>1. v6[s] \in Nat /\ v7[s] \in Nat /\ v1.at \in TaskPoints
      BY DEF SupervisorState, SupervisorTypeInv, TaskRows
    <3>2. CASE s \notin v1.subs
      BY <1>0, <3>2, RoundNat DEF SupervisorState, RunsSound
    <3>3. CASE s \in v3
      <4>1. v1.at \in {"work", "compensate"}
        BY <3>1, <3>3 DEF SupervisorState, BatchSound, TaskPoints
      <4>2. \E base \in {0, Round} : ThreadSound(s, base)
        BY <3>3, <4>1 DEF SupervisorState, BatchSound
      <4>3. v2[s].at \in {"idle", "here", "there", "done"} /\ v2[s].tries \in Nat
        BY DEF SupervisorState, SupervisorTypeInv, ThreadRows
      <4> QED
        BY <1>0, <3>1, <4>2, <4>3, RoundNat DEF ThreadSound, Round
    <3>4. CASE s \in v1.subs \ v3
      <4>1. v7[s] <= 1
        BY <3>4 DEF SupervisorState, RunsSound
      <4>2. v1.at \in {"merge", "compensate", "synthesize", "policy"}
        BY <3>1, <3>4 DEF SupervisorState, BatchSound, RunsSound, TaskPoints
      <4>3. v6[s] <= Round \/ v6[s] <= 2 * Round
        BY <3>4, <4>2 DEF SupervisorState, RunsSound
      <4> QED
        BY <1>0, <3>1, <4>1, <4>3, RoundNat
    <3> QED
      BY <3>2, <3>3, <3>4
  <2> QED
    BY <2>2, <2>3 DEF P!WorkBounded, Round
<1> QED
  BY <1>1, <1>2, <1>3, PTL DEF Spec

-----------------------------------------------------------------------------
(* Deliveries: proofs                                                      *)

LEMMA EngineeringConstants ==
    G!EngineeringAssumption =>
        /\ MaxSteps \in Nat /\ MaxRepairs \in Nat /\ MaxAttempts \in Nat /\ VerifySlots \in Nat
        /\ Intents \subseteq IntentKinds
BY DEF G!EngineeringAssumption, IntentKinds

\* Engineering counts as this module does.
LEMMA EngineeringCount == ASSUME NEW E PROVE G!Cardinality(E) = Cardinality(E)
BY Zenon DEF G!Cardinality, Cardinality, G!IsFiniteSet, IsFiniteSet

\* The runs that hold a slot, after one task has changed its run.
LEMMA RunningMove ==
    ASSUME v1 = [u \in Makers |-> v1[u]], NEW t \in Makers, NEW r, G!Put(t, r), IsFiniteSet(Running)
    PROVE  /\ IsFiniteSet(Running')
           /\ Cardinality(Running) \in Nat /\ Cardinality(Running') \in Nat
           /\ (v1[t].at = "running" <=> r.at = "running") => Cardinality(Running') = Cardinality(Running)
           /\ v1[t].at # "running" /\ r.at = "running" => Cardinality(Running') = Cardinality(Running) + 1
           /\ v1[t].at = "running" /\ r.at # "running" => Cardinality(Running) = Cardinality(Running') + 1
<1>1. v1'[t] = r /\ \A u \in Makers : u # t => v1'[u] = v1[u]
  BY DEF G!Put
<1>2. CASE v1[t].at = "running" <=> r.at = "running"
  <2>1. Running' = Running
    BY <1>1, <1>2 DEF Running
  <2> QED
    BY <1>2, <2>1, FS_CardinalityType
<1>3. CASE v1[t].at # "running" /\ r.at = "running"
  <2>1. Running' = Running \cup {t} /\ t \notin Running
    BY <1>1, <1>3 DEF Running
  <2> QED
    BY <1>3, <2>1, FS_CardinalityType, FS_AddElement
<1>4. CASE v1[t].at = "running" /\ r.at # "running"
  <2>1. Running' = Running \ {t} /\ t \in Running
    BY <1>1, <1>4 DEF Running
  <2>2. IsFiniteSet(Running') /\ Cardinality(Running') = Cardinality(Running) - 1
    BY <2>1, FS_RemoveElement
  <2> QED
    BY <1>4, <2>2, FS_CardinalityType
<1> QED
  BY <1>2, <1>3, <1>4

\* A step of one task that holds no slot before it or after it.
LEMMA QuietStep ==
    ASSUME EngineeringState, NEW t \in Makers, NEW r, G!Put(t, r), MakerSound(r),
           v1[t].at # "running", r.at # "running", UNCHANGED <<v2, v3, v4>>
    PROVE  EngineeringState'
<1>1. v1 = [u \in Makers |-> v1[u]] /\ IsFiniteSet(Running)
  BY DEF EngineeringState, SlotsSound
<1>2. IsFiniteSet(Running') /\ Cardinality(Running') = Cardinality(Running)
  BY <1>1, RunningMove
<1>3. v1' = [u \in Makers |-> v1'[u]] /\ \A u \in Makers : MakerSound(v1'[u])
  BY <1>1 DEF EngineeringState, G!Put
<1> QED
  BY <1>2, <1>3 DEF EngineeringState, SlotsSound

LEMMA BeginStep ==
    ASSUME G!EngineeringAssumption, EngineeringState, NEW t \in Makers, G!Begin(t)
    PROVE  EngineeringState'
<1>1. v1[t].at = "idle" /\ UNCHANGED <<v2, v3, v4>> /\ MakerSound(v1[t])
  BY DEF G!Begin, G!Step, EngineeringState
<1>2. v1[t] \in MakerRows /\ ~v1[t].code
  BY <1>1 DEF MakerSound
<1>3. ASSUME NEW i \in Intents, G!Put(t, [v1[t] EXCEPT !.at = "plan", !.intent = i])
      PROVE  EngineeringState'
  <2>1. MakerSound([v1[t] EXCEPT !.at = "plan", !.intent = i])
    BY <1>2, EngineeringConstants DEF MakerSound, MakerRows, MakerPoints
  <2>2. [v1[t] EXCEPT !.at = "plan", !.intent = i].at # "running"
    BY <1>2 DEF MakerRows
  <2> QED
    BY <1>1, <1>3, <2>1, <2>2, QuietStep
<1>4. ASSUME G!Put(t, [v1[t] EXCEPT !.at = "final", !.verdict = G!NotVerified("empty_goal")])
      PROVE  EngineeringState'
  <2> DEFINE r == [v1[t] EXCEPT !.at = "final", !.verdict = G!NotVerified("empty_goal")]
  <2>1. r \in MakerRows /\ r.at = "final" /\ r.code = FALSE /\ ~r.verdict.ok
        /\ r.verdict.status = "skipped"
    BY <1>2 DEF MakerRows, MakerPoints, G!NotVerified, Verdicts, Issues
  <2>2. MakerSound(r)
    BY <2>1 DEF MakerSound, Judged
  <2> QED
    BY <1>1, <1>4, <2>1, <2>2, QuietStep
<1>5. ASSUME NEW q \in {"bad", "good"},
             G!Put(t, [v1[t] EXCEPT !.at = "compile", !.code = TRUE, !.version = 1,
                                    !.tree = [G!NoFiles EXCEPT !["cpp"] = q]])
      PROVE  EngineeringState'
  <2> DEFINE r == [v1[t] EXCEPT !.at = "compile", !.code = TRUE, !.version = 1,
                                !.tree = [G!NoFiles EXCEPT !["cpp"] = q]]
  <2>1. r \in MakerRows /\ r.at = "compile" /\ r.code = TRUE
    BY <1>2 DEF MakerRows, MakerPoints, G!NoFiles, G!FileKinds, Trees
  <2>2. MakerSound(r)
    BY <2>1 DEF MakerSound
  <2> QED
    BY <1>1, <1>5, <2>1, <2>2, QuietStep
<1> QED
  BY <1>3, <1>4, <1>5 DEF G!Begin, G!FixedCode

\* What the model or the default plans, and what is written of it.
LEMMA PlanTypes ==
    ASSUME NEW intent, NEW p \in G!Plans1(intent)
    PROVE  p \in Trees
BY DEF G!Plans1, G!Layout, G!NoFiles, G!FileKinds, Trees

LEMMA ChargedTypes ==
    ASSUME NEW r \in MakerRows, NEW to \in MakerPoints
    PROVE  LET c == G!Charged(r, to) IN
           /\ c \in MakerRows /\ c.at = to /\ c.used = r.used + 1 /\ c.code = r.code
           /\ c.verdict = r.verdict /\ c.tree = r.tree /\ c.plan = r.plan /\ c.intent = r.intent
           /\ c.backend = r.backend /\ c.version = r.version /\ c.written = r.written
           /\ c.attempts = r.attempts /\ c.minimal = r.minimal /\ c.out = r.out
<1>1. r.used + 1 \in Nat
  BY DEF MakerRows
<1>2. G!Charged(r, to) = [r EXCEPT !.used = r.used + 1, !.at = to]
  BY DEF G!Charged
<1> QED
  BY <1>1, <1>2 DEF MakerRows

LEMMA WrittenTypes ==
    ASSUME NEW r \in MakerRows, NEW kept \in SUBSET G!Present(r.plan),
           NEW back \in G!Backends(G!Refined(r.intent, r.plan), r.plan)
    PROVE  LET w == [G!Written1(r, kept) EXCEPT !.intent = G!Refined(r.intent, r.plan), !.backend = back]
           IN  w \in MakerRows /\ w.at = r.at /\ w.code = r.code /\ w.verdict = r.verdict /\ w.used = r.used
<1>1. G!Refined(r.intent, r.plan) \in IntentKinds
  BY DEF G!Refined, MakerRows, IntentKinds
<1>2. back \in BackendNames
  BY <1>1, Zenon DEF G!Backends, IntentKinds, G!FileKinds, BackendNames
<1>3. r.plan \in Trees /\ r.tree \in Trees /\ r.version \in Nat /\ r.written \in BOOLEAN
  BY DEF MakerRows
<1>4. [k \in G!FileKinds |-> IF k \in kept THEN r.plan[k] ELSE r.tree[k]] \in Trees
  BY <1>3 DEF Trees
<1>5. G!NoFiles \in Trees
  BY DEF G!NoFiles, Trees
<1>6. (IF kept = {} THEN r.version ELSE r.version + 1) \in Nat
  BY <1>3
<1>7. ((kept # {}) \/ r.written) \in BOOLEAN
  OBVIOUS
<1> QED
  BY <1>1, <1>2, <1>4, <1>5, <1>6, <1>7 DEF G!Written1, MakerRows

LEMMA PlanStep ==
    ASSUME G!EngineeringAssumption, EngineeringState, NEW t \in Makers, G!StructurePlan(t)
    PROVE  EngineeringState'
<1>1. v1[t].at = "plan" /\ UNCHANGED <<v2, v3, v4>> /\ MakerSound(v1[t])
  BY DEF G!StructurePlan, G!Step, EngineeringState
<1>2. PICK p \in G!Plans1(v1[t].intent) : G!Put(t, [G!Charged(v1[t], "write") EXCEPT !.plan = p])
  BY Zenon DEF G!StructurePlan
<1> DEFINE r == [G!Charged(v1[t], "write") EXCEPT !.plan = p]
<1>3. v1[t] \in MakerRows /\ ~v1[t].code /\ p \in Trees
  BY <1>1, PlanTypes DEF MakerSound
<1>4. r \in MakerRows /\ r.at = "write" /\ ~r.code
  <2> DEFINE c == G!Charged(v1[t], "write")
  <2>1. c \in MakerRows /\ c.at = "write" /\ ~c.code
    BY <1>3, ChargedTypes DEF MakerPoints
  <2> HIDE DEF c
  <2>2. r = [c EXCEPT !.plan = p]
    BY DEF c
  <2> QED
    BY <1>3, <2>1, <2>2 DEF MakerRows
<1>5. MakerSound(r)
  BY <1>4 DEF MakerSound
<1> QED
  BY <1>1, <1>2, <1>4, <1>5, QuietStep

LEMMA WriteFilesStep ==
    ASSUME G!EngineeringAssumption, EngineeringState, NEW t \in Makers, G!WriteFiles(t)
    PROVE  EngineeringState'
<1>1. v1[t].at = "write" /\ UNCHANGED <<v2, v3, v4>> /\ MakerSound(v1[t])
  BY DEF G!WriteFiles, G!Step, EngineeringState
<1> DEFINE r == G!Charged(v1[t], "read")
<1>2. PICK kept \in SUBSET G!Present(r.plan), back \in G!Backends(G!Refined(r.intent, r.plan), r.plan) :
          G!Put(t, [G!Written1(r, kept) EXCEPT !.intent = G!Refined(r.intent, r.plan), !.backend = back])
  BY Zenon DEF G!WriteFiles
<1> DEFINE w == [G!Written1(r, kept) EXCEPT !.intent = G!Refined(r.intent, r.plan), !.backend = back]
<1>3. v1[t] \in MakerRows /\ ~v1[t].code
  BY <1>1 DEF MakerSound
<1>4. r \in MakerRows /\ r.at = "read" /\ ~r.code
  BY <1>3, ChargedTypes DEF MakerPoints
<1> HIDE DEF r
<1>5. w \in MakerRows /\ w.at = "read" /\ ~w.code
  BY <1>4, WrittenTypes
<1>6. MakerSound(w)
  BY <1>5 DEF MakerSound
<1> QED
  BY <1>1, <1>2, <1>5, <1>6, QuietStep

LEMMA ReadBackStep ==
    ASSUME G!EngineeringAssumption, EngineeringState, NEW t \in Makers, G!ReadBack(t)
    PROVE  EngineeringState'
<1>1. v1[t].at = "read" /\ UNCHANGED <<v2, v3, v4>> /\ MakerSound(v1[t])
  BY DEF G!ReadBack, G!Step, EngineeringState
<1> DEFINE r == [v1[t] EXCEPT !.verdict = G!NotVerified("verify_skipped_budget")]
           s == IF ~G!Exhausted(r) /\ r.written THEN G!Charged(r, "read") ELSE r
           x == IF G!Exhausted(s) THEN [s EXCEPT !.at = "decide"] ELSE G!Charged(s, "verify")
<1>2. G!Put(t, x)
  BY Zenon DEF G!ReadBack
<1>3. v1[t] \in MakerRows /\ ~v1[t].code
  BY <1>1 DEF MakerSound
<1>4. r \in MakerRows /\ r.at = "read" /\ ~r.code /\ ~r.verdict.ok /\ r.verdict.status = "skipped"
  BY <1>1, <1>3 DEF MakerRows, G!NotVerified, Verdicts, Issues
<1> HIDE DEF r
<1>5. s \in MakerRows /\ ~s.code /\ ~s.verdict.ok /\ s.verdict.status = "skipped"
  BY <1>4, ChargedTypes DEF MakerPoints
<1> HIDE DEF s
<1>6. x \in MakerRows /\ x.at \in {"decide", "verify"} /\ ~x.code /\ ~x.verdict.ok
      /\ x.verdict.status = "skipped"
  <2>1. [s EXCEPT !.at = "decide"] \in MakerRows
    BY <1>5 DEF MakerRows, MakerPoints
  <2>2. CASE G!Exhausted(s)
    BY <1>5, <2>1, <2>2 DEF MakerRows
  <2>3. CASE ~G!Exhausted(s)
    BY <1>5, <2>3, ChargedTypes DEF MakerPoints
  <2> QED
    BY <2>2, <2>3
<1> HIDE DEF x
<1>7. MakerSound(x)
  BY <1>6 DEF MakerSound, Judged
<1> QED
  BY <1>1, <1>2, <1>6, <1>7, QuietStep

\* A verification takes a slot: the one more that runs is the one less that
\* is free.
LEMMA StartVerifyStep ==
    ASSUME G!EngineeringAssumption, EngineeringState, NEW t \in Makers, G!StartVerify(t)
    PROVE  EngineeringState'
<1>1. v1[t].at = "verify" /\ UNCHANGED <<v3, v4>> /\ MakerSound(v1[t])
  BY DEF G!StartVerify, EngineeringState
<1>2. v1[t] \in MakerRows /\ ~v1[t].code
  BY <1>1 DEF MakerSound
<1> DEFINE Unverified(why, st) ==
              [v1[t] EXCEPT !.at = "decide",
                            !.verdict = [G!NotVerified(why) EXCEPT !.status = st, !.version = v1[t].version]]
           running == [v1[t] EXCEPT !.at = "running"]
<1>3. ASSUME NEW why \in Issues, NEW st \in {"skipped", "degraded", "failed"},
             G!Put(t, Unverified(why, st)), UNCHANGED v2
      PROVE  EngineeringState'
  <2> DEFINE verdict == [G!NotVerified(why) EXCEPT !.status = st, !.version = v1[t].version]
             r == [v1[t] EXCEPT !.at = "decide", !.verdict = verdict]
  <2>1. v1[t].version \in Nat
    BY <1>2 DEF MakerRows
  <2>2. verdict \in Verdicts /\ ~verdict.ok /\ verdict.version = v1[t].version
    BY <2>1 DEF G!NotVerified, Verdicts
  <2> HIDE DEF verdict
  <2>3. r \in MakerRows /\ r.at = "decide" /\ ~r.code /\ r.verdict = verdict /\ r.version = v1[t].version
    BY <1>2, <2>2 DEF MakerRows, MakerPoints
  <2> HIDE DEF r
  <2>4. MakerSound(r)
    BY <2>2, <2>3 DEF MakerSound, Judged
  <2>5. G!Put(t, r)
    BY <1>3 DEF r, verdict
  <2> QED
    BY <1>1, <1>3, <2>3, <2>4, <2>5, QuietStep
<1>4. ASSUME G!Put(t, running), v2 > 0, v2' = v2 - 1, HasBackend(v1[t].backend)
      PROVE  EngineeringState'
  <2>1. running \in MakerRows /\ running.at = "running" /\ ~running.code /\ HasBackend(running.backend)
    BY <1>2, <1>4 DEF MakerRows, MakerPoints, HasBackend
  <2> HIDE DEF running
  <2>2. MakerSound(running)
    BY <2>1 DEF MakerSound
  <2>3. v1 = [u \in Makers |-> v1[u]] /\ IsFiniteSet(Running) /\ v2 \in Nat /\ v3 \in Nat
        /\ v2 + v3 + Cardinality(Running) = VerifySlots
    BY DEF EngineeringState, SlotsSound
  <2>4. /\ IsFiniteSet(Running') /\ Cardinality(Running) \in Nat
        /\ Cardinality(Running') = Cardinality(Running) + 1
    BY <1>1, <1>4, <2>1, <2>3, RunningMove
  <2>5. SlotsSound'
    <3>1. v3' = v3
      BY <1>1
    <3>2. v2 \in Nat /\ v2 > 0 /\ v2' = v2 - 1
      BY <1>4, <2>3
    <3>3. v3 \in Nat /\ Cardinality(Running) \in Nat /\ v2 + v3 + Cardinality(Running) = VerifySlots
      BY <2>3, <2>4
    <3>4. v2' \in Nat
      BY <3>2
    <3>5. v2' + v3 + (Cardinality(Running) + 1) = VerifySlots
      BY <3>2, <3>3
    <3> QED
      BY <2>3, <2>4, <3>1, <3>4, <3>5 DEF SlotsSound
  <2>6. v1' = [u \in Makers |-> v1'[u]] /\ \A u \in Makers : MakerSound(v1'[u])
    BY <1>4, <2>2, <2>3 DEF EngineeringState, G!Put
  <2> QED
    BY <1>1, <2>5, <2>6 DEF EngineeringState
<1>5. \/ \E why \in Issues, st \in {"skipped", "degraded", "failed"} :
            G!Put(t, Unverified(why, st)) /\ UNCHANGED v2
      \/ G!Put(t, running) /\ v2 > 0 /\ v2' = v2 - 1 /\ HasBackend(v1[t].backend)
  BY Zenon DEF G!StartVerify, G!TakeSlot, Issues, HasBackend
<1> QED
  BY <1>3, <1>4, <1>5

\* A verification ends, with the verdict of the files it ran on or with an
\* exception, and gives its slot back.
LEMMA EndVerifyStep ==
    ASSUME G!EngineeringAssumption, EngineeringState, NEW t \in Makers, G!EndVerify(t)
    PROVE  EngineeringState'
<1>1. v1[t].at = "running" /\ v2' = v2 + 1 /\ UNCHANGED <<v3, v4>> /\ MakerSound(v1[t])
  BY DEF G!EndVerify, G!SlotsAfter, EngineeringState
<1>2. v1[t] \in MakerRows /\ ~v1[t].code /\ HasBackend(v1[t].backend)
  BY <1>1 DEF MakerSound
<1>3. PICK ok \in {G!Compiles(v1[t].tree, v1[t].backend), FALSE},
           st \in {"ok", "failed", "degraded"}, issue \in Issues :
          G!Put(t, [v1[t] EXCEPT !.at = "decide",
                          !.verdict = [ok |-> ok, status |-> st, issue |-> issue, version |-> v1[t].version]])
  BY Zenon DEF G!EndVerify, Issues
<1> DEFINE verdict == [ok |-> ok, status |-> st, issue |-> issue, version |-> v1[t].version]
           r == [v1[t] EXCEPT !.at = "decide", !.verdict = verdict]
<1>4. v1[t].version \in Nat /\ ok \in BOOLEAN
  BY <1>2 DEF MakerRows, G!Compiles
<1>5. verdict \in Verdicts /\ verdict.ok = ok /\ verdict.version = v1[t].version
  BY <1>4 DEF Verdicts
<1> HIDE DEF verdict
<1>6. /\ r \in MakerRows /\ r.at = "decide" /\ ~r.code /\ r.verdict = verdict
      /\ r.version = v1[t].version /\ r.tree = v1[t].tree /\ r.backend = v1[t].backend
  BY <1>2, <1>5 DEF MakerRows, MakerPoints
<1>7. G!Put(t, r)
  BY <1>3 DEF verdict
<1> HIDE DEF r
<1>8. ok => G!Compiles(r.tree, r.backend)
  BY <1>3, <1>6
<1>9. MakerSound(r)
  BY <1>2, <1>5, <1>6, <1>8 DEF MakerSound, Judged
<1>10. v1 = [u \in Makers |-> v1[u]] /\ IsFiniteSet(Running) /\ v2 \in Nat /\ v3 \in Nat
       /\ v2 + v3 + Cardinality(Running) = VerifySlots
  BY DEF EngineeringState, SlotsSound
<1>11. /\ IsFiniteSet(Running') /\ Cardinality(Running') \in Nat
       /\ Cardinality(Running) = Cardinality(Running') + 1
  BY <1>1, <1>6, <1>7, <1>10, RunningMove
<1>12. SlotsSound'
  <2>1. v3' = v3
    BY <1>1
  <2>2. v2 \in Nat /\ v2' = v2 + 1
    BY <1>1, <1>10
  <2>3. v2' \in Nat
    BY <2>2
  <2>4. /\ v3 \in Nat /\ Cardinality(Running') \in Nat
        /\ v2 + v3 + (Cardinality(Running') + 1) = VerifySlots
    BY <1>10, <1>11
  <2>5. v2' + v3 + Cardinality(Running') = VerifySlots
    BY <2>2, <2>4
  <2> QED
    BY <1>10, <1>11, <2>1, <2>3, <2>5 DEF SlotsSound
<1>13. v1' = [u \in Makers |-> v1'[u]] /\ \A u \in Makers : MakerSound(v1'[u])
  BY <1>7, <1>9, <1>10 DEF EngineeringState, G!Put
<1> QED
  BY <1>1, <1>12, <1>13 DEF EngineeringState

\* Only a verdict that is not ok leads to a repair.
LEMMA DecideStep ==
    ASSUME G!EngineeringAssumption, EngineeringState, NEW t \in Makers, G!Decide(t)
    PROVE  EngineeringState'
<1>1. v1[t].at = "decide" /\ UNCHANGED <<v2, v3, v4>> /\ MakerSound(v1[t])
  BY DEF G!Decide, EngineeringState
<1>2. v1[t] \in MakerRows /\ ~v1[t].code /\ Judged(v1[t])
  BY <1>1 DEF MakerSound
<1>3. ASSUME NEW r \in MakerRows, G!Put(t, r), ~r.code,
             \/ r.at \in {"llm", "minimal"} /\ ~r.verdict.ok
             \/ r.at = "final" /\ Judged(r)
      PROVE  EngineeringState'
  <2>1. MakerSound(r)
    BY <1>3 DEF MakerSound
  <2> QED
    BY <1>1, <1>3, <2>1, QuietStep
<1>4. CASE v1[t].minimal
  <2> DEFINE r == [v1[t] EXCEPT !.minimal = FALSE,
                       !.at = IF v1[t].verdict.ok \/ G!Exhausted(v1[t]) THEN "final" ELSE "llm"]
  <2>1. G!Put(t, r)
    BY <1>4 DEF G!Decide
  <2>2. /\ r \in MakerRows /\ ~r.code /\ r.verdict = v1[t].verdict /\ r.version = v1[t].version
        /\ r.backend = v1[t].backend /\ r.tree = v1[t].tree
        /\ r.at = IF v1[t].verdict.ok \/ G!Exhausted(v1[t]) THEN "final" ELSE "llm"
    BY <1>2 DEF MakerRows, MakerPoints
  <2> HIDE DEF r
  <2> QED
    BY <1>2, <1>3, <2>1, <2>2 DEF Judged
<1>5. CASE ~v1[t].minimal
  <2> DEFINE again == [v1[t] EXCEPT !.attempts = @ + 1,
                           !.at = IF v1[t].attempts = 0 THEN "minimal" ELSE "llm"]
             end == [v1[t] EXCEPT !.at = "final"]
  <2>1. \/ G!MayRepair(v1[t]) /\ G!Put(t, again)
        \/ G!Put(t, end)
    BY <1>5 DEF G!Decide
  <2>2. v1[t].attempts + 1 \in Nat
    <3>1. v1[t].attempts \in Nat
      BY <1>2 DEF MakerRows
    <3> QED
      BY <3>1
  <2>3. again \in MakerRows /\ ~again.code /\ again.verdict = v1[t].verdict
        /\ again.at \in {"minimal", "llm"}
    BY <1>2, <2>2 DEF MakerRows, MakerPoints
  <2>4. /\ end \in MakerRows /\ ~end.code /\ end.verdict = v1[t].verdict /\ end.version = v1[t].version
        /\ end.backend = v1[t].backend /\ end.tree = v1[t].tree /\ end.at = "final"
    BY <1>2 DEF MakerRows, MakerPoints
  <2> HIDE DEF again, end
  <2>5. G!MayRepair(v1[t]) => ~v1[t].verdict.ok
    BY DEF G!MayRepair
  <2> QED
    BY <1>2, <1>3, <2>1, <2>3, <2>4, <2>5 DEF Judged
<1> QED
  BY <1>2, <1>4, <1>5 DEF MakerRows

\* A repair of the written files forgets their verdict by going back to the
\* verification.
LEMMA MinimalRepairStep ==
    ASSUME G!EngineeringAssumption, EngineeringState, NEW t \in Makers, G!MinimalRepair(t)
    PROVE  EngineeringState'
<1>1. v1[t].at = "minimal" /\ UNCHANGED <<v2, v3, v4>> /\ MakerSound(v1[t])
  BY DEF G!MinimalRepair, G!Step, EngineeringState
<1>2. v1[t] \in MakerRows /\ ~v1[t].code /\ ~v1[t].verdict.ok
  BY <1>1 DEF MakerSound
<1> DEFINE c == G!Charged(v1[t], "minimal")
           Mended(q) == [c EXCEPT !.at = "verify", !.minimal = TRUE, !.version = @ + 1,
                             !.tree = [k \in G!FileKinds |-> IF @[k] = "bad" THEN q ELSE @[k]]]
           kept == [c EXCEPT !.at = IF G!Exhausted(c) THEN "final" ELSE "llm"]
           failed == [c EXCEPT !.at = "done", !.out = "FAILED"]
<1>3. \/ \E q \in {"bad", "good"} : G!Put(t, Mended(q))
      \/ G!Put(t, kept) \/ G!Put(t, failed)
  BY Zenon DEF G!MinimalRepair
<1>4. c \in MakerRows /\ ~c.code /\ ~c.verdict.ok
  BY <1>2, ChargedTypes DEF MakerPoints
<1> HIDE DEF c
<1>5. ASSUME NEW q \in {"bad", "good"}, G!Put(t, Mended(q)) PROVE EngineeringState'
  <2> DEFINE tree == [k \in G!FileKinds |-> IF c.tree[k] = "bad" THEN q ELSE c.tree[k]]
             r == [c EXCEPT !.at = "verify", !.minimal = TRUE, !.version = c.version + 1, !.tree = tree]
  <2>1. c.tree \in Trees /\ c.version \in Nat
    BY <1>4 DEF MakerRows
  <2>2. tree \in Trees
    BY <2>1 DEF Trees
  <2>3. c.version + 1 \in Nat
    BY <2>1
  <2> HIDE DEF tree
  <2>4. r \in MakerRows /\ r.at = "verify" /\ ~r.code
    BY <1>4, <2>2, <2>3 DEF MakerRows, MakerPoints
  <2>5. G!Put(t, r)
    BY <1>5 DEF tree
  <2> HIDE DEF r
  <2>6. MakerSound(r)
    BY <2>4 DEF MakerSound
  <2> QED
    BY <1>1, <2>4, <2>5, <2>6, QuietStep
<1>6. ASSUME G!Put(t, kept) PROVE EngineeringState'
  <2>1. /\ kept \in MakerRows /\ ~kept.code /\ ~kept.verdict.ok /\ kept.used = c.used
        /\ kept.at = IF G!Exhausted(c) THEN "final" ELSE "llm"
    BY <1>4 DEF MakerRows, MakerPoints
  <2> HIDE DEF kept
  <2>2. MakerSound(kept) /\ kept.at # "running"
    BY <2>1 DEF MakerSound, G!Exhausted
  <2> QED
    BY <1>1, <1>6, <2>2, QuietStep
<1>7. ASSUME G!Put(t, failed) PROVE EngineeringState'
  <2>1. failed \in MakerRows /\ ~failed.code /\ failed.at = "done" /\ failed.out = "FAILED"
    BY <1>4 DEF MakerRows, MakerPoints
  <2> HIDE DEF failed
  <2>2. MakerSound(failed)
    BY <2>1 DEF MakerSound
  <2> QED
    BY <1>1, <1>7, <2>1, <2>2, QuietStep
<1> QED
  BY <1>3, <1>5, <1>6, <1>7

LEMMA LlmRepairStep ==
    ASSUME G!EngineeringAssumption, EngineeringState, NEW t \in Makers, G!LlmRepair(t)
    PROVE  EngineeringState'
<1>1. v1[t].at = "llm" /\ UNCHANGED <<v2, v3, v4>> /\ MakerSound(v1[t])
  BY DEF G!LlmRepair, G!Step, EngineeringState
<1>2. v1[t] \in MakerRows /\ ~v1[t].code /\ ~v1[t].verdict.ok
  BY <1>1 DEF MakerSound
<1> DEFINE c == G!Charged(v1[t], "rewrite")
<1>3. PICK p \in G!Plans1(v1[t].intent) :
          G!Put(t, [c EXCEPT !.plan = p, !.at = IF G!Exhausted(c) THEN "final" ELSE "rewrite"])
  BY Zenon DEF G!LlmRepair
<1> DEFINE r == [c EXCEPT !.plan = p, !.at = IF G!Exhausted(c) THEN "final" ELSE "rewrite"]
<1>4. c \in MakerRows /\ ~c.code /\ ~c.verdict.ok /\ p \in Trees
  BY <1>2, ChargedTypes, PlanTypes DEF MakerPoints
<1> HIDE DEF c
<1>5. /\ r \in MakerRows /\ ~r.code /\ ~r.verdict.ok /\ r.used = c.used
      /\ r.at = IF G!Exhausted(c) THEN "final" ELSE "rewrite"
  BY <1>4 DEF MakerRows, MakerPoints
<1>6. G!Put(t, r)
  BY <1>3
<1> HIDE DEF r
<1>7. MakerSound(r) /\ r.at # "running"
  BY <1>5 DEF MakerSound, G!Exhausted
<1> QED
  BY <1>1, <1>6, <1>7, QuietStep

\* Files of a repair are delivered without a verification only if the budget
\* is exhausted, and then the verdict is still one that failed.
LEMMA RepairWriteStep ==
    ASSUME G!EngineeringAssumption, EngineeringState, NEW t \in Makers, G!RepairWrite(t)
    PROVE  EngineeringState'
<1>1. v1[t].at = "rewrite" /\ UNCHANGED <<v2, v3, v4>> /\ MakerSound(v1[t])
  BY DEF G!RepairWrite, G!Step, EngineeringState
<1>2. v1[t] \in MakerRows /\ ~v1[t].code /\ ~v1[t].verdict.ok
  BY <1>1 DEF MakerSound
<1> DEFINE c == G!Charged(v1[t], "rewrite")
           W1(kept, back) == [G!Written1(c, kept) EXCEPT !.intent = G!Refined(c.intent, c.plan), !.backend = back]
<1>3. PICK kept \in SUBSET G!Present(c.plan) : \E back \in G!Backends(G!Refined(c.intent, c.plan), c.plan) :
          G!Put(t, IF G!Exhausted(W1(kept, back)) THEN [W1(kept, back) EXCEPT !.at = "final"]
                   ELSE G!Charged(W1(kept, back), "verify"))
  BY Zenon DEF G!RepairWrite
<1>4. PICK back \in G!Backends(G!Refined(c.intent, c.plan), c.plan) :
          G!Put(t, IF G!Exhausted(W1(kept, back)) THEN [W1(kept, back) EXCEPT !.at = "final"]
                   ELSE G!Charged(W1(kept, back), "verify"))
  BY <1>3
<1> DEFINE w == W1(kept, back)
           r == IF G!Exhausted(w) THEN [w EXCEPT !.at = "final"] ELSE G!Charged(w, "verify")
<1>5. c \in MakerRows /\ c.at = "rewrite" /\ ~c.code /\ ~c.verdict.ok
  BY <1>2, ChargedTypes DEF MakerPoints
<1> HIDE DEF c
<1>6. w \in MakerRows /\ ~w.code /\ ~w.verdict.ok
  BY <1>5, WrittenTypes
<1>7. G!Put(t, r)
  BY <1>4
<1> HIDE DEF w
<1>8. [w EXCEPT !.at = "final"] \in MakerRows
  BY <1>6 DEF MakerRows, MakerPoints
<1>9. MakerSound(r) /\ r.at # "running"
  <2>1. CASE G!Exhausted(w)
    <3>1. r = [w EXCEPT !.at = "final"]
      BY <2>1
    <3>2. r \in MakerRows /\ r.at = "final" /\ ~r.code /\ ~r.verdict.ok /\ r.used = w.used
      BY <1>6, <1>8, <3>1 DEF MakerRows
    <3> HIDE DEF r
    <3> QED
      BY <2>1, <3>2 DEF MakerSound, G!Exhausted
  <2>2. CASE ~G!Exhausted(w)
    <3>1. r = G!Charged(w, "verify")
      BY <2>2
    <3> HIDE DEF r
    <3>2. r \in MakerRows /\ r.at = "verify" /\ ~r.code
      BY <1>6, <3>1, ChargedTypes DEF MakerPoints
    <3> QED
      BY <3>2 DEF MakerSound
  <2> QED
    BY <2>1, <2>2
<1> HIDE DEF r
<1> QED
  BY <1>1, <1>7, <1>9, QuietStep

\* The status that is delivered is ok or failed only for files that the
\* verdict is about.
LEMMA FinalizeStep ==
    ASSUME G!EngineeringAssumption, EngineeringState, NEW t \in Makers, G!Finalize(t)
    PROVE  EngineeringState'
<1>1. v1[t].at = "final" /\ UNCHANGED <<v2, v3, v4>> /\ MakerSound(v1[t])
  BY DEF G!Finalize, EngineeringState
<1>2. v1[t] \in MakerRows /\ ~v1[t].code
      /\ (Judged(v1[t]) \/ (G!Exhausted(v1[t]) /\ ~v1[t].verdict.ok))
  BY <1>1 DEF MakerSound
<1> DEFINE st == G!FinalStatus(v1[t])
           verdict == [v1[t].verdict EXCEPT !.status = st]
           r == [v1[t] EXCEPT !.at = "done", !.out = "REASONED", !.verdict = verdict]
<1>3. v1[t].verdict \in Verdicts
  BY <1>2 DEF MakerRows
<1>4. st \in {"skipped", "degraded", "failed", "ok"}
  BY <1>3 DEF G!FinalStatus, Verdicts
<1>5. verdict \in Verdicts /\ verdict.ok = v1[t].verdict.ok /\ verdict.status = st
      /\ verdict.version = v1[t].verdict.version
  BY <1>3, <1>4 DEF Verdicts
<1>6. v1[t].verdict.ok \in BOOLEAN /\ v1[t].attempts \in Nat
  BY <1>2, <1>3 DEF Verdicts, MakerRows
<1>7. st \in {"ok", "failed"} => v1[t].verdict.version = v1[t].version
  <2>1. CASE Judged(v1[t]) /\ v1[t].verdict.status = "skipped" /\ ~v1[t].verdict.ok
    BY <2>1 DEF G!FinalStatus
  <2>2. CASE Judged(v1[t]) /\ ~(v1[t].verdict.status = "skipped" /\ ~v1[t].verdict.ok)
    BY <2>2 DEF Judged
  <2>3. CASE G!Exhausted(v1[t]) /\ ~v1[t].verdict.ok
    BY <2>3 DEF G!FinalStatus
  <2> QED
    BY <1>2, <2>1, <2>2, <2>3
<1>8. G!Put(t, r)
  BY DEF G!Finalize
<1> HIDE DEF verdict, st
<1>9. /\ r \in MakerRows /\ r.at = "done" /\ ~r.code /\ r.verdict = verdict /\ r.version = v1[t].version
      /\ r.backend = v1[t].backend /\ r.tree = v1[t].tree
  BY <1>2, <1>5 DEF MakerRows, MakerPoints
<1> HIDE DEF r
<1>10. r.verdict.ok => HasBackend(r.backend) /\ G!Compiles(r.tree, r.backend)
  BY <1>2, <1>5, <1>9 DEF Judged
<1>11. r.verdict.status \in {"ok", "failed"} => r.verdict.version = r.version
  BY <1>5, <1>7, <1>9
<1>12. MakerSound(r)
  BY <1>9, <1>10, <1>11 DEF MakerSound
<1> QED
  BY <1>1, <1>8, <1>9, <1>12, QuietStep

LEMMA HaltStep ==
    ASSUME G!EngineeringAssumption, EngineeringState, NEW t \in Makers, G!Halt(t)
    PROVE  EngineeringState'
<1>1. /\ v1[t].at # "running" /\ UNCHANGED <<v2, v3, v4>> /\ MakerSound(v1[t])
      /\ v4[t] \in {"PAUSED", "CANCELLED"}
      /\ G!Put(t, [v1[t] EXCEPT !.at = "done", !.out = v4[t]])
  BY DEF G!Halt, EngineeringState
<1> DEFINE r == [v1[t] EXCEPT !.at = "done", !.out = v4[t]]
<1>2. v1[t] \in MakerRows
  BY <1>1 DEF MakerSound
<1>3. r \in MakerRows /\ r.at = "done" /\ r.out # "REASONED"
  BY <1>1, <1>2 DEF MakerRows, MakerPoints
<1>4. G!Put(t, r)
  BY <1>1
<1> HIDE DEF r
<1>5. MakerSound(r)
  BY <1>3 DEF MakerSound
<1> QED
  BY <1>1, <1>3, <1>4, <1>5, QuietStep

\* A code answer is delivered as verified only with the code that was
\* accepted: what replaces it is compiled, or delivered as failed.
LEMMA CompileStep ==
    ASSUME G!EngineeringAssumption, EngineeringState, NEW t \in Makers, G!CompileCode(t)
    PROVE  EngineeringState'
<1>1. v1[t].at = "compile" /\ UNCHANGED <<v2, v3, v4>> /\ MakerSound(v1[t])
  BY DEF G!CompileCode, G!Step, EngineeringState
<1>2. v1[t] \in MakerRows /\ v1[t].code
  BY <1>1 DEF MakerSound
<1> DEFINE Verdict(ok, st) == [ok |-> ok, status |-> st, issue |-> "", version |-> v1[t].version]
           Tried(ok, st) == [v1[t] EXCEPT !.attempts = @ + 1, !.verdict = Verdict(ok, st)]
           Answer(x) == [x EXCEPT !.at = "done", !.out = "REASONED"]
<1>3. \/ v1[t].tree["cpp"] = "good" /\ G!Put(t, Answer(Tried(TRUE, "ok")))
      \/ \E st \in G!FailedStatus, q \in G!RepairedCode :
            G!Put(t, IF q = "none" THEN Answer(Tried(FALSE, st))
                     ELSE IF Tried(FALSE, st).attempts < MaxAttempts THEN G!Replaced(Tried(FALSE, st), q)
                     ELSE Answer(G!Replaced(Tried(FALSE, st), q)))
  BY Zenon DEF G!CompileCode, G!Accepted
<1>4. v1[t].version \in Nat /\ v1[t].attempts \in Nat /\ v1[t].attempts + 1 \in Nat /\ "" \in Issues
  <2>1. v1[t].version \in Nat /\ v1[t].attempts \in Nat
    BY <1>2 DEF MakerRows
  <2>2. "" \in Issues
    BY Zenon DEF Issues
  <2>3. v1[t].attempts + 1 \in Nat
    BY <2>1
  <2> QED
    BY <2>1, <2>2, <2>3, Zenon
<1>5. ASSUME NEW ok \in BOOLEAN, NEW st \in {"ok", "failed", "degraded"}
      PROVE  /\ Tried(ok, st) \in MakerRows /\ Tried(ok, st).code /\ Tried(ok, st).at = "compile"
             /\ Tried(ok, st).verdict.ok = ok /\ Tried(ok, st).tree = v1[t].tree
  <2> DEFINE v == Verdict(ok, st)
             n == v1[t].attempts + 1
             r == [v1[t] EXCEPT !.attempts = n, !.verdict = v]
  <2>1. v \in Verdicts
    BY <1>4, Zenon DEF Verdicts
  <2>2. v.ok = ok
    BY Zenon
  <2>3. Tried(ok, st) = r
    BY Zenon
  <2>4. n \in Nat
    BY <1>4, Zenon
  <2> HIDE DEF v, n, Tried
  <2>5. r \in MakerRows /\ r.code /\ r.at = "compile" /\ r.verdict = v /\ r.tree = v1[t].tree
    BY <1>1, <1>2, <2>1, <2>4 DEF MakerRows
  <2> HIDE DEF r
  <2> QED
    BY <2>2, <2>3, <2>5
<1> HIDE DEF Tried
<1>6. ASSUME NEW x \in MakerRows, x.code, x.verdict.ok => x.tree["cpp"] = "good", G!Put(t, Answer(x))
      PROVE  EngineeringState'
  <2> DEFINE r == Answer(x)
  <2>1. r \in MakerRows /\ r.at = "done" /\ r.code /\ r.verdict = x.verdict /\ r.tree = x.tree
    BY <1>6 DEF MakerRows, MakerPoints
  <2>2. G!Put(t, r)
    BY <1>6
  <2> HIDE DEF r
  <2>3. MakerSound(r)
    BY <1>6, <2>1 DEF MakerSound
  <2> QED
    BY <1>1, <2>1, <2>2, <2>3, QuietStep
<1>7. ASSUME NEW x \in MakerRows, x.code, x.at = "compile", G!Put(t, x)
      PROVE  EngineeringState'
  <2>1. MakerSound(x)
    BY <1>7 DEF MakerSound
  <2> QED
    BY <1>1, <1>7, <2>1, QuietStep
<1>8. ASSUME NEW x \in MakerRows, NEW q \in {"bad", "good"}
      PROVE  /\ G!Replaced(x, q) \in MakerRows /\ G!Replaced(x, q).code = x.code
             /\ G!Replaced(x, q).at = x.at /\ G!Replaced(x, q).verdict = x.verdict
  <2> DEFINE tree == [G!NoFiles EXCEPT !["cpp"] = q]
             n == x.version + 1
  <2>1. tree \in Trees
    BY DEF G!NoFiles, G!FileKinds, Trees
  <2>2. x.version \in Nat
    BY DEF MakerRows
  <2>3. n \in Nat
    BY <2>2
  <2>4. G!Replaced(x, q) = [x EXCEPT !.tree = tree, !.version = n]
    BY DEF G!Replaced
  <2> HIDE DEF tree, n
  <2> QED
    BY <2>1, <2>3, <2>4 DEF MakerRows
<1>9. CASE v1[t].tree["cpp"] = "good" /\ G!Put(t, Answer(Tried(TRUE, "ok")))
  BY <1>5, <1>6, <1>9
<1>10. ASSUME NEW st \in G!FailedStatus, NEW q \in G!RepairedCode,
              G!Put(t, IF q = "none" THEN Answer(Tried(FALSE, st))
                       ELSE IF Tried(FALSE, st).attempts < MaxAttempts THEN G!Replaced(Tried(FALSE, st), q)
                       ELSE Answer(G!Replaced(Tried(FALSE, st), q)))
       PROVE  EngineeringState'
  <2> DEFINE x == Tried(FALSE, st)
  <2>1. x \in MakerRows /\ x.code /\ x.at = "compile" /\ ~x.verdict.ok
    BY <1>5 DEF G!FailedStatus
  <2>2. q \in {"none", "bad", "good"}
    BY DEF G!RepairedCode
  <2> HIDE DEF x
  <2>3. CASE q = "none"
    <3>1. G!Put(t, Answer(x))
      BY <1>10, <2>3 DEF x
    <3> QED
      BY <1>6, <2>1, <3>1
  <2>4. CASE q # "none"
    <3>1. G!Put(t, G!Replaced(x, q)) \/ G!Put(t, Answer(G!Replaced(x, q)))
      BY <1>10, <2>4 DEF x
    <3>2. /\ G!Replaced(x, q) \in MakerRows /\ G!Replaced(x, q).code
          /\ G!Replaced(x, q).at = "compile" /\ ~G!Replaced(x, q).verdict.ok
      BY <1>8, <2>1, <2>2, <2>4
    <3> QED
      BY <1>6, <1>7, <3>1, <3>2
  <2> QED
    BY <2>3, <2>4
<1> QED
  BY <1>3, <1>9, <1>10

\* Verifications of tools take and return slots as well.
LEMMA ToolStep ==
    ASSUME G!EngineeringAssumption, EngineeringState, G!ToolVerify \/ G!ToolVerified
    PROVE  EngineeringState'
<1>1. UNCHANGED <<v1, v4>>
  BY DEF G!ToolVerify, G!ToolVerified
<1>2. Running' = Running
  BY <1>1 DEF Running
<1>3. v2 \in Nat /\ v3 \in Nat
  BY DEF EngineeringState, SlotsSound
<1>4. v2' \in Nat /\ v3' \in Nat /\ v2' + v3' = v2 + v3
  BY <1>3 DEF G!ToolVerify, G!ToolVerified, G!SlotsAfter
<1>5. SlotsSound'
  <2>1. v2' + v3' + Cardinality(Running) = v2 + v3 + Cardinality(Running)
    BY <1>4
  <2>2. v2 + v3 + Cardinality(Running) = VerifySlots /\ IsFiniteSet(Running)
    BY DEF EngineeringState, SlotsSound
  <2>3. v2' + v3' + Cardinality(Running) = VerifySlots
    BY <2>1, <2>2
  <2> QED
    BY <1>2, <1>4, <2>2, <2>3 DEF SlotsSound
<1>6. v1' = [u \in Makers |-> v1'[u]] /\ \A u \in Makers : MakerSound(v1'[u])
  BY <1>1 DEF EngineeringState
<1> QED
  BY <1>1, <1>5, <1>6 DEF EngineeringState

LEMMA AskForStep ==
    ASSUME G!EngineeringAssumption, EngineeringState, NEW t \in Makers, G!AskFor(t)
    PROVE  EngineeringState'
<1>1. UNCHANGED <<v1, v2, v3>> /\ \E what \in {"PAUSED", "CANCELLED"} : v4' = [v4 EXCEPT ![t] = what]
  BY DEF G!AskFor
<1>2. v4' \in [Makers -> {"none", "PAUSED", "CANCELLED"}]
  BY <1>1 DEF EngineeringState
<1>3. SlotsSound'
  BY <1>1 DEF EngineeringState, SlotsSound, Running
<1> QED
  BY <1>1, <1>2, <1>3 DEF EngineeringState

LEMMA EngineeringInitInv == G!EngineeringAssumption /\ G!EngineeringInit => EngineeringState
<1> SUFFICES ASSUME G!EngineeringAssumption, G!EngineeringInit PROVE EngineeringState
  OBVIOUS
<1>1. v1 = [t \in Makers |-> G!Unstarted] /\ v2 = VerifySlots /\ v3 = 0
      /\ v4 = [t \in Makers |-> "none"]
  BY DEF G!EngineeringInit
<1>2. G!Unstarted \in MakerRows /\ G!Unstarted.at = "idle" /\ ~G!Unstarted.code
  <2>1. G!NoFiles \in Trees
    BY DEF G!NoFiles, Trees
  <2>2. G!NotVerified("not_started") \in Verdicts
    <3>1. "not_started" \in Issues
      BY Zenon DEF Issues
    <3> QED
      BY <3>1 DEF G!NotVerified, Verdicts
  <2>3. "" \in BackendNames /\ "general" \in IntentKinds /\ "idle" \in MakerPoints
    BY Zenon DEF BackendNames, IntentKinds, MakerPoints
  <2> DEFINE none == ""
             trees == G!NoFiles
             verdict == G!NotVerified("not_started")
  <2>4. G!Unstarted =
          [at |-> "idle", used |-> 0, attempts |-> 0, intent |-> "general", backend |-> none,
           tree |-> trees, version |-> 0, plan |-> trees, written |-> FALSE,
           verdict |-> verdict, minimal |-> FALSE, code |-> FALSE, out |-> "none"]
    BY Zenon DEF G!Unstarted
  <2>5. none \in BackendNames
    BY <2>3, Zenon
  <2> HIDE DEF none, trees, verdict
  <2> QED
    BY <2>1, <2>2, <2>3, <2>4, <2>5 DEF MakerRows, trees, verdict
<1>3. MakerSound(G!Unstarted)
  BY <1>2 DEF MakerSound
<1>4. Running = {}
  BY <1>1, <1>2 DEF Running
<1>5. SlotsSound
  BY <1>1, <1>4, EngineeringConstants, FS_EmptySet DEF SlotsSound
<1> QED
  BY <1>1, <1>3, <1>5 DEF EngineeringState

\* Deliveries (engineering_execution.py, project_verify/backends.py,
\* code_artifact_pipeline.py): for any number of tasks and slots and any
\* budget, a verdict that is delivered is about the files that are left, code
\* marked verified is the code that was compiled, and no slot is lost.
THEOREM EngineeringCorrect == Spec => []EngineeringSound
<1> USE MakingAssumptions
<1>0. G!EngineeringAssumption
  BY DEF MakingAssumptions
<1>1. Init => EngineeringInv
  <2> SUFFICES ASSUME Init, part = "engineering" PROVE EngineeringState
    BY DEF EngineeringInv
  <2>1. G!EngineeringInit
    BY DEF Init
  <2> QED
    BY <1>0, <2>1, EngineeringInitInv
<1>2. EngineeringInv /\ [Next]_vars => EngineeringInv'
  <2> SUFFICES ASSUME EngineeringInv, [Next]_vars, part' = "engineering" PROVE EngineeringState'
    BY DEF EngineeringInv
  <2>1. part = "engineering" /\ EngineeringState
    BY DEF Next, vars, EngineeringInv
  <2>2. ASSUME NEW t \in Makers, G!MakerStep(t) \/ G!AskFor(t) PROVE EngineeringState'
    BY <1>0, <2>1, <2>2, BeginStep, PlanStep, WriteFilesStep, ReadBackStep, StartVerifyStep,
       EndVerifyStep, DecideStep, MinimalRepairStep, LlmRepairStep, RepairWriteStep,
       FinalizeStep, HaltStep, CompileStep, AskForStep DEF G!MakerStep
  <2>3. CASE UNCHANGED vars
    <3>1. UNCHANGED <<v1, v2, v3, v4>>
      BY <2>3 DEF vars
    <3>2. SlotsSound'
      BY <2>1, <3>1 DEF EngineeringState, SlotsSound, Running
    <3> QED
      BY <2>1, <3>1, <3>2 DEF EngineeringState
  <2>4. CASE G!EngineeringNext
    BY <1>0, <2>1, <2>2, <2>4, ToolStep DEF G!EngineeringNext
  <2> QED
    BY <2>1, <2>3, <2>4 DEF Next
<1>3. EngineeringInv => EngineeringSound
  <2> SUFFICES ASSUME part = "engineering", EngineeringState
               PROVE  G!VerdictIsForDelivery /\ G!SlotsAccounted
    BY DEF EngineeringInv, EngineeringSound
  <2>1. G!VerdictIsForDelivery
    <3>1. \A t \in Makers : MakerSound(v1[t])
      BY DEF EngineeringState
    <3> QED
      BY <3>1, Zenon DEF MakerSound, HasBackend, G!VerdictIsForDelivery, G!Delivered
  <2>2. v2 + v3 + G!Cardinality(Running) = VerifySlots
    BY EngineeringCount DEF EngineeringState, SlotsSound
  <2>3. Running = {t \in Makers : v1[t].at = "running"}
    BY DEF Running
  <2> QED
    BY <2>1, <2>2, <2>3 DEF G!SlotsAccounted
<1> QED
  BY <1>1, <1>2, <1>3, PTL DEF Spec

-----------------------------------------------------------------------------
(* Files of a session (SessionFiles): v1 are the files, v2 the clock, v3   *)
(* the cache, v4, v5 and v12 the tokens of removals, v6 the graph, v7 the  *)
(* schedule, v8 the tools, v13 the paths another run wrote in between.     *)

\* The record of a tool.
IsNode(r) == DOMAIN r = {"at", "path", "text", "token", "ok"}
\* Where a tool can be; it is active between its start and its outcome.
NodePoints == {"wait", "text", "store", "edit", "rm", "done"}
Left == v7.remaining \cup v7.layer \cup v7.batch
Active(r) == r.at \notin {"wait", "done"}

FileTypes ==
    /\ v2 \in Nat
    /\ DOMAIN v1 = Paths
    /\ \A p \in Paths : v1[p].stamp \in Nat /\ v1[p].stamp <= v2 /\ F!FileFits(v1[p].text)
    /\ \A e \in v3 : e.fp[2] \in Nat /\ e.fp[2] <= v2
TokenTypes ==
    /\ v5 \in 0 .. MaxTokens
    /\ v4 \in [Paths -> 0 .. v5]
    /\ v12 \in [1 .. MaxTokens -> {0, 1}]
ToolTypes ==
    /\ v6 \in Plans
    /\ v7 \in [remaining : SUBSET ToolNodes, layer : SUBSET ToolNodes, batch : SUBSET ToolNodes]
    /\ DOMAIN v8 = ToolNodes
    /\ \A n \in ToolNodes : IsNode(v8[n]) /\ v8[n].at \in NodePoints

\* What is not left has an outcome, and so have the tools that a started one
\* depends on; what runs is of the batch, which is of readers or a single tool.
ScheduleSound ==
    /\ \A n \in ToolNodes \ Left : v8[n].at = "done"
    /\ \A n \in ToolNodes : Active(v8[n]) => n \in v7.batch
    /\ (\A n \in v7.batch : v6.kind[n] = "read") \/ \E n \in ToolNodes : v7.batch = {n}
    /\ F!AcyclicPlan => \A n \in v7.layer \cup v7.batch : v6.deps[n] \cap Left = {}

\* What a tool has read is what the file holds.
RowSound(r, kind) ==
    /\ r.at \in {"text", "store"} => kind = "read"
    /\ r.at = "edit" => kind = "edit"
    /\ r.at = "rm" => kind = "rm"
    /\ Active(r) => r.path \in Paths
    /\ r.at \in {"store", "edit"} /\ r.path \notin v13 => r.text = v1[r.path].text
ToolsSound == \A n \in ToolNodes : RowSound(v8[n], v6.kind[n])

\* The time of the last change tells what a file holds, also of its copies and
\* after it was moved.
StampsTell ==
    /\ \A p, q \in Paths : v1[p].stamp = v1[q].stamp /\ v1[p].stamp > 0 => v1[p].text = v1[q].text
    /\ \A e \in v3, p \in Paths :
          e.path \notin v13 /\ e.fp[2] = v1[p].stamp /\ v1[p].stamp > 0 => e.text = v1[p].text

\* A token belongs to one path, and no more once it has removed a file.
TokensSingle ==
    /\ \A p, q \in Paths : v4[p] = v4[q] /\ v4[p] # 0 => p = q
    /\ \A t \in 1 .. MaxTokens : v12[t] = 1 => t <= v5 /\ \A p \in Paths : v4[p] # t

\* The inductive invariant.
FilesState ==
    /\ FileTypes /\ TokenTypes /\ ToolTypes
    /\ ScheduleSound /\ ToolsSound /\ StampsTell /\ TokensSingle
FilesInv == part = "files" => FilesState

\* A tool moves on.
Moves(n, r) ==
    /\ n \in v7.batch /\ v8[n].at # "done"
    /\ v8' = [v8 EXCEPT ![n] = r] /\ IsNode(r) /\ r.at \in NodePoints \ {"wait"}
    /\ UNCHANGED <<v6, v7, v13>>

\* A tool that moves on changes nothing of the schedule (execute_tool_stages).
LEMMA MovesSchedule ==
    ASSUME FilesState, NEW n \in ToolNodes, NEW r, Moves(n, r)
    PROVE  ToolTypes' /\ ScheduleSound' /\ v8'[n] = r /\ \A m \in ToolNodes : m # n => v8'[m] = v8[m]
<1>1. v8'[n] = r /\ \A m \in ToolNodes : m # n => v8'[m] = v8[m]
  BY DEF FilesState, ToolTypes, Moves
<1>2. v6' = v6 /\ v7' = v7 /\ n \in v7.batch /\ v8[n].at # "done" /\ IsNode(r)
      /\ r.at \in NodePoints
  BY DEF Moves
<1>3. DOMAIN v8' = ToolNodes  BY DEF FilesState, ToolTypes, Moves
<1>4. ToolTypes'  BY <1>1, <1>2, <1>3 DEF FilesState, ToolTypes, IsNode
<1>5. Left' = Left /\ n \in Left /\ F!AcyclicPlan' = F!AcyclicPlan
  BY <1>2 DEF Left, F!AcyclicPlan
<1>6. \A m \in ToolNodes \ Left : v8'[m].at = "done"
  BY <1>1, <1>5 DEF FilesState, ScheduleSound
<1>7. \A m \in ToolNodes : Active(v8'[m]) => m \in v7.batch
  BY <1>1, <1>2 DEF FilesState, ScheduleSound
<1>8. ScheduleSound'
  BY <1>2, <1>5, <1>6, <1>7 DEF FilesState, ScheduleSound, Active
<1> QED  BY <1>1, <1>4, <1>8

\* Nothing happens to the files.
LEMMA FilesKept ==
    ASSUME FilesState, NEW n \in ToolNodes, NEW r, Moves(n, r), RowSound(r, v6.kind[n]),
           UNCHANGED <<v1, v2, v3>>
    PROVE  FileTypes' /\ ToolTypes' /\ ScheduleSound' /\ ToolsSound' /\ StampsTell'
<1>1. /\ ToolTypes' /\ ScheduleSound' /\ v8'[n] = r
      /\ \A m \in ToolNodes : m # n => v8'[m] = v8[m]
  BY MovesSchedule
<1>2. v6' = v6 /\ v13' = v13  BY DEF Moves
<1>3. ToolsSound'
  BY <1>1, <1>2 DEF FilesState, ToolsSound, RowSound, Active
<1>4. FileTypes' /\ StampsTell'
  BY <1>2 DEF FilesState, FileTypes, StampsTell, F!FileFits
<1> QED  BY <1>1, <1>3, <1>4

\* A writer runs alone, and what it leaves are old files, new ones with the
\* next stamp, and gaps.
LEMMA FilesWritten ==
    ASSUME FilesState, F!SessionFilesAssumption,
           NEW n \in ToolNodes, NEW r, Moves(n, r), r.at = "done", v6.kind[n] # "read",
           UNCHANGED v3, NEW text, F!FileFits(text), DOMAIN v1' = Paths,
           v2' \in Nat, v2 <= v2', \A p \in Paths : v1'[p].stamp <= v2',
           \A p \in Paths : \/ \E q \in Paths : v1'[p] = v1[q]
                            \/ v1'[p] = F!Absent \/ v1'[p] = [text |-> text, stamp |-> v2 + 1]
    PROVE  FileTypes' /\ ToolTypes' /\ ScheduleSound' /\ ToolsSound' /\ StampsTell'
<1>1. /\ ToolTypes' /\ ScheduleSound' /\ v8'[n] = r
      /\ \A m \in ToolNodes : m # n => v8'[m] = v8[m]
  BY MovesSchedule
<1>2. v6' = v6 /\ v7' = v7 /\ v13' = v13 /\ n \in v7.batch  BY DEF Moves
<1>3. \A m \in ToolNodes : m # n => ~ Active(v8[m])
  BY <1>2 DEF FilesState, ScheduleSound
<1>4. ToolsSound'
  BY <1>1, <1>2, <1>3 DEF FilesState, ToolsSound, RowSound, Active
<1>5. v2 \in Nat /\ \A p \in Paths : v1[p].stamp \in Nat /\ v1[p].stamp <= v2 /\ F!FileFits(v1[p].text)
  BY DEF FilesState, FileTypes
<1>6. F!Absent.stamp = 0 /\ F!FileFits(F!Absent.text)
  BY DEF F!Absent, F!FileFits, F!SessionFilesAssumption
<1>7. FileTypes'
  <2>1. \A p \in Paths : v1'[p].stamp \in Nat /\ F!FileFits(v1'[p].text)
    BY <1>5, <1>6
  <2>2. \A e \in v3 : e.fp[2] \in Nat /\ e.fp[2] <= v2'
    BY <1>5 DEF FilesState, FileTypes
  <2> QED  BY <2>1, <2>2 DEF FileTypes, F!FileFits
<1>8. StampsTell'
  <2>1. \A p, q \in Paths : v1[p].stamp = v1[q].stamp /\ v1[p].stamp > 0 => v1[p].text = v1[q].text
    BY DEF FilesState, StampsTell
  <2>2. ASSUME NEW p \in Paths, NEW q \in Paths, v1'[p].stamp = v1'[q].stamp, v1'[p].stamp > 0
        PROVE  v1'[p].text = v1'[q].text
    <3>1. CASE v1'[p] = [text |-> text, stamp |-> v2 + 1]
      <4>1. v1'[q].stamp = v2 + 1  BY <2>2, <3>1
      <4>2. v1'[q] = [text |-> text, stamp |-> v2 + 1]  BY <1>5, <1>6, <4>1
      <4> QED  BY <3>1, <4>2
    <3>2. CASE \E x \in Paths : v1'[p] = v1[x]
      <4>1. v1'[q].stamp <= v2 /\ v1'[q].stamp > 0  BY <1>5, <2>2, <3>2
      <4>2. \E x \in Paths : v1'[q] = v1[x]  BY <1>5, <1>6, <4>1
      <4> QED  BY <2>1, <2>2, <3>2, <4>2
    <3>3. v1'[p] # F!Absent  BY <1>6, <2>2
    <3> QED  BY <3>1, <3>2, <3>3
  <2>3. ASSUME NEW e \in v3, NEW p \in Paths, e.path \notin v13, e.fp[2] = v1'[p].stamp, v1'[p].stamp > 0
        PROVE  e.text = v1'[p].text
    <3>1. e.fp[2] <= v2 /\ e.fp[2] \in Nat  BY DEF FilesState, FileTypes
    <3>2. \E x \in Paths : v1'[p] = v1[x]  BY <1>5, <1>6, <2>3, <3>1
    <3> QED  BY <2>3, <3>2 DEF FilesState, StampsTell
  <2> QED  BY <1>2, <2>2, <2>3 DEF StampsTell
<1> QED  BY <1>1, <1>4, <1>7, <1>8

\* Most tools have nothing to do with the tokens of removals.
LEMMA TokensUntouched ==
    ASSUME FilesState, UNCHANGED <<v4, v5, v12>> PROVE TokenTypes' /\ TokensSingle'
BY DEF FilesState, TokenTypes, TokensSingle

\* A tool that starts is of the batch and has waited (_invoke).
LEMMA Starts ==
    ASSUME FilesState, NEW n \in ToolNodes, NEW kind, F!MayStart(n, kind)
    PROVE  n \in v7.batch /\ v8[n].at = "wait" /\ v6.kind[n] = kind /\ IsNode(v8[n])
BY DEF F!MayStart, FilesState, ToolTypes

\* A tool between two of its steps is of the batch.
LEMMA GoesOn ==
    ASSUME FilesState, NEW n \in ToolNodes, Active(v8[n])
    PROVE  n \in v7.batch /\ v8[n].at # "done" /\ IsNode(v8[n])
BY DEF FilesState, ToolTypes, ScheduleSound, Active

\* A tool that goes on keeps a record with the same fields.
LEMMA Going ==
    ASSUME FilesState, NEW n \in ToolNodes, n \in v7.batch, v8[n].at # "done", NEW x, NEW p,
           NEW w, x \in NodePoints \ {"wait"}, F!Go(n, x, p, w), UNCHANGED F!stageState,
           v13' = v13
    PROVE  \E r : Moves(n, r) /\ r.at = x /\ r.path = p /\ r.text = w
<1> DEFINE r == [v8[n] EXCEPT !.at = x, !.path = p, !.text = w]
<1>1. IsNode(v8[n])  BY DEF FilesState, ToolTypes
<1>2. IsNode(r) /\ r.at = x /\ r.path = p /\ r.text = w  BY <1>1 DEF IsNode
<1>3. v8' = [v8 EXCEPT ![n] = r]  BY DEF F!Go
<1> HIDE DEF r
<1>4. Moves(n, r)  BY <1>2, <1>3 DEF Moves, F!stageState
<1> QED  BY <1>2, <1>4

\* So does a read that has its answer.
LEMMA Finishing ==
    ASSUME FilesState, NEW n \in ToolNodes, n \in v7.batch, v8[n].at # "done", NEW p, NEW w,
           F!Finish(n, p, w), UNCHANGED F!stageState, v13' = v13
    PROVE  \E r : Moves(n, r) /\ r.at = "done"
<1> DEFINE r == [v8[n] EXCEPT !.at = "done", !.path = p, !.text = w, !.ok = TRUE]
<1>1. IsNode(v8[n])  BY DEF FilesState, ToolTypes
<1>2. IsNode(r) /\ r.at = "done"  BY <1>1 DEF IsNode
<1>3. v8' = [v8 EXCEPT ![n] = r]  BY DEF F!Finish
<1> HIDE DEF r
<1>4. Moves(n, r)  BY <1>2, <1>3 DEF Moves, F!stageState, NodePoints
<1> QED  BY <1>2, <1>4

\* So does a tool that has not started.
LEMMA IdleIsNode == IsNode(F!IdleNode) /\ F!IdleNode.at = "wait"
BY Zenon DEF IsNode, F!IdleNode

\* So does a tool that is done (ToolOutcome).
LEMMA Ending ==
    ASSUME FilesState, NEW n \in ToolNodes, n \in v7.batch, v8[n].at # "done", NEW ok,
           F!Done(n, ok), UNCHANGED F!stageState, v13' = v13
    PROVE  \E r : Moves(n, r) /\ r.at = "done"
<1> DEFINE r == [F!IdleNode EXCEPT !.at = "done", !.ok = ok]
<1>1. v8' = [v8 EXCEPT ![n] = r]  BY DEF F!Done
<1>2. IsNode(r) /\ r.at = "done"
  <2> HIDE DEF F!IdleNode
  <2> QED  BY IdleIsNode DEF IsNode
<1> HIDE DEF r
<1>3. Moves(n, r)  BY <1>1, <1>2 DEF Moves, F!stageState, NodePoints
<1> QED  BY <1>2, <1>3

\* Nothing is required of a tool that is done.
LEMMA EndedIsSound == ASSUME NEW r, r.at = "done", NEW kind PROVE RowSound(r, kind)
BY DEF RowSound, Active

\* Looking a read up in the limit and the cache (handle_read_text_artifact).
LEMMA FilesLookup ==
    ASSUME FilesState, NEW n \in ToolNodes, NEW p \in Paths, F!ReadLookup(n, p)
    PROVE  FilesState'
<1>1. /\ n \in v7.batch /\ v8[n].at = "wait" /\ v6.kind[n] = "read"
  BY Starts DEF F!ReadLookup
<1>2. UNCHANGED <<v1, v2, v3, v4, v5, v12, v13>> /\ UNCHANGED F!stageState
  BY DEF F!ReadLookup, F!fileState
<1>3. \/ \E w : F!Finish(n, p, w)
      \/ F!Done(n, FALSE)
      \/ F!Go(n, "text", p, <<>>)
  BY Zenon DEF F!ReadLookup
<1>4. \E r : Moves(n, r) /\ RowSound(r, v6.kind[n])
  <2>1. CASE \E w : F!Finish(n, p, w)  BY <1>1, <1>2, <2>1, Finishing, EndedIsSound
  <2>2. CASE F!Done(n, FALSE)  BY <1>1, <1>2, <2>2, Ending, EndedIsSound
  <2>3. CASE F!Go(n, "text", p, <<>>)
    <3>1. PICK r : Moves(n, r) /\ r.at = "text" /\ r.path = p
      BY <1>1, <1>2, <2>3, Going DEF NodePoints
    <3> QED  BY <1>1, <3>1 DEF RowSound
  <2> QED  BY <1>3, <2>1, <2>2, <2>3
<1> QED  BY <1>2, <1>4, FilesKept, TokensUntouched DEF FilesState

\* Reading the text of a file, which only another run changes meanwhile.
LEMMA FilesReadText ==
    ASSUME FilesState, NEW n \in ToolNodes, F!ReadText(n) PROVE FilesState'
<1>1. v8[n].at = "text" /\ n \in v7.batch  BY GoesOn DEF F!ReadText, Active
<1>2. UNCHANGED <<v1, v2, v3, v4, v5, v12, v13>> /\ UNCHANGED F!stageState
  BY DEF F!ReadText, F!fileState
<1>3. v6.kind[n] = "read" /\ v8[n].path \in Paths
  BY <1>1 DEF FilesState, ToolsSound, RowSound, Active
<1>4. F!Go(n, "store", v8[n].path, v1[v8[n].path].text) \/ F!Done(n, FALSE)
  BY Zenon DEF F!ReadText
<1>5. \E r : Moves(n, r) /\ RowSound(r, v6.kind[n])
  <2>1. CASE F!Done(n, FALSE)  BY <1>1, <1>2, <2>1, Ending, EndedIsSound
  <2>2. CASE F!Go(n, "store", v8[n].path, v1[v8[n].path].text)
    <3>1. PICK r : Moves(n, r) /\ r.at = "store" /\ r.path = v8[n].path
                   /\ r.text = v1[v8[n].path].text
      BY <1>1, <1>2, <2>2, Going DEF NodePoints
    <3> QED  BY <1>3, <3>1 DEF RowSound
  <2> QED  BY <1>4, <2>1, <2>2
<1> QED  BY <1>2, <1>5, FilesKept, TokensUntouched DEF FilesState

\* Storing what was read under the fingerprint of now (store_cached_read).
LEMMA FilesReadStore ==
    ASSUME FilesState, NEW n \in ToolNodes, F!ReadStore(n) PROVE FilesState'
<1> DEFINE p == v8[n].path
           e == [path |-> p, fp |-> F!Fingerprint(p), text |-> v8[n].text]
<1>1. v8[n].at = "store" /\ n \in v7.batch  BY GoesOn DEF F!ReadStore, Active
<1>2. UNCHANGED <<v1, v2, v4, v5, v12, v13>> /\ UNCHANGED F!stageState
      /\ F!Finish(n, p, v8[n].text) /\ v3' \subseteq v3 \cup {e}
  BY DEF F!ReadStore
<1>3. p \in Paths /\ (p \notin v13 => v8[n].text = v1[p].text)
  BY <1>1 DEF FilesState, ToolsSound, RowSound, Active
<1>4. e.path = p /\ e.fp[2] = v1[p].stamp /\ e.text = v8[n].text  BY DEF F!Fingerprint
<1> HIDE DEF e
<1>5. PICK r : Moves(n, r) /\ r.at = "done"  BY <1>1, <1>2, Finishing
<1>6. /\ ToolTypes' /\ ScheduleSound' /\ v8'[n] = r
      /\ \A m \in ToolNodes : m # n => v8'[m] = v8[m]
  BY <1>5, MovesSchedule
<1>7. v6' = v6  BY <1>5 DEF Moves
<1>8. ToolsSound'
  BY <1>2, <1>5, <1>6, <1>7 DEF FilesState, ToolsSound, RowSound, Active
<1>9. FileTypes'
  BY <1>2, <1>3, <1>4 DEF FilesState, FileTypes, F!FileFits
<1>10. StampsTell'
  BY <1>2, <1>3, <1>4 DEF FilesState, StampsTell
<1> QED  BY <1>2, <1>6, <1>8, <1>9, <1>10, TokensUntouched DEF FilesState

\* The first half of an edit (handle_edit_text_artifact).
LEMMA FilesEditRead ==
    ASSUME FilesState, NEW n \in ToolNodes, NEW p \in Paths, F!EditRead(n, p)
    PROVE  FilesState'
<1>1. n \in v7.batch /\ v8[n].at = "wait" /\ v6.kind[n] = "edit"
  BY Starts DEF F!EditRead
<1>2. UNCHANGED <<v1, v2, v3, v4, v5, v12, v13>> /\ UNCHANGED F!stageState
  BY DEF F!EditRead, F!fileState
<1>3. F!Go(n, "edit", p, v1[p].text) \/ F!Done(n, FALSE)
  BY Zenon DEF F!EditRead
<1>4. \E r : Moves(n, r) /\ RowSound(r, v6.kind[n])
  <2>1. CASE F!Done(n, FALSE)  BY <1>1, <1>2, <2>1, Ending, EndedIsSound
  <2>2. CASE F!Go(n, "edit", p, v1[p].text)
    <3>1. PICK r : Moves(n, r) /\ r.at = "edit" /\ r.path = p /\ r.text = v1[p].text
      BY <1>1, <1>2, <2>2, Going DEF NodePoints
    <3> QED  BY <1>1, <3>1 DEF RowSound
  <2> QED  BY <1>3, <2>1, <2>2
<1> QED  BY <1>2, <1>4, FilesKept, TokensUntouched DEF FilesState

\* One file is changed, or none.
LEMMA OneChanged ==
    ASSUME FilesState, F!SessionFilesAssumption, NEW n \in ToolNodes, n \in v7.batch,
           v8[n].at # "done", v6.kind[n] # "read", NEW ok, F!Done(n, ok),
           UNCHANGED <<v3, v4, v5, v12, v13>>, UNCHANGED F!stageState,
           \/ UNCHANGED <<v1, v2>>
           \/ \E p \in Paths : \E w : F!FileFits(w) /\ F!Change(p, w)
    PROVE  FilesState'
<1>1. PICK r : Moves(n, r) /\ r.at = "done"  BY Ending
<1>2. CASE UNCHANGED <<v1, v2>>
  BY <1>1, <1>2, EndedIsSound, FilesKept, TokensUntouched DEF FilesState
<1>3. CASE \E p \in Paths : \E w : F!FileFits(w) /\ F!Change(p, w)
  <2>0. PICK p \in Paths : \E w : F!FileFits(w) /\ F!Change(p, w)  BY <1>3
  <2>1. PICK w : F!FileFits(w) /\ F!Change(p, w)  BY <2>0
  <2>2. /\ v1' = [v1 EXCEPT ![p] = [text |-> w, stamp |-> v2 + 1]] /\ v2' = v2 + 1
    BY <2>1 DEF F!Change
  <2>3. v2 \in Nat /\ DOMAIN v1 = Paths /\ \A q \in Paths : v1[q].stamp <= v2 /\ v1[q].stamp \in Nat
    BY DEF FilesState, FileTypes
  <2>4. v1'[p] = [text |-> w, stamp |-> v2 + 1] /\ \A q \in Paths : q # p => v1'[q] = v1[q]
    BY <2>2, <2>3
  <2>5. DOMAIN v1' = Paths /\ v2' \in Nat /\ v2 <= v2' /\ \A q \in Paths : v1'[q].stamp <= v2'
    BY <2>2, <2>3, <2>4
  <2>6. \A x \in Paths : \/ \E q \in Paths : v1'[x] = v1[q]
                         \/ v1'[x] = F!Absent \/ v1'[x] = [text |-> w, stamp |-> v2 + 1]
    BY <2>4
  <2>7. FileTypes' /\ ToolTypes' /\ ScheduleSound' /\ ToolsSound' /\ StampsTell'
    BY <1>1, <2>1, <2>5, <2>6, FilesWritten
  <2> QED  BY <2>7, TokensUntouched DEF FilesState
<1> QED  BY <1>2, <1>3

\* The second half of an edit writes the whole text back.
LEMMA FilesEditWrite ==
    ASSUME FilesState, F!SessionFilesAssumption, NEW n \in ToolNodes, NEW mode,
           F!EditWrite(n, mode)
    PROVE  FilesState'
<1>1. v8[n].at = "edit" /\ n \in v7.batch  BY GoesOn DEF F!EditWrite, Active
<1>2. v6.kind[n] # "read" /\ v8[n].path \in Paths
  BY <1>1 DEF FilesState, ToolsSound, RowSound, Active
<1>3. UNCHANGED <<v3, v4, v5, v12, v13>> /\ UNCHANGED F!stageState
  BY DEF F!EditWrite
<1>4. \/ UNCHANGED <<v1, v2>> /\ F!Done(n, FALSE)
      \/ \E w : F!FileFits(w) /\ F!Change(v8[n].path, w) /\ F!Done(n, TRUE)
  BY DEF F!EditWrite
<1>5. CASE UNCHANGED <<v1, v2>> /\ F!Done(n, FALSE)
  BY <1>1, <1>2, <1>3, <1>5, OneChanged
<1>6. CASE \E w : F!FileFits(w) /\ F!Change(v8[n].path, w) /\ F!Done(n, TRUE)
  BY <1>1, <1>2, <1>3, <1>6, OneChanged
<1> QED  BY <1>4, <1>5, <1>6

\* Writing a file anew (handle_write_file).
LEMMA FilesWrite ==
    ASSUME FilesState, F!SessionFilesAssumption, NEW n \in ToolNodes, NEW p \in Paths, NEW w,
           F!Write(n, p, <<w>>)
    PROVE  FilesState'
<1>1. n \in v7.batch /\ v8[n].at = "wait" /\ v6.kind[n] = "write"
  BY Starts DEF F!Write
<1>2. UNCHANGED <<v3, v4, v5, v12, v13>> /\ UNCHANGED F!stageState /\ F!Done(n, TRUE)
      /\ F!Change(p, <<w>>)
  BY DEF F!Write
<1>3. F!FileFits(<<w>>)  BY DEF F!FileFits, F!SessionFilesAssumption
<1> QED  BY <1>1, <1>2, <1>3, OneChanged

\* Appending, as long as the file does not grow too large (handle_append_file).
LEMMA FilesAppend ==
    ASSUME FilesState, F!SessionFilesAssumption, NEW n \in ToolNodes, NEW p \in Paths, NEW w,
           F!Append1(n, p, w)
    PROVE  FilesState'
<1>1. n \in v7.batch /\ v8[n].at = "wait" /\ v6.kind[n] = "append"
  BY Starts DEF F!Append1
<1>2. UNCHANGED <<v3, v4, v5, v12, v13>> /\ UNCHANGED F!stageState
      /\ F!Done(n, F!FileFits(Append(v1[p].text, w)))
  BY DEF F!Append1
<1>3. UNCHANGED <<v1, v2>> \/ \E x : F!FileFits(x) /\ F!Change(p, x)
  BY DEF F!Append1
<1> QED  BY <1>1, <1>2, <1>3, OneChanged

\* A new time for the same text (handle_touch_file).
LEMMA FilesTouch ==
    ASSUME FilesState, F!SessionFilesAssumption, NEW n \in ToolNodes, NEW p \in Paths,
           F!Touch(n, p)
    PROVE  FilesState'
<1>1. n \in v7.batch /\ v8[n].at = "wait" /\ v6.kind[n] = "touch"
  BY Starts DEF F!Touch
<1>2. UNCHANGED <<v3, v4, v5, v12, v13>> /\ UNCHANGED F!stageState /\ F!Done(n, TRUE)
      /\ F!Change(p, v1[p].text)
  BY DEF F!Touch
<1>3. F!FileFits(v1[p].text)  BY DEF FilesState, FileTypes
<1> QED  BY <1>1, <1>2, <1>3, OneChanged

\* A moved or copied file keeps its time (handle_move_path).
LEMMA FilesMoveOrCopy ==
    ASSUME FilesState, F!SessionFilesAssumption, NEW n \in ToolNodes, NEW p \in Paths,
           NEW q \in Paths, F!MoveOrCopy(n, p, q)
    PROVE  FilesState'
<1>1. n \in v7.batch /\ v8[n].at = "wait" /\ v6.kind[n] # "read"
  BY Starts DEF F!MoveOrCopy
<1>2. UNCHANGED <<v2, v3, v4, v5, v12, v13>> /\ UNCHANGED F!stageState
  BY DEF F!MoveOrCopy
<1>3. PICK ok : F!Done(n, ok)  BY Zenon DEF F!MoveOrCopy
<1>4. \/ v1' = v1 \/ v1' = [v1 EXCEPT ![q] = v1[p]]
      \/ v1' = [v1 EXCEPT ![q] = v1[p], ![p] = F!Absent]
  BY DEF F!MoveOrCopy
<1>5. CASE v1' = v1  BY <1>1, <1>2, <1>3, <1>5, OneChanged
<1>6. CASE v1' # v1
  <2>1. PICK r : Moves(n, r) /\ r.at = "done"  BY <1>1, <1>2, <1>3, Ending
  <2>2. v2 \in Nat /\ DOMAIN v1 = Paths /\ \A x \in Paths : v1[x].stamp <= v2
    BY DEF FilesState, FileTypes
  <2>3. F!Absent.stamp = 0 /\ F!FileFits(F!Absent.text)
    BY DEF F!Absent, F!FileFits, F!SessionFilesAssumption
  <2>4. DOMAIN v1' = Paths /\ \A x \in Paths : v1'[x] \in {v1[x], v1[p], F!Absent}
    <3> HIDE DEF F!Absent
    <3> QED  BY <1>4, <2>2
  <2>5. \A x \in Paths : v1'[x].stamp <= v2  BY <2>2, <2>3, <2>4
  <2>6. FileTypes' /\ ToolTypes' /\ ScheduleSound' /\ ToolsSound' /\ StampsTell'
    BY <1>1, <1>2, <2>1, <2>2, <2>3, <2>4, <2>5, FilesWritten
  <2> QED  BY <1>2, <2>6, TokensUntouched DEF FilesState
<1> QED  BY <1>5, <1>6

\* A preview of a removal hands out a fresh token (handle_rm_path).
LEMMA FilesRmPreview ==
    ASSUME FilesState, NEW n \in ToolNodes, NEW p \in Paths, F!RmPreview(n, p)
    PROVE  FilesState'
<1>1. n \in v7.batch /\ v8[n].at = "wait" /\ v6.kind[n] = "rm"
  BY Starts DEF F!RmPreview
<1>2. UNCHANGED <<v1, v2, v3, v12, v13>> /\ UNCHANGED F!stageState /\ v5 < MaxTokens
  BY DEF F!RmPreview
<1>3. \/ UNCHANGED <<v4, v5>>
      \/ v5' = v5 + 1 /\ v4' = [v4 EXCEPT ![p] = v5 + 1]
  BY DEF F!RmPreview
<1>4. \/ \E ok : F!Done(n, ok)
      \/ v8' = [v8 EXCEPT ![n] = [@ EXCEPT !.at = "rm", !.path = p, !.token = v5 + 1]]
  BY Zenon DEF F!RmPreview
<1>5. \E r : Moves(n, r) /\ RowSound(r, v6.kind[n])
  <2>1. CASE \E ok : F!Done(n, ok)  BY <1>1, <1>2, <2>1, Ending, EndedIsSound
  <2>2. CASE v8' = [v8 EXCEPT ![n] = [@ EXCEPT !.at = "rm", !.path = p, !.token = v5 + 1]]
    <3> DEFINE r == [v8[n] EXCEPT !.at = "rm", !.path = p, !.token = v5 + 1]
    <3>1. IsNode(v8[n])  BY DEF FilesState, ToolTypes
    <3>2. IsNode(r) /\ r.at = "rm" /\ r.path = p  BY <3>1 DEF IsNode
    <3>3. v8' = [v8 EXCEPT ![n] = r]  BY <2>2
    <3> HIDE DEF r
    <3>4. Moves(n, r)  BY <1>1, <1>2, <3>2, <3>3 DEF Moves, F!stageState, NodePoints
    <3> QED  BY <1>1, <3>2, <3>4 DEF RowSound
  <2> QED  BY <1>4, <2>1, <2>2
<1>6. TokenTypes' /\ TokensSingle'
  <2>1. CASE UNCHANGED <<v4, v5>>  BY <1>2, <2>1, TokensUntouched
  <2>2. CASE v5' = v5 + 1 /\ v4' = [v4 EXCEPT ![p] = v5 + 1]
    <3>1. v5 \in Nat /\ MaxTokens \in Nat /\ v4 \in [Paths -> 0 .. v5]
          /\ v12 \in [1 .. MaxTokens -> {0, 1}]
      BY <1>2, MakingAssumptions DEF FilesState, TokenTypes, F!SessionFilesAssumption
    <3>2. v5' \in 0 .. MaxTokens  BY <1>2, <2>2, <3>1
    <3>3. v4' \in [Paths -> 0 .. v5']  BY <2>2, <3>1
    <3>4. v4'[p] = v5 + 1 /\ \A q \in Paths : q # p => v4'[q] = v4[q] /\ v4[q] \in 0 .. v5
      BY <2>2, <3>1
    <3>5. \A q1, q2 \in Paths : v4'[q1] = v4'[q2] /\ v4'[q1] # 0 => q1 = q2
      <4> TAKE q1 \in Paths, q2 \in Paths
      <4>1. CASE q1 # p /\ q2 # p  BY <3>4, <4>1 DEF FilesState, TokensSingle
      <4>2. CASE q1 = p \/ q2 = p  BY <3>1, <3>4, <4>2
      <4> QED  BY <4>1, <4>2
    <3>6. \A t \in 1 .. MaxTokens : v12[t] = 1 => t <= v5' /\ \A q \in Paths : v4'[q] # t
      BY <2>2, <3>1, <3>4 DEF FilesState, TokensSingle
    <3> QED  BY <1>2, <3>1, <3>2, <3>3, <3>5, <3>6 DEF TokenTypes, TokensSingle
  <2> QED  BY <1>3, <2>1, <2>2
<1> QED  BY <1>2, <1>5, <1>6, FilesKept DEF FilesState

\* Tokens that are taken back.
LEMMA TokensCleared ==
    ASSUME FilesState, NEW p \in Paths, v4' = [v4 EXCEPT ![p] = 0], v5' = v5,
           \/ v12' = v12
           \/ v4[p] # 0 /\ v12' = [v12 EXCEPT ![v4[p]] = @ + 1]
    PROVE  TokenTypes' /\ TokensSingle'
<1>1. v5 \in Nat /\ v5 <= MaxTokens /\ MaxTokens \in Nat /\ v4 \in [Paths -> 0 .. v5]
      /\ v12 \in [1 .. MaxTokens -> {0, 1}]
  BY MakingAssumptions DEF FilesState, TokenTypes, F!SessionFilesAssumption
<1>2. v4' \in [Paths -> 0 .. v5]  BY <1>1
<1>3. v4'[p] = 0 /\ \A q \in Paths : q # p => v4'[q] = v4[q]  BY <1>1
<1>4. \A q1, q2 \in Paths : v4'[q1] = v4'[q2] /\ v4'[q1] # 0 => q1 = q2
  BY <1>3 DEF FilesState, TokensSingle
<1>5. \A t \in 1 .. MaxTokens : v12[t] = 1 => t <= v5 /\ \A q \in Paths : v4[q] # t
  BY DEF FilesState, TokensSingle
<1>6. CASE v12' = v12
  <2>1. \A t \in 1 .. MaxTokens : v12[t] = 1 => t <= v5 /\ \A q \in Paths : v4'[q] # t
    BY <1>3, <1>5
  <2> QED  BY <1>1, <1>2, <1>4, <1>6, <2>1 DEF TokenTypes, TokensSingle, FilesState
<1>7. CASE v4[p] # 0 /\ v12' = [v12 EXCEPT ![v4[p]] = @ + 1]
  <2> DEFINE k == v4[p]
  <2>1. k \in 1 .. MaxTokens /\ k <= v5  BY <1>1, <1>7
  <2>2. v12[k] = 0  BY <1>1, <1>5, <2>1
  <2> HIDE DEF k
  <2>3. v12' = [v12 EXCEPT ![k] = 1]  BY <1>7, <2>2 DEF k
  <2>4. v12' \in [1 .. MaxTokens -> {0, 1}]  BY <1>1, <2>3
  <2>5. \A q \in Paths : v4'[q] # k  BY <1>3, <1>7, <2>1 DEF k, FilesState, TokensSingle
  <2>6. \A t \in 1 .. MaxTokens : t # k => v12'[t] = v12[t]  BY <1>1, <2>3
  <2>7. \A t \in 1 .. MaxTokens : v12'[t] = 1 => t <= v5 /\ \A q \in Paths : v4'[q] # t
    BY <1>3, <1>5, <2>1, <2>5, <2>6
  <2> QED  BY <1>1, <1>2, <1>4, <2>4, <2>7 DEF TokenTypes, TokensSingle, FilesState
<1> QED  BY <1>6, <1>7

\* A removal consumes its token (_require_rm_preview_token).
LEMMA FilesRmCommit ==
    ASSUME FilesState, F!SessionFilesAssumption, NEW n \in ToolNodes, NEW p \in Paths,
           NEW t \in 1 .. v5, F!RmCommit(n, p, t)
    PROVE  FilesState'
<1>1. n \in v7.batch /\ v8[n].at # "done" /\ v6.kind[n] = "rm"
  <2>1. CASE v8[n].at = "rm"
    BY <2>1, GoesOn DEF Active, FilesState, ToolsSound, RowSound
  <2>2. CASE F!MayStart(n, "rm")  BY <2>2, Starts
  <2> QED  BY <2>1, <2>2 DEF F!RmCommit
<1>2. UNCHANGED <<v2, v3, v5, v13>> /\ UNCHANGED F!stageState
  BY DEF F!RmCommit
<1>3. PICK ok : F!Done(n, ok)  BY Zenon DEF F!RmCommit
<1>4. \/ UNCHANGED <<v1, v4, v12>>
      \/ /\ v1' = [v1 EXCEPT ![p] = F!Absent] /\ v4[p] = t
         /\ v4' = [v4 EXCEPT ![p] = 0] /\ v12' = [v12 EXCEPT ![t] = @ + 1]
  BY Zenon DEF F!RmCommit, F!TokensAfter
<1>5. CASE UNCHANGED <<v1, v4, v12>>  BY <1>1, <1>2, <1>3, <1>5, OneChanged
<1>6. CASE /\ v1' = [v1 EXCEPT ![p] = F!Absent] /\ v4[p] = t
           /\ v4' = [v4 EXCEPT ![p] = 0] /\ v12' = [v12 EXCEPT ![t] = @ + 1]
  <2>1. PICK r : Moves(n, r) /\ r.at = "done"  BY <1>1, <1>2, <1>3, Ending
  <2>2. v2 \in Nat /\ DOMAIN v1 = Paths /\ \A x \in Paths : v1[x].stamp <= v2
    BY DEF FilesState, FileTypes
  <2>3. F!Absent.stamp = 0 /\ F!FileFits(F!Absent.text)
    BY DEF F!Absent, F!FileFits, F!SessionFilesAssumption
  <2>4. DOMAIN v1' = Paths /\ \A x \in Paths : v1'[x] \in {v1[x], F!Absent}
    <3> HIDE DEF F!Absent
    <3> QED  BY <1>6, <2>2
  <2>5. \A x \in Paths : v1'[x].stamp <= v2  BY <2>2, <2>3, <2>4
  <2>6. FileTypes' /\ ToolTypes' /\ ScheduleSound' /\ ToolsSound' /\ StampsTell'
    BY <1>1, <1>2, <2>1, <2>2, <2>3, <2>4, <2>5, FilesWritten
  <2>7. v4[p] # 0 /\ v12' = [v12 EXCEPT ![v4[p]] = @ + 1]  BY <1>6
  <2>8. TokenTypes' /\ TokensSingle'  BY <1>2, <1>6, <2>7, TokensCleared
  <2> QED  BY <2>6, <2>8 DEF FilesState
<1> QED  BY <1>4, <1>5, <1>6

\* What holds of files and cache is not touched by other state.
LEMMA FilesUntouched ==
    ASSUME FilesState, UNCHANGED <<v1, v2, v3, v13>> PROVE FileTypes' /\ StampsTell'
BY DEF FilesState, FileTypes, StampsTell, F!FileFits

\* What holds of schedule and tools is not touched by other state.
LEMMA ToolsUntouched ==
    ASSUME FilesState, UNCHANGED <<v6, v7, v8>> PROVE ToolTypes' /\ ScheduleSound'
<1>1. Left' = Left /\ F!AcyclicPlan' = F!AcyclicPlan  BY DEF Left, F!AcyclicPlan
<1> QED  BY <1>1 DEF FilesState, ToolTypes, ScheduleSound

\* Tokens expire (_cleanup_rm_preview_tokens).
LEMMA FilesExpire ==
    ASSUME FilesState, NEW p \in Paths, F!ExpireToken(p) PROVE FilesState'
<1>1. /\ v4' = [v4 EXCEPT ![p] = 0]
      /\ UNCHANGED <<v1, v2, v3, v5, v6, v7, v8, v12, v13>>
  BY DEF F!ExpireToken, F!stageState
<1>2. TokenTypes' /\ TokensSingle'  BY <1>1, TokensCleared
<1>3. FileTypes' /\ StampsTell'  BY <1>1, FilesUntouched
<1>4. ToolTypes' /\ ScheduleSound'  BY <1>1, ToolsUntouched
<1>5. ToolsSound'  BY <1>1 DEF FilesState, ToolsSound, RowSound
<1> QED  BY <1>2, <1>3, <1>4, <1>5 DEF FilesState

\* Another run of the session writes a file, maybe in the middle of a tool.
LEMMA FilesForeign ==
    ASSUME FilesState, NEW p \in Paths, NEW w, F!FileFits(w), F!ForeignWrite(p, w)
    PROVE  FilesState'
<1>1. /\ v1' = [v1 EXCEPT ![p] = [text |-> w, stamp |-> v2 + 1]] /\ v2' = v2 + 1
      /\ UNCHANGED <<v3, v4, v5, v6, v7, v8, v12>>
  BY DEF F!ForeignWrite, F!Change
<1>2. /\ v13 \subseteq v13'
      /\ \A n \in ToolNodes : Active(v8[n]) /\ v8[n].path = p => p \in v13'
  BY DEF F!ForeignWrite, F!Running, Active
<1>3. v2 \in Nat /\ DOMAIN v1 = Paths /\ \A q \in Paths : v1[q].stamp <= v2 /\ v1[q].stamp \in Nat
                                          /\ F!FileFits(v1[q].text)
  BY DEF FilesState, FileTypes
<1>4. v1'[p] = [text |-> w, stamp |-> v2 + 1] /\ \A q \in Paths : q # p => v1'[q] = v1[q]
  BY <1>1, <1>3
<1>5. FileTypes'
  <2>1. DOMAIN v1' = Paths  BY <1>1, <1>3
  <2>2. \A q \in Paths : v1'[q].stamp \in Nat /\ v1'[q].stamp <= v2' /\ F!FileFits(v1'[q].text)
    BY <1>1, <1>3, <1>4
  <2>3. \A e \in v3 : e.fp[2] \in Nat /\ e.fp[2] <= v2'
    BY <1>1, <1>3 DEF FilesState, FileTypes
  <2>4. v2' \in Nat  BY <1>1, <1>3
  <2> QED  BY <1>1, <2>1, <2>2, <2>3, <2>4 DEF FileTypes, F!FileFits
<1>6. StampsTell'
  <2>1. \A q, x \in Paths : v1'[q].stamp = v1'[x].stamp /\ v1'[q].stamp > 0 => v1'[q].text = v1'[x].text
    <3> TAKE q \in Paths, x \in Paths
    <3>1. CASE q # p /\ x # p  BY <1>4, <3>1 DEF FilesState, StampsTell
    <3>2. CASE q = p \/ x = p
      <4>1. q # x => v1'[q].stamp # v1'[x].stamp  BY <1>3, <1>4, <3>2
      <4> QED  BY <4>1
    <3> QED  BY <3>1, <3>2
  <2>2. ASSUME NEW e \in v3, NEW q \in Paths, e.path \notin v13', e.fp[2] = v1'[q].stamp, v1'[q].stamp > 0
        PROVE  e.text = v1'[q].text
    <3>1. e.fp[2] <= v2 /\ e.fp[2] \in Nat  BY DEF FilesState, FileTypes
    <3>2. q # p  BY <1>3, <1>4, <2>2, <3>1
    <3> QED  BY <1>2, <1>4, <2>2, <3>2 DEF FilesState, StampsTell
  <2> QED  BY <1>1, <2>1, <2>2 DEF StampsTell
<1>7. ToolsSound'
  <2> SUFFICES ASSUME NEW n \in ToolNodes PROVE RowSound(v8[n], v6.kind[n])'
    BY DEF ToolsSound
  <2>1. RowSound(v8[n], v6.kind[n])  BY DEF FilesState, ToolsSound
  <2>2. CASE ~ Active(v8[n])  BY <1>1, <2>1, <2>2 DEF RowSound, Active
  <2>3. CASE Active(v8[n])
    <3>1. v8[n].path \notin v13' => v8[n].path \in Paths /\ v8[n].path # p /\ v8[n].path \notin v13
      BY <1>2, <2>1, <2>3 DEF RowSound
    <3> QED  BY <1>1, <1>4, <2>1, <3>1 DEF RowSound, Active
  <2> QED  BY <2>2, <2>3
<1>8. ToolTypes' /\ ScheduleSound'  BY <1>1, ToolsUntouched
<1>9. TokenTypes' /\ TokensSingle'  BY <1>1, TokensUntouched
<1> QED  BY <1>5, <1>6, <1>7, <1>8, <1>9 DEF FilesState

\* The next layer is of nodes none of whose dependencies is left, if the graph
\* has no cycle (_stages_from_dag).
LEMMA FilesNextLayer == ASSUME FilesState, F!NextLayer PROVE FilesState'
<1>1. PICK layer \in F!Ready(v7.remaining) : v7' = [v7 EXCEPT !.remaining = @ \ layer, !.layer = layer]
  BY DEF F!NextLayer
<1>2. UNCHANGED <<v1, v2, v3, v4, v5, v6, v8, v12, v13>>
      /\ v7.layer = {} /\ v7.batch = {} /\ v7.remaining # {}
  BY DEF F!NextLayer, F!fileState
<1>3. v7 \in [remaining : SUBSET ToolNodes, layer : SUBSET ToolNodes, batch : SUBSET ToolNodes]
  BY DEF FilesState, ToolTypes
<1>4. layer \subseteq v7.remaining  BY DEF F!Ready
<1>5. v7'.remaining = v7.remaining \ layer /\ v7'.layer = layer /\ v7'.batch = {}
  BY <1>1, <1>2, <1>3
<1>6. Left' = Left /\ Left = v7.remaining  BY <1>2, <1>4, <1>5 DEF Left
<1>7. F!AcyclicPlan => \A n \in layer : v6.deps[n] \cap Left = {}
  <2> SUFFICES ASSUME F!AcyclicPlan PROVE \A n \in layer : v6.deps[n] \cap v7.remaining = {}
    BY <1>6
  <2>1. \E n \in v7.remaining : v6.deps[n] \cap v7.remaining = {}
    BY <1>2, <1>3 DEF F!AcyclicPlan
  <2> QED  BY <2>1 DEF F!Ready
<1>8. ScheduleSound'
  <2>1. F!AcyclicPlan' = F!AcyclicPlan  BY <1>2 DEF F!AcyclicPlan
  <2>2. \A n \in ToolNodes : ~ Active(v8[n])  BY <1>2 DEF FilesState, ScheduleSound
  <2>3. \A n \in ToolNodes \ Left : v8[n].at = "done"  BY DEF FilesState, ScheduleSound
  <2> QED  BY <1>2, <1>5, <1>6, <1>7, <2>1, <2>2, <2>3 DEF ScheduleSound
<1>9. ToolTypes'
  <2>1. v7' \in [remaining : SUBSET ToolNodes, layer : SUBSET ToolNodes, batch : SUBSET ToolNodes]
    BY <1>1, <1>3, <1>4
  <2> QED  BY <1>2, <2>1 DEF FilesState, ToolTypes
<1>10. ToolsSound'  BY <1>2 DEF FilesState, ToolsSound, RowSound
<1> QED  BY <1>2, <1>8, <1>9, <1>10, FilesUntouched, TokensUntouched DEF FilesState

\* A layer is run readers first, then one writer after the other
\* (partition_stage_by_side_effect).
LEMMA FilesNextStage == ASSUME FilesState, F!NextStage PROVE FilesState'
<1>1. PICK batch \in F!Stages(v7.layer) : v7' = [v7 EXCEPT !.layer = @ \ batch, !.batch = batch]
  BY DEF F!NextStage
<1>2. UNCHANGED <<v1, v2, v3, v4, v5, v6, v8, v12, v13>> /\ v7.batch = {}
  BY DEF F!NextStage, F!fileState
<1>3. v7 \in [remaining : SUBSET ToolNodes, layer : SUBSET ToolNodes, batch : SUBSET ToolNodes]
  BY DEF FilesState, ToolTypes
<1>4. batch \subseteq v7.layer /\ ((\A n \in batch : v6.kind[n] = "read") \/ \E n \in ToolNodes : batch = {n})
  BY <1>3 DEF F!Stages, F!ReadOnly
<1>5. v7'.remaining = v7.remaining /\ v7'.layer = v7.layer \ batch /\ v7'.batch = batch
  BY <1>1, <1>3
<1>6. Left' = Left /\ v7'.layer \cup v7'.batch = v7.layer \cup v7.batch
  BY <1>2, <1>4, <1>5 DEF Left
<1>8. ScheduleSound'
  <2>1. F!AcyclicPlan' = F!AcyclicPlan  BY <1>2 DEF F!AcyclicPlan
  <2>2. \A n \in ToolNodes : ~ Active(v8[n])  BY <1>2 DEF FilesState, ScheduleSound
  <2>3. \A n \in ToolNodes \ Left : v8[n].at = "done"  BY DEF FilesState, ScheduleSound
  <2>4. F!AcyclicPlan => \A n \in v7.layer \cup v7.batch : v6.deps[n] \cap Left = {}
    BY DEF FilesState, ScheduleSound
  <2> QED  BY <1>2, <1>4, <1>5, <1>6, <2>1, <2>2, <2>3, <2>4 DEF ScheduleSound
<1>9. ToolTypes'
  <2>1. v7' \in [remaining : SUBSET ToolNodes, layer : SUBSET ToolNodes, batch : SUBSET ToolNodes]
    BY <1>1, <1>3, <1>4
  <2> QED  BY <1>2, <2>1 DEF FilesState, ToolTypes
<1>10. ToolsSound'  BY <1>2 DEF FilesState, ToolsSound, RowSound
<1> QED  BY <1>2, <1>8, <1>9, <1>10, FilesUntouched, TokensUntouched DEF FilesState

\* A stage ends with the outcome of all its tools (execute_tool_stages).
LEMMA FilesEndStage == ASSUME FilesState, F!EndStage PROVE FilesState'
<1>1. v7' = [v7 EXCEPT !.batch = {}] /\ \A n \in v7.batch : v8[n].at = "done"
  BY DEF F!EndStage
<1>2. UNCHANGED <<v1, v2, v3, v4, v5, v6, v8, v12, v13>>
  BY DEF F!EndStage, F!fileState
<1>3. v7 \in [remaining : SUBSET ToolNodes, layer : SUBSET ToolNodes, batch : SUBSET ToolNodes]
  BY DEF FilesState, ToolTypes
<1>5. v7'.remaining = v7.remaining /\ v7'.layer = v7.layer /\ v7'.batch = {}
  BY <1>1, <1>3
<1>6. Left' \subseteq Left /\ Left \ v7.batch \subseteq Left'
  BY <1>5 DEF Left
<1>8. ScheduleSound'
  <2>1. F!AcyclicPlan' = F!AcyclicPlan  BY <1>2 DEF F!AcyclicPlan
  <2>2. \A n \in ToolNodes : ~ Active(v8[n])  BY <1>1 DEF FilesState, ScheduleSound, Active
  <2>3. \A n \in ToolNodes \ Left' : v8[n].at = "done"
    BY <1>1, <1>6 DEF FilesState, ScheduleSound
  <2>4. F!AcyclicPlan => \A n \in v7.layer : v6.deps[n] \cap Left' = {}
    BY <1>6 DEF FilesState, ScheduleSound
  <2> QED  BY <1>2, <1>5, <2>1, <2>2, <2>3, <2>4 DEF ScheduleSound
<1>9. ToolTypes'
  <2>1. v7' \in [remaining : SUBSET ToolNodes, layer : SUBSET ToolNodes, batch : SUBSET ToolNodes]
    BY <1>1, <1>3
  <2> QED  BY <1>2, <2>1 DEF FilesState, ToolTypes
<1>10. ToolsSound'  BY <1>2 DEF FilesState, ToolsSound, RowSound
<1> QED  BY <1>2, <1>8, <1>9, <1>10, FilesUntouched, TokensUntouched DEF FilesState

\* At the beginning of a round nothing has started.
LEMMA RoundBegins ==
    ASSUME v8 = [n \in ToolNodes |-> F!IdleNode], v6 \in Plans,
           v7.remaining = ToolNodes /\ v7.layer = {} /\ v7.batch = {},
           v7 \in [remaining : SUBSET ToolNodes, layer : SUBSET ToolNodes, batch : SUBSET ToolNodes]
    PROVE  ToolTypes /\ ScheduleSound /\ ToolsSound
<1>1. \A n \in ToolNodes : v8[n] = F!IdleNode /\ IsNode(v8[n]) /\ v8[n].at = "wait"
  <2> HIDE DEF F!IdleNode
  <2> QED  BY IdleIsNode
<1>2. ToolTypes  BY <1>1 DEF ToolTypes, NodePoints
<1>3. ScheduleSound  BY <1>1 DEF ScheduleSound, Active, Left
<1>4. ToolsSound  BY <1>1 DEF ToolsSound, RowSound, Active
<1> QED  BY <1>2, <1>3, <1>4

\* The next round starts with idle tools (tool_execution_node).
LEMMA FilesNextRound == ASSUME FilesState, F!NextRound PROVE FilesState'
<1>1. v7' = [v7 EXCEPT !.remaining = ToolNodes] /\ v8' = [n \in ToolNodes |-> F!IdleNode] /\ v6' \in Plans
      /\ v7.layer = {} /\ v7.batch = {}
  BY Zenon DEF F!NextRound
<1>2. UNCHANGED <<v1, v2, v3, v4, v5, v12, v13>>
  BY DEF F!NextRound, F!fileState
<1>3. v7 \in [remaining : SUBSET ToolNodes, layer : SUBSET ToolNodes, batch : SUBSET ToolNodes]
  BY DEF FilesState, ToolTypes
<1>4. /\ v7'.remaining = ToolNodes /\ v7'.layer = {} /\ v7'.batch = {}
      /\ v7' \in [remaining : SUBSET ToolNodes, layer : SUBSET ToolNodes, batch : SUBSET ToolNodes]
  BY <1>1, <1>3
<1>5. ToolTypes' /\ ScheduleSound' /\ ToolsSound'
  <2>1. \A n \in ToolNodes : v8'[n] = F!IdleNode /\ IsNode(v8'[n]) /\ v8'[n].at = "wait"
    <3> HIDE DEF F!IdleNode
    <3> QED  BY <1>1, IdleIsNode
  <2>2. ToolTypes'  BY <1>1, <1>4, <2>1 DEF ToolTypes, NodePoints, IsNode
  <2>3. ScheduleSound'  BY <1>4, <2>1 DEF ScheduleSound, Active, Left
  <2>4. ToolsSound'  BY <2>1 DEF ToolsSound, RowSound, Active
  <2> QED  BY <2>2, <2>3, <2>4
<1> QED  BY <1>2, <1>5, FilesUntouched, TokensUntouched DEF FilesState

\* A turn starts with the files of its session and nothing else.
LEMMA FilesStart == ASSUME F!FilesInit, F!SessionFilesAssumption PROVE FilesState
<1>1. /\ v1 \in [Paths -> {F!Absent, [text |-> <<1>>, stamp |-> 1]}] /\ v2 = 1 /\ v3 = {}
      /\ v4 = [p \in Paths |-> 0] /\ v5 = 0 /\ v6 \in Plans
      /\ v7 = [remaining |-> ToolNodes, layer |-> {}, batch |-> {}]
      /\ v8 = [n \in ToolNodes |-> F!IdleNode] /\ v12 = [t \in 1 .. MaxTokens |-> 0]
  BY Zenon DEF F!FilesInit
<1>2. ToolTypes /\ ScheduleSound /\ ToolsSound
  <2>1. /\ v7 \in [remaining : SUBSET ToolNodes, layer : SUBSET ToolNodes, batch : SUBSET ToolNodes]
        /\ v7.remaining = ToolNodes /\ v7.layer = {} /\ v7.batch = {}
    BY <1>1
  <2> QED  BY <1>1, <2>1, RoundBegins
<1>3. F!Absent.stamp = 0 /\ F!FileFits(F!Absent.text) /\ F!FileFits(<<1>>)
  BY DEF F!Absent, F!FileFits, F!SessionFilesAssumption
<1>4. \A p \in Paths : v1[p] = F!Absent \/ v1[p] = [text |-> <<1>>, stamp |-> 1]
  BY <1>1
<1>5. FileTypes
  <2> HIDE DEF F!Absent
  <2>1. DOMAIN v1 = Paths  BY <1>1
  <2>2. \A p \in Paths : v1[p].stamp \in 0 .. 1 /\ F!FileFits(v1[p].text)  BY <1>3, <1>4
  <2> QED  BY <1>1, <2>1, <2>2 DEF FileTypes
<1>6. StampsTell
  <2>1. \A p \in Paths : v1[p].stamp > 0 => v1[p].text = <<1>>  BY <1>3, <1>4
  <2> QED  BY <1>1, <2>1 DEF StampsTell
<1>7. TokenTypes /\ TokensSingle
  BY <1>1 DEF TokenTypes, TokensSingle, F!SessionFilesAssumption
<1> QED  BY <1>2, <1>5, <1>6, <1>7 DEF FilesState

\* No step of a tool, of the schedule or of the other run breaks the invariant.
LEMMA FilesStays == ASSUME FilesState, F!SessionFilesAssumption, F!FilesNext PROVE FilesState'
<1>1. ASSUME NEW n \in ToolNodes, F!ToolStep(n) PROVE FilesState'
  BY <1>1, FilesLookup, FilesEditRead, FilesTouch, FilesRmPreview, FilesWrite, FilesAppend,
     FilesMoveOrCopy, FilesRmCommit, FilesReadText, FilesReadStore, FilesEditWrite
     DEF F!ToolStep
<1>2. F!FileFits(<<2, 1>>)  BY DEF F!FileFits, F!SessionFilesAssumption
<1> QED
  BY <1>1, <1>2, FilesNextLayer, FilesNextStage, FilesEndStage, FilesNextRound, FilesExpire,
     FilesForeign DEF F!FilesNext

\* The invariant implies the properties of the files.
LEMMA FilesFollow ==
    ASSUME FilesState
    PROVE  F!FilesTypeOK /\ F!CacheFresh /\ F!RemovedOnce /\ F!LosesNoEdit
<1>1. F!FilesTypeOK
  BY DEF FilesState, FileTypes, TokenTypes, ToolTypes, F!FilesTypeOK, F!FileFits, NodePoints
<1>2. F!CacheFresh
  BY DEF FilesState, StampsTell, F!CacheFresh, F!FileExists, F!Fingerprint
<1>3. F!RemovedOnce  BY DEF FilesState, TokenTypes, F!RemovedOnce
<1>4. F!LosesNoEdit
  BY DEF FilesState, ToolsSound, RowSound, F!LosesNoEdit
<1> QED  BY <1>1, <1>2, <1>3, <1>4

\* A tool that starts is of the batch.
LEMMA ToolMoves ==
    ASSUME FilesState, NEW n \in ToolNodes, F!ToolStep(n)
    PROVE  n \in v7.batch /\ \A m \in ToolNodes : m # n => v8'[m] = v8[m]
<1>1. \/ \E kind : F!MayStart(n, kind)
      \/ v8[n].at \in {"text", "store", "edit", "rm"}
  BY DEF F!ToolStep, F!ReadLookup, F!EditRead, F!Touch, F!RmPreview, F!Write, F!Append1,
         F!MoveOrCopy, F!RmCommit, F!ReadText, F!ReadStore, F!EditWrite
<1>2. n \in v7.batch  BY <1>1, Starts, GoesOn DEF Active
<1>3. \E r : v8' = [v8 EXCEPT ![n] = r]
  BY Zenon DEF F!ToolStep, F!ReadLookup, F!EditRead, F!Touch, F!RmPreview, F!Write, F!Append1,
         F!MoveOrCopy, F!RmCommit, F!ReadText, F!ReadStore, F!EditWrite, F!Go, F!Finish, F!Done
<1>4. DOMAIN v8 = ToolNodes  BY DEF FilesState, ToolTypes
<1> QED  BY <1>2, <1>3, <1>4

\* A tool that starts is of the batch, and what it depends on has left the
\* schedule with an outcome.
LEMMA StartsInOrder ==
    ASSUME FilesState, F!SessionFilesAssumption, F!FilesNext PROVE F!StartsAfterDependencies
<1> SUFFICES ASSUME NEW n \in ToolNodes, F!AcyclicPlan, v8[n].at = "wait", v8'[n].at # "wait",
                    NEW d \in v6.deps[n]
             PROVE  v8[d].at = "done"
  BY DEF F!StartsAfterDependencies
<1>1. n \in v7.batch
  <2>1. CASE \E m \in ToolNodes : F!ToolStep(m)  BY <2>1, ToolMoves
  <2>2. CASE F!NextRound
    <3>1. v8'[n] = F!IdleNode  BY <2>2, Zenon DEF F!NextRound
    <3> QED  BY <3>1, IdleIsNode, Zenon
  <2>3. CASE \/ F!NextLayer \/ F!NextStage \/ F!EndStage
             \/ \E p \in Paths : F!ExpireToken(p)
             \/ \E p \in Paths : F!ForeignWrite(p, <<2, 1>>)
    <3>1. v8' = v8  BY <2>3 DEF F!NextLayer, F!NextStage, F!EndStage, F!ExpireToken, F!ForeignWrite
    <3> QED  BY <3>1
  <2> QED  BY <2>1, <2>2, <2>3 DEF F!FilesNext
<1>2. d \in ToolNodes /\ d \notin Left
  BY <1>1 DEF FilesState, ScheduleSound, ToolTypes, F!SessionFilesAssumption
<1> QED  BY <1>2 DEF FilesState, ScheduleSound

\* No step of any part breaks the invariant of the files.
LEMMA FilesSteps == FilesInv /\ [Next]_vars => FilesInv'
<1>0. F!SessionFilesAssumption  BY MakingAssumptions
<1> SUFFICES ASSUME FilesInv, [Next]_vars, part' = "files" PROVE FilesState'
  BY DEF FilesInv
<1>1. CASE part = "files" /\ F!FilesNext  BY <1>0, <1>1, FilesStays DEF FilesInv
<1>2. CASE UNCHANGED vars
  <2>1. part = "files" /\ UNCHANGED <<v1, v2, v3, v4, v5, v6, v7, v8, v12, v13>>  BY <1>2 DEF vars
  <2>2. FilesState  BY <2>1 DEF FilesInv
  <2>3. ToolsSound'  BY <2>1, <2>2 DEF FilesState, ToolsSound, RowSound
  <2> QED  BY <2>1, <2>2, <2>3, FilesUntouched, ToolsUntouched, TokensUntouched DEF FilesState
<1> QED  BY <1>1, <1>2 DEF Next

\* Files of a session (artifact_read_cache.py, artifact_tools.py,
\* session_fs_tools.py): for any paths, graphs and limits, and whatever another
\* run writes, the cache is fresh, a token removes one file and no edit is lost.
THEOREM FilesCorrect == Spec => FilesSound
<1>0. F!SessionFilesAssumption  BY MakingAssumptions
<1>1. Init => FilesInv  BY <1>0, FilesStart DEF Init, FilesInv
<1>2. FilesInv => (part = "files" => F!FilesTypeOK /\ F!CacheFresh /\ F!RemovedOnce)
  BY FilesFollow DEF FilesInv
<1>3. FilesInv /\ [Next]_vars => [part = "files" => F!LosesNoEdit]_vars
  BY FilesFollow DEF FilesInv
<1> QED  BY <1>1, <1>2, <1>3, FilesSteps, PTL DEF Spec, FilesSound

\* Stages of tools (tool_dag.py): for any graph without a cycle and any number
\* of workers, a tool starts after the tools it depends on.
THEOREM DependenciesCorrect == Spec => DependenciesFirst
<1>0. F!SessionFilesAssumption  BY MakingAssumptions
<1>1. Init => FilesInv  BY <1>0, FilesStart DEF Init, FilesInv
<1>2. FilesInv /\ [Next]_vars => [part = "files" => F!StartsAfterDependencies]_vars
  BY <1>0, StartsInOrder DEF FilesInv, Next
<1> QED  BY <1>1, <1>2, FilesSteps, PTL DEF Spec, DependenciesFirst
=============================================================================
