----------------------------- MODULE Supervisor -----------------------------
(***************************************************************************)
(* A supervisor task: decompose, work, merge (runtime/supervisor_graph.py  *)
(* and its nodes).  The subtasks run in a pool of threads                  *)
(* (domain/worker_executor.py), each in a worker graph of its own, with    *)
(* retries, or at another service that is found in the agent registry      *)
(* (a2a_dispatch.py, agent_registry.py); what failed is run once more      *)
(* before the results are merged.                                          *)
(***************************************************************************)
EXTENDS Naturals, FiniteSets

CONSTANTS
    Subtasks,       \* subtask ids; a task has some of them
    MaxThreads,     \* SUPERVISOR_MAX_WORKERS
    Retries,        \* SUPERVISOR_WORKER_RETRIES
    Ttl,            \* A2A_REGISTRY_TTL_SEC, in ticks
    MaxTicks        \* bound: ticks of the registry's clock

SupervisorAssumption ==
    /\ MaxThreads \in Nat \ {0}
    /\ {Retries, Ttl, MaxTicks} \subseteq Nat

Outcomes == {"COMPLETED", "FAILED"}

VARIABLES
    sup,        \* the task: node, status, subtasks, worker results, answer
    thread,     \* the thread of every subtask
    batch,      \* subtasks the pool runs now
    agent,      \* the other service: [known, age] of its registry row
    ticks,
    ran,        \* history: runs of every subtask
    won         \* history: runs that were reported as completed

supervisorVars == <<sup, thread, batch, agent, ticks, ran, won>>

NoThread == [at |-> "idle", tries |-> 0, outcome |-> "none"]

SupervisorInit ==
    /\ sup = [at |-> "decompose", status |-> "PENDING", subs |-> {},
              row |-> [s \in Subtasks |-> "PENDING"], compensated |-> {},
              result |-> [s \in Subtasks |-> "none"], answer |-> "none"]
    /\ thread = [s \in Subtasks |-> NoThread]
    /\ batch = {}
    /\ agent = [known |-> FALSE, age |-> 0] /\ ticks = 0
    /\ ran = [s \in Subtasks |-> 0] /\ won = [s \in Subtasks |-> 0]

-----------------------------------------------------------------------------
(* The registry of agents                                                  *)

registryOnly == <<sup, thread, batch, ran, won>>

Register == agent' = [known |-> TRUE, age |-> 0] /\ UNCHANGED <<registryOnly, ticks>>

Heartbeat ==
    /\ agent.known
    /\ agent' = [agent EXCEPT !.age = 0]
    /\ UNCHANGED <<registryOnly, ticks>>

Tick ==
    /\ ticks < MaxTicks
    /\ ticks' = ticks + 1
    /\ agent' = [agent EXCEPT !.age = IF agent.known THEN @ + 1 ELSE @]
    /\ UNCHANGED registryOnly

\* discover: a row whose last heartbeat is older than its time to live is
\* left out.
Live == agent.known /\ agent.age <= Ttl

-----------------------------------------------------------------------------
(* The nodes                                                               *)

\* supervisor_decompose: a failure is recorded, and the graph goes on to the
\* workers without subtasks.
AfterDecompose(subs) ==
    [sup EXCEPT !.at = "work", !.subs = subs,
                !.status = IF subs = {} THEN "FAILED" ELSE "PLANNED"]

\* decompose_to_agent_messages: some subtasks, at least the fallback.
Decompose ==
    /\ sup.at = "decompose"
    /\ \E subs \in SUBSET Subtasks : sup' = AfterDecompose(subs)
    /\ batch' = sup'.subs
    /\ UNCHANGED <<thread, agent, ticks, ran, won>>

Busy == {s \in batch : thread[s].at \notin {"idle", "done"}}

\* A thread of the pool takes a subtask, and dispatches it to the other
\* service if that is registered for its capability, else to a worker here.
Dispatch(s) ==
    /\ sup.at \in {"work", "compensate"}
    /\ s \in batch /\ thread[s].at = "idle" /\ Cardinality(Busy) < MaxThreads
    /\ \E at \in {"here"} \cup (IF Live THEN {"there"} ELSE {}) :
          thread' = [thread EXCEPT ![s] = [@ EXCEPT !.at = at, !.tries = 0]]
    /\ UNCHANGED <<sup, batch, agent, ticks, ran, won>>

Counted(s, o) ==
    /\ ran' = [ran EXCEPT ![s] = @ + 1]
    /\ won' = [won EXCEPT ![s] = IF o = "COMPLETED" THEN @ + 1 ELSE @]

\* execute_domain_worker_with_retry.
MayTryAgain(th, o) == o # "COMPLETED" /\ th.tries < Retries

\* One run of the worker graph: it ends in an answer, or its status or an
\* exception makes it a failure.
RunWorker(s) ==
    /\ thread[s].at = "here"
    /\ \E o \in Outcomes :
          /\ thread' = IF MayTryAgain(thread[s], o)
                       THEN [thread EXCEPT ![s].tries = @ + 1]
                       ELSE [thread EXCEPT ![s].at = "done", ![s].outcome = o]
          /\ Counted(s, o)
    /\ UNCHANGED <<sup, batch, agent, ticks>>

\* _dispatch_external: the answer of the service, or an error when the call
\* fails, whether or not the service did the work.
RunThere(s) ==
    /\ thread[s].at = "there"
    /\ \E o \in Outcomes :
          /\ thread' = [thread EXCEPT ![s] = [@ EXCEPT !.at = "done", !.outcome = o]]
          /\ Counted(s, o)
    /\ UNCHANGED <<sup, batch, agent, ticks>>

\* The pack of a domain is looked up outside the worker's try block: the
\* exception ends the node once the other threads are done.
WorkerRaises(s) ==
    /\ thread[s].at = "here" /\ thread[s].tries = 0
    /\ thread' = [thread EXCEPT ![s] = [@ EXCEPT !.at = "done", !.outcome = "raised"]]
    /\ UNCHANGED <<sup, batch, agent, ticks, ran, won>>

AllDone == \A s \in batch : thread[s].at = "done"
Raised == \E s \in batch : thread[s].outcome = "raised"

\* Mutant of Told: after a compensation the rows of the subtasks stay as they
\* were.
ToldOld(x) ==
    [x EXCEPT !.result = [s \in Subtasks |-> IF s \in batch THEN thread[s].outcome ELSE @[s]],
              !.row = [s \in Subtasks |-> IF s \in batch /\ x.at = "work" THEN thread[s].outcome ELSE @[s]]]

\* The outcomes of a batch, in the results and in the rows of the subtasks.
Told(x) ==
    [x EXCEPT !.result = [s \in Subtasks |-> IF s \in batch THEN thread[s].outcome ELSE @[s]],
              !.row = [s \in Subtasks |-> IF s \in batch THEN thread[s].outcome ELSE @[s]]]

\* supervisor_worker: the status is REASONED however many failed.
WorkersEnd ==
    /\ sup.at = "work" /\ AllDone
    /\ sup' = IF Raised THEN [sup EXCEPT !.at = "merge", !.status = "FAILED"]
              ELSE [Told(sup) EXCEPT !.at = "merge", !.status = "REASONED"]
    /\ batch' = {} /\ thread' = [s \in Subtasks |-> NoThread]
    /\ UNCHANGED <<agent, ticks, ran, won>>

\* _retry_failed_workers: critical, which is the default, and not yet tried.
Critical == {s \in sup.subs : sup.row[s] = "FAILED"} \ sup.compensated

MergeStarts ==
    /\ sup.at = "merge"
    /\ sup' = [sup EXCEPT !.at = IF Critical = {} THEN "synthesize" ELSE "compensate"]
    /\ batch' = Critical
    /\ UNCHANGED <<thread, agent, ticks, ran, won>>

Compensated ==
    /\ sup.at = "compensate" /\ AllDone
    /\ sup' = IF Raised THEN [sup EXCEPT !.at = "policy", !.status = "FAILED"]
              ELSE [Told(sup) EXCEPT !.at = "synthesize", !.compensated = @ \cup batch]
    /\ batch' = {} /\ thread' = [s \in Subtasks |-> NoThread]
    /\ UNCHANGED <<agent, ticks, ran, won>>

\* All failed: a degraded answer without a model call.  Otherwise the model
\* merges; a failure of the call fails the node.
Synthesize ==
    /\ sup.at = "synthesize"
    /\ LET have == {s \in sup.subs : sup.result[s] # "none"} IN
       \E a \in IF have # {} /\ \A s \in have : sup.result[s] = "FAILED"
                THEN {"degraded"} ELSE {"merged", "none"} :
          sup' = [sup EXCEPT !.at = "policy", !.answer = a,
                             !.status = IF a = "none" THEN "FAILED" ELSE "REASONED"]
    /\ UNCHANGED <<thread, batch, agent, ticks, ran, won>>

SupervisorNext ==
    \/ Decompose \/ WorkersEnd \/ MergeStarts \/ Compensated \/ Synthesize
    \/ \E s \in Subtasks : Dispatch(s) \/ RunWorker(s) \/ RunThere(s) \/ WorkerRaises(s)
    \/ Register \/ Heartbeat \/ Tick

SupervisorSpec == SupervisorInit /\ [][SupervisorNext]_supervisorVars

-----------------------------------------------------------------------------
(* Properties                                                              *)

\* What the answer was merged from is what the subtasks say: a subtask's row
\* and its result agree, through the retries and the compensation, and an
\* answer is called degraded only if nothing was completed.
SubtasksAgree ==
    sup.at \in {"synthesize", "policy"} =>
        /\ \A s \in sup.subs :
              sup.row[s] = IF sup.result[s] = "none" THEN "PENDING" ELSE sup.result[s]
        /\ sup.answer = "degraded" => \A s \in sup.subs : won[s] = 0

\* Work is bounded and what was completed is not done again: no subtask runs
\* more often than two rounds of retries, or is completed twice.
WorkBounded ==
    \A s \in Subtasks : ran[s] <= 2 * (Retries + 1) /\ won[s] <= 1
=============================================================================
