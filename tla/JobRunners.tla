----------------------------- MODULE JobRunners -----------------------------
(***************************************************************************)
(* The parts of the program that start tasks without a client waiting for  *)
(* a stream: the poller of the task queue, which the scheduler runs, and   *)
(* the batch runner with its thread pool.  Both call start_task and so go  *)
(* through TaskAdmission, where they meet the threads of POST /tasks.  The *)
(* process may die at any time; the rows of the queue and of the batches   *)
(* are all that is left.                                                   *)
(*                                                                         *)
(* Modelled with the SQLite queue backend.  Which pending item is the best *)
(* one depends on its priority and on its age, here on a free choice.      *)
(***************************************************************************)
EXTENDS TaskAdmission, Sequences

CONSTANTS
    Workers,     \* threads of BatchRunner._executor (BATCH_MAX_WORKERS)
    Pollers,     \* one per process that runs the scheduler
    Clients,     \* threads of POST /tasks
    Items,       \* bound: entries of the task queue
    Batches,     \* bound: batches
    BatchSize,   \* items of a batch, at least one (CreateBatchRequest)
    StoreFails,  \* a write of a batch row may fail
    MaxCrashes   \* bound: restarts of the process

ASSUME JobAssumption ==
    /\ Threads = Workers \cup Pollers \cup Clients
    /\ Workers \cap Pollers = {} /\ Workers \cap Clients = {} /\ Pollers \cap Clients = {}
    /\ "none" \notin Items /\ "none" \notin Batches
    /\ BatchSize \in Nat \ {0}
    /\ StoreFails \in BOOLEAN
    /\ MaxCrashes \in Nat

Positions == 1 .. BatchSize

\* Jobs of the executor: a batch (position 0) or an item of a batch.
Jobs == [batch : Batches, pos : 0 .. BatchSize]

VARIABLES
    item,     \* status of each entry of task_queue
    poller,   \* per poller: what its dequeue_next and start_task are at
    runs,     \* history: executions of each entry
    batch,    \* status of each batch
    entry,    \* per batch and position: status of the item
    jobs,     \* the executor's queue of work items
    worker,   \* per worker: its job, or none
    future,   \* per batch and position: "none", "waiting", "done" or "raised"
    crashes   \* number of restarts so far

queueVars == <<item, poller, runs>>
batchVars == <<batch, entry, jobs, worker, future>>
vars == <<active, waiting, call, usage, days, leaked,
          item, poller, runs, batch, entry, jobs, worker, future, crashes>>

NoItem == [step |-> "idle", item |-> "none"]
NoJob == [batch |-> "none", pos |-> 0]

Init ==
    /\ AdmissionInit
    /\ item = [i \in Items |-> "NONE"]
    /\ poller = [p \in Pollers |-> NoItem]
    /\ runs = [i \in Items |-> 0]
    /\ batch = [b \in Batches |-> "NONE"]
    /\ entry = [b \in Batches |-> [k \in Positions |-> "PENDING"]]
    /\ jobs = <<>>
    /\ worker = [w \in Workers |-> NoJob]
    /\ future = [b \in Batches |-> [k \in Positions |-> "none"]]
    /\ crashes = 0

-----------------------------------------------------------------------------
(* The task queue                                                          *)

\* A schedule fires: TaskQueueStore.enqueue.
Enqueue(i) ==
    /\ item[i] = "NONE"
    /\ item' = [item EXCEPT ![i] = "PENDING"]
    /\ UNCHANGED <<admissionVars, poller, runs, batchVars, crashes>>

\* Mutant of Select: the poller waits until no graph runs.
SelectWhenIdle(p, i) ==
    /\ active = 0
    /\ poller[p].step = "idle"
    /\ item[i] = "PENDING"
    /\ poller' = [poller EXCEPT ![p] = [step |-> "selected", item |-> i]]
    /\ UNCHANGED <<admissionVars, item, runs, batchVars, crashes>>

\* dequeue_next reads the pending entries in one transaction ...
Select(p, i) ==
    /\ poller[p].step = "idle"
    /\ item[i] = "PENDING"
    /\ poller' = [poller EXCEPT ![p] = [step |-> "selected", item |-> i]]
    /\ UNCHANGED <<admissionVars, item, runs, batchVars, crashes>>

\* Mutant of Claim: the entry is returned without being claimed.
ClaimNothing(p) ==
    /\ poller[p].step = "selected"
    /\ poller' = [poller EXCEPT ![p].step = "claimed"]
    /\ UNCHANGED <<admissionVars, item, runs, batchVars, crashes>>

\* ... claims the best one in another, and returns it whether or not the
\* update found it pending.
Claim(p) ==
    /\ poller[p].step = "selected"
    /\ LET i == poller[p].item IN
       item' = [item EXCEPT ![i] = IF @ = "PENDING" THEN "RUNNING" ELSE @]
    /\ poller' = [poller EXCEPT ![p].step = "claimed"]
    /\ UNCHANGED <<admissionVars, runs, batchVars, crashes>>

\* The poller calls start_task; a payload that is refused fails the entry.
PollerStarts(p) ==
    /\ poller[p].step = "claimed"
    /\ \/ /\ CheckQuota(p)
          /\ poller' = [poller EXCEPT ![p].step = "calling"]
          /\ runs' = [runs EXCEPT ![poller[p].item] = @ + 1]
          /\ UNCHANGED item
       \/ /\ item' = [item EXCEPT ![poller[p].item] = "FAILED"]
          /\ poller' = [poller EXCEPT ![p] = NoItem]
          /\ UNCHANGED <<admissionVars, runs>>
    /\ UNCHANGED <<batchVars, crashes>>

\* mark_completed or mark_failed.
PollerMarks(p) ==
    /\ poller[p].step = "calling"
    /\ Return(p)
    /\ item' = [item EXCEPT ![poller[p].item] =
                  IF call[p] = "ok" THEN "COMPLETED" ELSE "FAILED"]
    /\ poller' = [poller EXCEPT ![p] = NoItem]
    /\ UNCHANGED <<runs, batchVars, crashes>>

PollerStep(p) ==
    \/ \E i \in Items : Select(p, i)
    \/ Claim(p) \/ PollerStarts(p) \/ PollerMarks(p)

-----------------------------------------------------------------------------
(* Batches                                                                 *)

\* create_batch, then submit_batch.
Submit(b) ==
    /\ batch[b] = "NONE"
    /\ batch' = [batch EXCEPT ![b] = "PENDING"]
    /\ jobs' = Append(jobs, [batch |-> b, pos |-> 0])
    /\ UNCHANGED <<admissionVars, queueVars, entry, worker, future, crashes>>

\* list_pending_items: the items of a batch that are pending, in the order of
\* their priorities, for which the positions stand.
PendingItems(b) ==
    LET pending == {k \in Positions : entry[b][k] = "PENDING"} IN
    {o \in [1 .. Cardinality(pending) -> pending] : \A m, n \in DOMAIN o : m < n => o[m] < o[n]}

ItemJobs(b, o) == [n \in DOMAIN o |-> [batch |-> b, pos |-> o[n]]]

\* An idle worker takes the next job.  The job of a batch, _process_batch,
\* marks it RUNNING and hands its pending items to the same executor.
Take(w) ==
    /\ worker[w] = NoJob /\ jobs # <<>>
    /\ worker' = [worker EXCEPT ![w] = Head(jobs)]
    /\ LET b == Head(jobs).batch IN
       \/ /\ Head(jobs).pos = 0
          /\ batch' = [batch EXCEPT ![b] = "RUNNING"]
          /\ \E o \in PendingItems(b) :
                jobs' = Tail(jobs) \o ItemJobs(b, o)
          /\ future' = [future EXCEPT ![b] =
                          [k \in Positions |-> IF entry[b][k] = "PENDING" THEN "waiting" ELSE "none"]]
       \/ /\ Head(jobs).pos # 0
          /\ jobs' = Tail(jobs)
          /\ UNCHANGED <<batch, future>>
    /\ UNCHANGED <<admissionVars, queueVars, entry, crashes>>

\* run_item records its outcome.  Its own write may fail: that of COMPLETED
\* is caught and FAILED is written; one that fails again leaves the item
\* PENDING and makes the future raise.
Record(w, ok) ==
    LET b == worker[w].batch
        k == worker[w].pos
        statuses == (IF ok THEN {"COMPLETED"} ELSE {"FAILED"})
                    \cup (IF StoreFails THEN {"FAILED", "PENDING"} ELSE {})
    IN /\ \E s \in statuses :
             /\ entry' = [entry EXCEPT ![b][k] = s]
             /\ future' = [future EXCEPT ![b][k] = IF s = "PENDING" THEN "raised" ELSE "done"]
       /\ worker' = [worker EXCEPT ![w] = NoJob]
       /\ UNCHANGED <<batch, jobs>>

\* run_item: refused payload, start_task, and its end.
ItemRefused(w) ==
    /\ worker[w].pos # 0 /\ call[w] = "out"
    /\ Record(w, FALSE)
    /\ UNCHANGED <<admissionVars, queueVars, crashes>>

ItemStarts(w) ==
    /\ worker[w].pos # 0
    /\ CheckQuota(w)
    /\ UNCHANGED <<queueVars, batchVars, crashes>>

ItemEnds(w) ==
    /\ worker[w].pos # 0
    /\ Return(w)
    /\ Record(w, call[w] = "ok")
    /\ UNCHANGED <<queueVars, crashes>>

\* refresh_batch_counters: the status that the items of a batch add up to.
Refreshed(b) ==
    LET has(s) == \E k \in Positions : entry[b][k] = s IN
    CASE has("PENDING") /\ (has("COMPLETED") \/ has("FAILED")) -> "RUNNING"
      [] ~ has("PENDING") /\ ~ has("FAILED") -> "COMPLETED"
      [] ~ has("PENDING") /\ ~ has("COMPLETED") -> "FAILED"
      [] ~ has("PENDING") /\ has("COMPLETED") /\ has("FAILED") -> "PARTIAL"
      [] OTHER -> "PENDING"

\* Mutant of AllDone: the first future that is done ends the wait.
AllDoneFirst(b) == \E k \in Positions : future[b][k] = "done"

\* Mutant of AllDone: a failed item keeps the batch waiting.
AllDoneCompleted(b) == \A k \in Positions : entry[b][k] = "COMPLETED"

\* as_completed is exhausted and no future raised.
AllDone(b) == \A k \in Positions : future[b][k] \in {"none", "done"}

\* The worker that runs _process_batch waits in it for the futures.
BatchEnd(w) ==
    /\ worker[w] # NoJob /\ worker[w].pos = 0
    /\ LET b == worker[w].batch IN
       /\ AllDone(b)
       /\ batch' = [batch EXCEPT ![b] = Refreshed(b)]
    /\ worker' = [worker EXCEPT ![w] = NoJob]
    /\ UNCHANGED <<admissionVars, queueVars, entry, jobs, future, crashes>>

\* future.result() raises: the counters are not refreshed.
BatchRaises(w) ==
    /\ worker[w] # NoJob /\ worker[w].pos = 0
    /\ \E k \in Positions : future[worker[w].batch][k] = "raised"
    /\ worker' = [worker EXCEPT ![w] = NoJob]
    /\ UNCHANGED <<admissionVars, queueVars, batch, entry, jobs, future, crashes>>

WorkerStep(w) ==
    Take(w) \/ ItemRefused(w) \/ ItemStarts(w) \/ ItemEnds(w) \/ BatchEnd(w) \/ BatchRaises(w)

-----------------------------------------------------------------------------
(* Requests, and the process                                               *)

\* POST /tasks.
Request(t) ==
    /\ CheckQuota(t) \/ Return(t)
    /\ UNCHANGED <<queueVars, batchVars, crashes>>

InCall(t) == CallStep(t) /\ UNCHANGED <<queueVars, batchVars, crashes>>

Midnight == NewDay /\ UNCHANGED <<queueVars, batchVars, crashes>>

\* The process dies and starts again: only rows are left.
Crash ==
    /\ crashes < MaxCrashes
    /\ crashes' = crashes + 1
    /\ active' = 0 /\ waiting' = 0 /\ usage' = 0 /\ leaked' = 0
    /\ call' = [t \in Threads |-> "out"]
    /\ poller' = [p \in Pollers |-> NoItem]
    /\ jobs' = <<>>
    /\ worker' = [w \in Workers |-> NoJob]
    /\ future' = [b \in Batches |-> [k \in Positions |-> "none"]]
    /\ UNCHANGED <<days, item, runs, batch, entry>>

Next ==
    \/ \E i \in Items : Enqueue(i)
    \/ \E p \in Pollers : PollerStep(p)
    \/ \E b \in Batches : Submit(b)
    \/ \E w \in Workers : WorkerStep(w)
    \/ \E t \in Clients : Request(t)
    \/ \E t \in Threads : InCall(t)
    \/ Midnight \/ Crash

Spec == Init /\ [][Next]_vars

\* Threads run on and every graph ends (StreamsEnd of RunLifecycle); nobody is
\* obliged to send requests.  Time passes, so a thread that sleeps again and
\* again reaches its deadline.
Fairness ==
    /\ \A p \in Pollers : WF_vars(PollerStep(p))
    /\ \A w \in Workers : WF_vars(WorkerStep(w))
    /\ \A t \in Threads : WF_vars(InCall(t))
    /\ \A t \in Pollers \cup Workers : SF_vars(InCall(t) /\ Expire(t))

FairSpec == Spec /\ Fairness

-----------------------------------------------------------------------------
(* Properties                                                              *)

TypeOK ==
    /\ AdmissionTypeOK
    /\ item \in [Items -> {"NONE", "PENDING", "RUNNING", "COMPLETED", "FAILED"}]
    /\ poller \in [Pollers -> [step : {"idle", "selected", "claimed", "calling"},
                               item : Items \cup {"none"}]]
    /\ runs \in [Items -> Nat]
    /\ batch \in [Batches -> {"NONE", "PENDING", "RUNNING", "COMPLETED", "FAILED", "PARTIAL"}]
    /\ entry \in [Batches -> [Positions -> {"PENDING", "COMPLETED", "FAILED"}]]
    /\ jobs \in Seq(Jobs)
    /\ worker \in [Workers -> Jobs \cup {NoJob}]
    /\ future \in [Batches -> [Positions -> {"none", "waiting", "done", "raised"}]]
    /\ crashes \in 0 .. MaxCrashes

\* An entry of the task queue is executed at most once, although dequeue_next
\* ignores whether its claim succeeded and the process may die in between.
\* It takes the single poller that the scheduler runs in one process.
OncePerEntry == \A i \in Items : runs[i] <= 1

\* An entry is RUNNING only in the hands of a poller; one that has no poller
\* any more was claimed by a process that died.
RunningHasPoller ==
    crashes = 0 =>
        \A i \in Items : item[i] = "RUNNING" => \E p \in Pollers : poller[p].item = i

\* A batch with a final status is really over: no item is pending, no worker
\* is at it, and the status is what the items say.  A batch that is RUNNING is
\* coordinated by a worker, unless the process died or a row could not be
\* written (refresh_batch_counters after as_completed).
BatchTruthful ==
    \A b \in Batches :
        /\ batch[b] \in {"COMPLETED", "FAILED", "PARTIAL"} =>
              /\ \A k \in Positions : entry[b][k] # "PENDING"
              /\ \A w \in Workers : worker[w].batch # b
              /\ batch[b] = "COMPLETED" <=> \A k \in Positions : entry[b][k] = "COMPLETED"
              /\ batch[b] = "FAILED" <=> \A k \in Positions : entry[b][k] = "FAILED"
        /\ batch[b] = "RUNNING" =>
              \/ \E w \in Workers : worker[w] = [batch |-> b, pos |-> 0]
              \/ \E k \in Positions : future[b][k] = "raised"
              \/ crashes > 0

\* The queue: an entry that runs is somebody's, and runs once.
QueueSound == RunningHasPoller /\ OncePerEntry

\* The types, and what a batch says of its items.
JobsSound == TypeOK /\ BatchTruthful

\* What is pending in the queue is taken, also after a restart.
PendingIsTaken == \A i \in Items : item[i] = "PENDING" ~> item[i] # "PENDING"

\* tests/api/test_batch_api.py polls "until detail["status"] in
\* ("COMPLETED", "PARTIAL", "FAILED")": every batch that was submitted ends,
\* unless the process dies or its rows cannot be written.
BatchesEnd ==
    \A b \in Batches : batch[b] = "PENDING" ~>
        \/ batch[b] \in {"COMPLETED", "PARTIAL", "FAILED"}
        \/ crashes > 0
        \/ \E k \in Positions : future[b][k] = "raised"
=============================================================================
