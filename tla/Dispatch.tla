------------------------------ MODULE Dispatch ------------------------------
(***************************************************************************)
(* Scheduled tasks on the Celery backend: schedules and the jobs the       *)
(* scheduler keeps for them in memory (schedule_api.py, schedule_store.py, *)
(* scheduler_service.py), the row a firing puts into task_queue, its       *)
(* mirror in a Redis sorted set, the message to the workers, and the       *)
(* worker that runs it (task_queue_store.py, celery_queue.py,              *)
(* celery_tasks.py).  The poller of the SQLite backend is in JobRunners;   *)
(* on this backend it returns at once.                                     *)
(*                                                                         *)
(* External: the broker delivers a message at least once (a prefetched     *)
(* message whose visibility timeout passes is delivered again), the        *)
(* scheduler runs a job at most once at a time.                            *)
(***************************************************************************)
EXTENDS Integers, FiniteSets, Sequences

CONSTANTS
    Schedules,     \* schedules that users create
    BadCron,       \* those whose cron expression does not parse
    Hands,         \* Celery worker processes
    MaxTickets,    \* bound: entries of task_queue
    MaxAgain,      \* bound: messages delivered again
    MaxStops       \* bound: ends of the API process or of a worker

DispatchAssumption ==
    /\ BadCron \subseteq Schedules
    /\ {MaxTickets, MaxAgain, MaxStops} \subseteq Nat

VARIABLES
    schedule,  \* per schedule: its row, "absent", "on", "off" or "deleted"
    jobMap,    \* SchedulerService._job_map, with the jobs themselves
    desk,      \* per schedule: what a request about it has still to do
    firing,    \* per schedule: where its running job is
    tickets,   \* rows of task_queue: schedule, status and times started
    mirror,    \* the Redis sorted set of pending entries
    mail,      \* per entry: messages with the broker
    hand,      \* per worker: the entry it works on and the status it read
    again,     \* messages delivered again
    stops      \* processes that ended

dispatchVars == <<schedule, jobMap, desk, firing, tickets, mirror, mail, hand, again, stops>>

Resting == [ticket |-> 0, read |-> "none"]
TicketIds == 1 .. MaxTickets

DispatchInit ==
    /\ schedule = [s \in Schedules |-> "absent"]
    /\ jobMap = {}
    /\ desk = [s \in Schedules |-> {}]
    /\ firing = [s \in Schedules |-> "idle"]
    /\ tickets = <<>>
    /\ mirror = {}
    /\ mail = [q \in TicketIds |-> 0]
    /\ hand = [h \in Hands |-> Resting]
    /\ again = 0 /\ stops = 0

DispatchTypeOK ==
    /\ schedule \in [Schedules -> {"absent", "on", "off", "deleted"}]
    /\ jobMap \subseteq Schedules
    /\ desk \in [Schedules -> SUBSET {"add", "remove"}]
    /\ firing \in [Schedules -> {"idle", "read", "stored"}]
    /\ \A q \in 1 .. Len(tickets) :
          tickets[q] \in [of : Schedules, runs : Nat,
                          status : {"PENDING", "RUNNING", "COMPLETED", "FAILED"}]
    /\ Len(tickets) <= MaxTickets /\ mirror \subseteq 1 .. Len(tickets)
    /\ mail \in [TicketIds -> 0 .. 1 + MaxAgain]
    /\ hand \in [Hands -> [ticket : 0 .. MaxTickets,
                           read : {"none", "PENDING", "RUNNING", "started"}]]

queueSide == <<tickets, mirror, mail, hand, again, stops>>

-----------------------------------------------------------------------------
(* Schedules                                                               *)

\* create_schedule: the row.
Create(s) ==
    /\ schedule[s] = "absent"
    /\ \/ schedule' = [schedule EXCEPT ![s] = "on"] /\ desk' = [desk EXCEPT ![s] = {"add"}]
       \/ schedule' = [schedule EXCEPT ![s] = "off"] /\ UNCHANGED desk
    /\ UNCHANGED <<jobMap, firing, queueSide>>

\* _register_job: an expression that does not parse is logged and skipped.
Registered(set) == set \ BadCron

\* create_schedule goes on: add_schedule.
Add(s) ==
    /\ "add" \in desk[s]
    /\ desk' = [desk EXCEPT ![s] = @ \ {"add"}]
    /\ jobMap' = jobMap \cup Registered({s})
    /\ UNCHANGED <<schedule, firing, queueSide>>

\* delete_schedule: the row, which the list shows as soon as it is stored.
DeleteRow(s) ==
    /\ schedule[s] \in {"on", "off"}
    /\ schedule' = [schedule EXCEPT ![s] = "deleted"]
    /\ desk' = [desk EXCEPT ![s] = @ \cup {"remove"}]
    /\ UNCHANGED <<jobMap, firing, queueSide>>

\* delete_schedule goes on: remove_schedule.
Remove(s) ==
    /\ "remove" \in desk[s]
    /\ desk' = [desk EXCEPT ![s] = @ \ {"remove"}]
    /\ jobMap' = jobMap \ {s}
    /\ UNCHANGED <<schedule, firing, queueSide>>

\* Mutant of Fire: the job trusts what it was registered for.
FireUnchecked(s) ==
    /\ s \in jobMap /\ firing[s] = "idle" /\ Len(tickets) < MaxTickets
    /\ firing' = [firing EXCEPT ![s] = "read"]
    /\ UNCHANGED <<schedule, jobMap, desk, queueSide>>

\* _run_scheduled_task: the schedule is read again and must be enabled.
Fire(s) ==
    /\ s \in jobMap /\ firing[s] = "idle" /\ Len(tickets) < MaxTickets
    /\ firing' = [firing EXCEPT ![s] = IF schedule[s] = "on" THEN "read" ELSE "idle"]
    /\ UNCHANGED <<schedule, jobMap, desk, queueSide>>

\* TaskQueueStore.enqueue: the row is committed.
PutTicket(s) ==
    /\ firing[s] = "read" /\ Len(tickets) < MaxTickets
    /\ firing' = [firing EXCEPT ![s] = "stored"]
    /\ tickets' = Append(tickets, [of |-> s, status |-> "PENDING", runs |-> 0])
    /\ UNCHANGED <<schedule, jobMap, desk, mirror, mail, hand, again, stops>>

\* The ticket this firing of s has stored.
NewTicket(s) == CHOOSE q \in 1 .. Len(tickets) :
    /\ tickets[q].of = s
    /\ \A r \in q + 1 .. Len(tickets) : tickets[r].of # s

\* enqueue goes on: push_pending and dispatch_queue_task, either of which may
\* raise; the job catches it and notes it in the schedule's hint (mark_run).
Send(s) ==
    /\ firing[s] = "stored"
    /\ firing' = [firing EXCEPT ![s] = "idle"]
    /\ \/ mirror' = mirror \cup {NewTicket(s)} /\ mail' = [mail EXCEPT ![NewTicket(s)] = @ + 1]
       \/ mirror' = mirror \cup {NewTicket(s)} /\ UNCHANGED mail
       \/ UNCHANGED <<mirror, mail>>
    /\ UNCHANGED <<schedule, jobMap, desk, tickets, hand, again, stops>>

\* The API process ends and starts again: start and reload_jobs.
RestartApi ==
    /\ stops < MaxStops /\ stops' = stops + 1
    /\ desk' = [s \in Schedules |-> {}]
    /\ firing' = [s \in Schedules |-> "idle"]
    /\ jobMap' = Registered({s \in Schedules : schedule[s] = "on"})
    /\ UNCHANGED <<schedule, tickets, mirror, mail, hand, again>>

-----------------------------------------------------------------------------
(* Workers                                                                 *)

scheduleSide == <<schedule, jobMap, desk, firing>>

Redeliver(q) ==
    /\ mail[q] > 0 /\ again < MaxAgain
    /\ mail' = [mail EXCEPT ![q] = @ + 1]
    /\ again' = again + 1
    /\ UNCHANGED <<scheduleSide, tickets, mirror, hand, stops>>

\* process_queue_task: the row is read; a settled one needs nothing.
Receive(h, q) ==
    /\ mail[q] > 0 /\ hand[h] = Resting
    /\ mail' = [mail EXCEPT ![q] = @ - 1]
    /\ hand' = IF tickets[q].status \in {"PENDING", "RUNNING"}
               THEN [hand EXCEPT ![h] = [ticket |-> q, read |-> tickets[q].status]] ELSE hand
    /\ UNCHANGED <<scheduleSide, tickets, mirror, again, stops>>

\* _claim_by_id, whose answer is not looked at, and start_task.
StartTicket(h) ==
    /\ hand[h].read \in {"PENDING", "RUNNING"}
    /\ hand' = [hand EXCEPT ![h].read = "started"]
    /\ tickets' = [tickets EXCEPT
          ![hand[h].ticket].runs = @ + 1,
          ![hand[h].ticket].status = IF hand[h].read = "PENDING" /\ @ = "PENDING" THEN "RUNNING" ELSE @]
    /\ UNCHANGED <<scheduleSide, mirror, mail, again, stops>>

\* mark_completed or mark_failed, whatever the row says by now.
Settle(h) ==
    /\ hand[h].read = "started"
    /\ hand' = [hand EXCEPT ![h] = Resting]
    /\ \E st \in {"COMPLETED", "FAILED"} :
          tickets' = [tickets EXCEPT ![hand[h].ticket].status = st]
    /\ UNCHANGED <<scheduleSide, mirror, mail, again, stops>>

\* A worker dies; its message was acknowledged when it began.
StopHand(h) ==
    /\ hand[h] # Resting /\ stops < MaxStops /\ stops' = stops + 1
    /\ hand' = [hand EXCEPT ![h] = Resting]
    /\ UNCHANGED <<scheduleSide, tickets, mirror, mail, again>>

DispatchNext ==
    \/ \E s \in Schedules : \/ Create(s) \/ Add(s) \/ DeleteRow(s) \/ Remove(s)
                            \/ Fire(s) \/ PutTicket(s) \/ Send(s)
    \/ RestartApi
    \/ \E q \in TicketIds : Redeliver(q) \/ \E h \in Hands : Receive(h, q)
    \/ \E h \in Hands : StartTicket(h) \/ Settle(h) \/ StopHand(h)

DispatchSpec == DispatchInit /\ [][DispatchNext]_dispatchVars

-----------------------------------------------------------------------------
(* Properties                                                              *)

\* Once a schedule is deleted and the firing that was under way is over, no
\* further one gets to the queue, even when its job is still registered: a
\* request that creates the schedule may register the job after another has
\* deleted both (schedule_api.py:47, :81, scheduler_service.py:94).
StaysQuiet ==
    \A s \in Schedules :
        (schedule[s] = "deleted" /\ firing[s] = "idle") => firing'[s] = "idle"

\* Settled entries with nobody at work on them stay as they are, however often
\* the broker delivers their message (celery_tasks.py:31).  While a worker is
\* at work a second delivery runs the task again.
SettledStays ==
    \A q \in 1 .. Len(tickets) :
        (tickets[q].status \in {"COMPLETED", "FAILED"} /\ \A h \in Hands : hand[h].ticket # q)
            => tickets'[q] = tickets[q] /\ \A h \in Hands : hand'[h].ticket # q

=============================================================================
