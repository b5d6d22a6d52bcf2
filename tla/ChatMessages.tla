---------------------------- MODULE ChatMessages ----------------------------
(***************************************************************************)
(* The persisted conversation of one task: user and assistant messages,    *)
(* the numbered stream events an assistant message is rebuilt from, and    *)
(* the readers that resume a stream from the stored events                 *)
(* (chat_message_store.py, chat_message_service.py, message_projection.py, *)
(* stream_event_resume.py and the pump of graph_runner.py).                *)
(*                                                                         *)
(* Every stream of the task has two threads: the worker, which runs the    *)
(* graph and stores thinking itself, and the pump, which stores whatever   *)
(* the worker put into the side queues.  Both number their events with the *)
(* stream's counter, without a lock.  The handlers the worker reports to   *)
(* are globals of the process, so an older stream of the task that has not *)
(* stopped yet shares them with the newer one.                             *)
(***************************************************************************)
EXTENDS Naturals, Sequences, SequencesExt, FiniteSets, FiniteSetsExt, TLC

CONSTANTS
    NStreams,     \* bound: streams opened for the task
    NReports,     \* bound: reports made by the worker of one stream
    Reports,      \* the kinds of report that are made
    MaxTwins,     \* bound: streams that are open at the same time
    MaxPolls      \* bound: the times the reader polls before its time is over

ChatAssumption ==
    /\ NStreams \in Nat \ {0}
    /\ NReports \in Nat
    /\ Reports \subseteq {"thinking", "answer", "writing", "rewrite", "trace", "progress",
                          "reasoning", "tools", "revoked"}
    /\ MaxTwins \in Nat \ {0}
    /\ MaxPolls \in Nat \ {0}

Streams == 1 .. NStreams
Recorders == Streams \X {"worker", "pump"}

\* Reports that go to a side queue, and nodes that go to the node queue.
SideKinds == {"answer", "writing", "rewrite", "trace", "progress"}
NodeKinds == {"reasoning", "tools", "revoked"}

\* A stream event: its type and the run that reported it.
EventTypesOf == {"ui", "thinking", "snapshot", "answer", "writing", "rewrite", "trace",
                 "preview", "revoked"}
Event == [type : EventTypesOf, by : Streams]

VARIABLES
    events,     \* chat_message_events: seq -> [message, event]
    stream,     \* per stream: its message, its message context and its queues
    rec,        \* per thread: the event being recorded and its number
    handler,    \* the stream the global handlers belong to, 0 if none
    active,     \* graph run registry and live entry: the running stream, or 0
    muted,      \* the SSE output of the running stream is interrupted
    reader      \* a resumed reader: where it is, its cursor, what it delivered

chatVars == <<events, stream, rec, handler, active, muted, reader>>

\* Of a stream: where pump and worker are, the reports made, the side queues
\* and the node queue ("end" is its last item), what the pump records next,
\* the context's next number, and the status and blocks of the message.
NewStream ==
    [pump |-> "none", worker |-> "new", made |-> 0, side |-> <<>>, nodes |-> <<>>,
     todo |-> <<>>, next |-> 1, status |-> "none", blocks |-> <<>>]

-----------------------------------------------------------------------------
(* Projection of events into blocks                                        *)

Block(type, n, st) == [type |-> type, text |-> n, status |-> st]

LastOf(bs, type) == Max({0} \cup {i \in DOMAIN bs : bs[i].type = type})
FirstOf(bs, type) == SelectInSeq(bs, LAMBDA b : b.type = type)

\* The text of a block is the number of deltas it holds.
Extend(bs, i) == [bs EXCEPT ![i].text = @ + 1]

\* apply_event_to_blocks.  A rewrite opens another block with the same key,
\* and what is written next goes to the first one with that key.
ApplyEvent(bs, type) ==
    LET think == LastOf(bs, "thinking")
        answer == LastOf(bs, "answer")
        write == FirstOf(bs, "writing")
    IN
    CASE type = "ui" -> bs
      [] type = "thinking" /\ (think = 0 \/ bs[think].status = "completed") ->
             Append(bs, Block("thinking", 1, "streaming"))
      [] type = "thinking" -> Extend(bs, think)
      [] type = "snapshot" /\ think = 0 -> <<Block("thinking", 1, "completed")>> \o bs
      [] type = "snapshot" -> [bs EXCEPT ![think].status = "completed"]
      [] type = "rewrite" \/ (type = "writing" /\ write = 0) ->
             Append(bs, Block("writing", 1, "streaming"))
      [] type = "writing" -> Extend(bs, write)
      [] type = "answer" /\ answer = 0 -> Append(bs, Block("answer", 1, "streaming"))
      [] type = "answer" -> Extend(bs, answer)
      [] OTHER -> Append(bs, Block(type, 1, "none"))

\* finalize_blocks.
Finalized(bs) ==
    [i \in DOMAIN bs |->
        IF bs[i].status = "streaming" THEN [bs[i] EXCEPT !.status = "completed"] ELSE bs[i]]

\* sort_blocks_for_display: a stable sort by the kind of block.
DisplayRank(b) ==
    CASE b.type = "thinking" -> 0 [] b.type = "trace" -> 1 [] b.type = "writing" -> 2
      [] b.type = "preview" -> 3 [] b.type = "answer" -> 4 [] OTHER -> 5
SortForDisplay(bs) ==
    LET Ranked(k) == SelectSeq(bs, LAMBDA b : DisplayRank(b) = k) IN
    Ranked(0) \o Ranked(1) \o Ranked(2) \o Ranked(3) \o Ranked(4) \o Ranked(5)

\* list_events of one message, in the order of their numbers.
EventsOf(s) ==
    SelectSeq([i \in 1 .. Max({0} \cup DOMAIN events) |-> i],
              LAMBDA n : n \in DOMAIN events /\ events[n].message = s)

\* project_events_to_blocks.
Project(s) ==
    SortForDisplay(Finalized(
        FoldLeft(LAMBDA bs, n : ApplyEvent(bs, events[n].event.type), <<>>, EventsOf(s))))

\* ensure_answer_in_blocks: the final text of n parts is there at least.
EnsureAnswer(bs, n) ==
    LET a == LastOf(bs, "answer") IN
    IF n = 0 \/ (a # 0 /\ n <= bs[a].text) THEN bs
    ELSE IF a = 0 THEN Append(bs, Block("answer", n, "completed"))
    ELSE [bs EXCEPT ![a].text = n]

-----------------------------------------------------------------------------
(* Opening a stream                                                        *)

NoRecord == [step |-> "none", seq |-> 0, event |-> [type |-> "ui", by |-> 1]]

NewReader == [at |-> "idle", cursor |-> 0, got |-> {}, polls |-> 0]

ChatInit ==
    /\ events = <<>>
    /\ stream = [s \in Streams |-> NewStream]
    /\ rec = [w \in Recorders |-> NoRecord]
    /\ handler = 0
    /\ active = 0
    /\ muted = FALSE
    /\ reader = NewReader

\* next_event_seq.
NextEventSeq == Max({0} \cup DOMAIN events) + 1

Open(s) == stream[s].pump \notin {"none", "done", "broken"}

\* The head of _stream_single: the run is registered, the assistant message
\* is created with the first of two telemetry events.
OpenStream(s) ==
    /\ stream[s].pump = "none"
    /\ \A c \in Streams : c < s => stream[c].pump # "none"
    /\ Cardinality({c \in Streams : Open(c)}) < MaxTwins
    /\ stream' = [stream EXCEPT ![s].pump = "opening", ![s].next = NextEventSeq,
                                ![s].status = "streaming", ![s].todo = <<"ui", "ui">>]
    /\ active' = s
    /\ muted' = FALSE
    /\ UNCHANGED <<events, rec, handler, reader>>

PumpFree(s) == stream[s].todo = <<>> /\ rec[s, "pump"] = NoRecord

\* The six handlers are installed and the worker is started.
StartWorker(s) ==
    /\ stream[s].pump = "opening"
    /\ PumpFree(s)
    /\ stream' = [stream EXCEPT ![s].pump = "loop", ![s].worker = "running"]
    /\ handler' = s
    /\ UNCHANGED <<events, rec, active, muted, reader>>

-----------------------------------------------------------------------------
(* record_stream_event, by either thread                                   *)

\* seq = ctx.next_seq.
ReadSeq(w, e) ==
    /\ rec[w] = NoRecord
    /\ rec' = [rec EXCEPT ![w] = [step |-> "read", seq |-> stream[w[1]].next, event |-> e]]

\* ctx.next_seq += 1: the other thread of the stream may have done the same,
\* before this one loaded the counter or after.
BumpSeq(w) ==
    /\ rec[w].step = "read"
    /\ \E n \in {rec[w].seq, stream[w[1]].next} : stream' = [stream EXCEPT ![w[1]].next = n + 1]
    /\ rec' = [rec EXCEPT ![w].step = "store"]
    /\ UNCHANGED <<events, handler, active, muted, reader>>

\* append_event.  The blocks that are written to the message now and then are
\* left out: they are overwritten at the end, and until then build_session_view
\* replays the events.
AppendEvent(w) ==
    /\ rec[w].step = "store"
    /\ rec[w].seq \notin DOMAIN events
    /\ events' = (rec[w].seq :> [message |-> w[1], event |-> rec[w].event]) @@ events
    /\ rec' = [rec EXCEPT ![w] = NoRecord]
    /\ UNCHANGED <<stream, handler, active, muted, reader>>

\* A number that is taken is refused by the table's key: the exception ends
\* the pump; the worker's node handles it or raises.
RefuseEvent(w) ==
    LET s == w[1] IN
    /\ rec[w].step = "store"
    /\ rec[w].seq \in DOMAIN events
    /\ \/ w[2] = "pump" /\ stream' = [stream EXCEPT ![s].pump = "failing"]
       \/ w[2] = "worker" /\ stream' = [stream EXCEPT ![s].worker = "raising"]
       \/ w[2] = "worker" /\ UNCHANGED stream
    /\ rec' = [rec EXCEPT ![w] = NoRecord]
    /\ UNCHANGED <<events, handler, active, muted, reader>>

-----------------------------------------------------------------------------
(* The worker reports                                                      *)

\* Mutant of Accepts: events of superseded runs are not dropped.
AcceptsAll(s, e) == TRUE

\* _accept_stream_side_event: a report of another run is dropped.
Accepts(s, e) == e.by = s

\* report_*: whatever handler is installed takes it, perhaps that of another
\* stream.  The thinking handler stores the event in its own stream's message.
Reported(s, kind) ==
    LET e == [type |-> kind, by |-> s] h == handler IN
    \/ /\ kind \in NodeKinds
       /\ stream' = [stream EXCEPT ![s].made = @ + 1, ![s].nodes = Append(@, kind)]
       /\ UNCHANGED rec
    \/ /\ kind \in SideKinds /\ h # 0
       /\ stream' = [[stream EXCEPT ![s].made = @ + 1] EXCEPT ![h].side = Append(@, e)]
       /\ UNCHANGED rec
    \/ /\ kind = "thinking" /\ h # 0 /\ Accepts(h, e)
       /\ stream' = [stream EXCEPT ![s].made = @ + 1]
       /\ ReadSeq(<<s, "worker">>, e)
    \/ /\ kind \notin NodeKinds
       /\ h = 0 \/ (kind = "thinking" /\ ~ Accepts(h, e))
       /\ stream' = [stream EXCEPT ![s].made = @ + 1]
       /\ UNCHANGED rec

Report(s, kind) ==
    /\ stream[s].worker = "running"
    /\ rec[s, "worker"] = NoRecord
    /\ stream[s].made < NReports
    /\ Reported(s, kind)
    /\ UNCHANGED <<events, handler, active, muted, reader>>

\* The end of _run_graph: the last item is queued, and the run leaves the
\* registry with its live entry and its control before the pump is done.
EndWorker(s) ==
    /\ stream[s].worker \in {"running", "raising"}
    /\ rec[s, "worker"] = NoRecord
    /\ \E w \in IF stream[s].worker = "running" THEN {"ended", "raised"} ELSE {"raised"} :
          stream' = [stream EXCEPT ![s].worker = w, ![s].nodes = Append(@, "end")]
    /\ active' = IF active = s THEN 0 ELSE active
    /\ muted' = FALSE
    /\ UNCHANGED <<events, rec, handler, reader>>

-----------------------------------------------------------------------------
(* The pump                                                                *)

\* The pump records the next of the events it owes.
PumpRecords(s) ==
    /\ stream[s].pump \in {"opening", "loop", "final"}
    /\ stream[s].todo # <<>>
    /\ ReadSeq(<<s, "pump">>, [type |-> Head(stream[s].todo), by |-> s])
    /\ stream' = [stream EXCEPT ![s].todo = Tail(@)]
    /\ UNCHANGED <<events, handler, active, muted, reader>>

\* _drain_sse_side_queues and the progress queue.  Answers and progress are
\* taken whoever reported them, the others only from the pump's own run; the
\* queues are drained in passes, so that the order between them is open.
DrainSide(s) ==
    /\ stream[s].pump \in {"loop", "drain"}
    /\ PumpFree(s)
    /\ \E i \in DOMAIN stream[s].side :
          LET e == stream[s].side[i] IN
          /\ \A j \in 1 .. i - 1 : stream[s].side[j].type # e.type
          /\ muted => e.type = "progress"
          /\ stream' = [stream EXCEPT ![s].side = RemoveAt(@, i)]
          /\ IF e.type \in {"answer", "progress"} \/ Accepts(s, e)
             THEN ReadSeq(<<s, "pump">>, [e EXCEPT !.type = IF @ = "progress" THEN "ui" ELSE @])
             ELSE UNCHANGED rec
    /\ UNCHANGED <<events, handler, active, muted, reader>>

HasThinking(s) ==
    \E n \in DOMAIN events : events[n].message = s /\ events[n].event.type = "thinking"

\* What a finished node adds: telemetry, and the snapshot of the thinking, a
\* tool preview or the answer's revocation.
Follow(s, node) ==
    CASE node = "reasoning" -> IF HasThinking(s) THEN <<"snapshot", "ui">> ELSE <<"ui">>
      [] node = "tools" -> <<"ui", "preview">>
      [] node = "revoked" -> <<"ui", "revoked">>

TakeNode(s) ==
    /\ stream[s].pump = "loop"
    /\ PumpFree(s)
    /\ stream[s].nodes # <<>>
    /\ LET node == Head(stream[s].nodes) IN
       stream' = [stream EXCEPT ![s].nodes = Tail(@),
                                ![s].pump = IF node = "end" THEN "drain" ELSE @,
                                ![s].todo = IF node = "end" THEN @ ELSE Follow(s, node)]
    /\ UNCHANGED <<events, rec, handler, active, muted, reader>>

\* The last drain found its queues empty, or was told to leave them.
Drained(s) ==
    \A i \in DOMAIN stream[s].side : muted /\ stream[s].side[i].type # "progress"

\* After the last drain the handlers are removed.  An exception of the graph
\* is reported without the message's context; otherwise the message will be
\* finalised, after a snapshot of its thinking.
LeaveLoop(s) ==
    /\ stream[s].pump = "drain"
    /\ PumpFree(s)
    /\ Drained(s)
    /\ handler' = 0
    /\ stream' = [stream EXCEPT
           ![s].pump = IF stream[s].worker = "raised" THEN "broken" ELSE "final",
           ![s].todo = IF stream[s].worker # "raised" /\ HasThinking(s)
                       THEN <<"snapshot">> ELSE <<>>]
    /\ muted' = FALSE
    /\ active' = IF active = s THEN 0 ELSE active
    /\ UNCHANGED <<events, rec, reader>>

\* A completed turn has a final answer, also when none was streamed.
AnswerParts(st) == IF st = "completed" THEN 1 ELSE 0

\* finalize_assistant_message: the blocks are rebuilt from the stored events.
FinalizeMessage(s) ==
    /\ stream[s].pump = "final"
    /\ PumpFree(s)
    /\ \E st \in {"completed", "failed", "interrupted"} :
          stream' = [stream EXCEPT ![s].pump = "done", ![s].status = st,
              ![s].blocks = EnsureAnswer(Project(s), AnswerParts(st))]
    /\ UNCHANGED <<events, rec, handler, active, muted, reader>>

\* The client goes away at a yield and the generator is closed.
Disconnect(s) ==
    /\ stream[s].pump = "loop"
    /\ rec[s, "pump"] = NoRecord
    /\ stream' = [stream EXCEPT ![s].pump = "failing", ![s].todo = <<>>]
    /\ UNCHANGED <<events, rec, handler, active, muted, reader>>

\* The finally block on the way out: the handlers go, then the worker is
\* waited for.
Unwind(s) ==
    /\ stream[s].pump = "failing"
    /\ handler' = 0
    /\ stream' = [stream EXCEPT ![s].pump = "joining"]
    /\ UNCHANGED <<events, rec, active, muted, reader>>

Joined(s) ==
    /\ stream[s].pump = "joining"
    /\ stream[s].worker \notin {"running", "raising"}
    /\ stream' = [stream EXCEPT ![s].pump = "broken"]
    /\ active' = IF active = s THEN 0 ELSE active
    /\ muted' = FALSE
    /\ UNCHANGED <<events, rec, handler, reader>>

\* interrupt_task_stream: side events are held back while the run goes on.
Mute ==
    /\ active # 0 /\ ~ muted
    /\ muted' = TRUE
    /\ UNCHANGED <<events, stream, rec, handler, active, reader>>

-----------------------------------------------------------------------------
(* Reading: a resumed stream (iter_resumed_sse) with tail_live             *)

Unread == {n \in DOMAIN events : n > reader.cursor}

\* list_events after the cursor.
PollEvents ==
    /\ reader.at = "wait" \/ (reader.at = "idle" /\ active # 0)
    /\ reader' = [at |-> "test", cursor |-> Max({reader.cursor} \cup Unread),
                  got |-> reader.got \cup Unread, polls |-> reader.polls + 1]
    /\ UNCHANGED <<events, stream, rec, handler, active, muted>>

\* build_session_view: the events are replayed once more for the client.
SessionView(s) == SortForDisplay(EnsureAnswer(Project(s), AnswerParts(stream[s].status)))

\* Then the registry and the live entry are looked at, and the clock.
TestLive ==
    /\ reader.at = "test"
    /\ reader' = IF active = 0 THEN [reader EXCEPT !.at = "done"]
                 ELSE IF reader.polls < MaxPolls THEN [reader EXCEPT !.at = "wait"]
                 ELSE [NewReader EXCEPT !.at = "late"]
    /\ UNCHANGED <<events, stream, rec, handler, active, muted>>

-----------------------------------------------------------------------------

WorkerStep(s) ==
    \/ \E k \in Reports : Report(s, k)
    \/ EndWorker(s)

PumpStep(s) ==
    \/ StartWorker(s) \/ PumpRecords(s) \/ DrainSide(s) \/ TakeNode(s)
    \/ LeaveLoop(s) \/ FinalizeMessage(s) \/ Unwind(s) \/ Joined(s)

RecordStep(w) == BumpSeq(w) \/ AppendEvent(w) \/ RefuseEvent(w)

ChatNext ==
    \/ \E s \in Streams : OpenStream(s) \/ WorkerStep(s) \/ PumpStep(s) \/ Disconnect(s)
    \/ \E w \in Recorders : RecordStep(w)
    \/ Mute
    \/ PollEvents
    \/ TestLive

ChatSpec == ChatInit /\ [][ChatNext]_chatVars

-----------------------------------------------------------------------------
(* Properties                                                              *)

ChatTypeOK ==
    /\ DOMAIN events \subseteq Nat \ {0}
    /\ \A n \in DOMAIN events : events[n].message \in Streams /\ events[n].event \in Event
    /\ \A s \in Streams :
          /\ stream[s].status \in {"none", "streaming", "completed", "failed", "interrupted"}
          /\ stream[s].worker \in {"new", "running", "raising", "ended", "raised"}
          /\ stream[s].next \in Nat \ {0}
          /\ \A i \in DOMAIN stream[s].blocks : stream[s].blocks[i].text \in Nat \ {0}
    /\ handler \in 0 .. NStreams
    /\ active \in 0 .. NStreams
    /\ reader.got \subseteq DOMAIN events

\* The docstring of _accept_stream_side_event: events of superseded runs are
\* dropped, since the handlers are shared.  Whatever two streams of a task do
\* at the same time, thinking, writing and traces of one are never stored in
\* the message of the other.
OwnEventsOnly ==
    \A n \in DOMAIN events :
        events[n].event.type \notin {"answer", "ui"} => events[n].event.by = events[n].message

Pieces(bs, type) == FoldLeft(LAMBDA n, b : IF b.type = type THEN n + b.text ELSE n, 0, bs)
Stored(s, types) ==
    Cardinality({n \in DOMAIN events : events[n].message = s /\ events[n].event.type \in types})

\* A message that was finalised has left "streaming", none of its blocks is
\* open, and they hold every part that was stored for it, whichever thread
\* stored it and in whatever order, and what a client is shown later; nothing
\* that the stream captured is left in its queues, unless a later stream of
\* the task came in between, whose interruption holds back this one's events.
FinalisedWhole ==
    \A s \in Streams : stream[s].pump = "done" =>
        /\ stream[s].status # "streaming"
        /\ (\A c \in Streams : c # s => stream[c].pump = "none") => stream[s].side = <<>>
        /\ \A i \in DOMAIN stream[s].blocks : stream[s].blocks[i].status # "streaming"
        /\ SortForDisplay(stream[s].blocks) = SessionView(s)
        /\ Pieces(stream[s].blocks, "writing") = Stored(s, {"writing", "rewrite"})
        /\ Pieces(stream[s].blocks, "answer") >= Stored(s, {"answer"})

\* The docstring of iter_resumed_sse: with tail_live, new events are polled
\* for while the task is still running.  Then a reader that ended would have
\* delivered everything that was stored by then.  Does not hold: the end of the run
\* is tested after the last read.
TailDelivered == reader.at = "done" => DOMAIN events \subseteq reader.got
=============================================================================
