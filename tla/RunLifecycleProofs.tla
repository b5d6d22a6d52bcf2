------------------------- MODULE RunLifecycleProofs -------------------------
(***************************************************************************)
(* What the streams of a task leave in the registries and in the store,    *)
(* for any number of turns, requests and timeouts.                         *)
(***************************************************************************)
EXTENDS RunLifecycle, TLAPS

\* What a node of the graph does, whatever it decides: one visit, and only a
\* settled status when the graph ends there.
NodeMove(s) ==
    \E snap \in Snapshot, save \in BOOLEAN, next \in Nodes \cup {"end"} :
        /\ wpc[s] \in Nodes
        /\ visits[s] < RecursionLimit
        /\ Visit(s, snap, save, next)
        /\ next = "end" => snap.status # "RUNNING"
        /\ Clean \/ Uncounted(s) \/ Counted(s)
        /\ UNCHANGED halted

\* The stop in front of human_review.
ReviewMove(s) ==
    \E snap \in Snapshot, told \in BOOLEAN :
        /\ wpc[s] \in Nodes
        /\ visits[s] < RecursionLimit
        /\ StopForReview(s, snap, told)
        /\ Clean

NodeStep(s) ==
    \/ PlanNode(s) \/ ToolNode(s) \/ EngNode(s) \/ ReasonNode(s) \/ PolicyNode(s)
    \/ OutputNode(s) \/ RejectedNode(s) \/ DeadLetterNode(s)

-----------------------------------------------------------------------------
(* Snapshots and nodes                                                     *)

\* A save stores one of the two snapshots and never undoes a terminal one.
LEMMA SavedFacts ==
  ASSUME NEW r \in Snapshot, NEW s \in Snapshot
  PROVE  /\ Saved(r, s) \in Snapshot
         /\ Saved(r, s) = r \/ Saved(r, s) = s
         /\ Terminal(r) => Terminal(Saved(r, s))
         /\ Terminal(s) => Terminal(Saved(r, s))
         /\ r.status # "RUNNING" /\ s.status # "RUNNING" => Saved(r, s).status # "RUNNING"
         /\ s.status # "RUNNING" => Saved(r, s).status # "RUNNING"
BY DEF Saved, Terminal, TerminalProtect

\* Settling a request gives a status that is not RUNNING.
LEMMA SettledFacts ==
  ASSUME NEW s \in Snapshot, NEW c \in Control
  PROVE  /\ Settled(s, c) \in Snapshot
         /\ s.status # "RUNNING" => Settled(s, c).status # "RUNNING"
<1> DEFINE st == IF c.why = "budget" THEN "TIMED_OUT" ELSE "CANCELLED"
<1>1. st \in Status /\ "PAUSED" \in Status /\ st # "RUNNING"
  BY DEF Status, TerminalProtect
<1>2. CASE c.cancel \/ s.creq
  <2>1. Settled(s, c) = [s EXCEPT !.creq = FALSE, !.status = st]
    BY <1>2 DEF Settled
  <2> QED
    BY <1>1, <2>1 DEF Snapshot
<1>3. CASE ~ (c.cancel \/ s.creq) /\ (c.pause \/ s.preq)
  <2>1. Settled(s, c) = [s EXCEPT !.preq = FALSE, !.status = "PAUSED"]
    BY <1>3 DEF Settled
  <2> QED
    BY <1>1, <2>1 DEF Snapshot
<1>4. CASE ~ (c.cancel \/ s.creq) /\ ~ (c.pause \/ s.preq)
  BY <1>4 DEF Settled
<1> QED
  BY <1>2, <1>3, <1>4

\* The snapshots the nodes make.
LEMMA NodeSnapshots ==
  ASSUME TypeOK, NEW s \in Streams
  PROVE  /\ graph[s] \in Snapshot
         /\ \A status \in Status : /\ With(s, status) \in Snapshot
                                   /\ With(s, status).status = status
         /\ CancelledSnap(s) \in Snapshot
<1>1. graph[s] \in Snapshot
  BY DEF TypeOK
<1>2. ASSUME NEW status \in Status
      PROVE  With(s, status) \in Snapshot /\ With(s, status).status = status
  BY <1>1, <1>2 DEF With, Snapshot
<1>3. CancelledSnap(s) \in Snapshot
  <2> DEFINE st == IF control.why = "budget" THEN "TIMED_OUT" ELSE "CANCELLED"
  <2>1. st \in Status
    BY DEF Status, TerminalProtect
  <2>2. CancelledSnap(s) = [graph[s] EXCEPT !.abort = TRUE, !.status = st]
    BY DEF CancelledSnap
  <2> QED
    BY <2>1, <2>2, <1>1 DEF Snapshot
<1> QED
  BY <1>1, <1>2, <1>3

LEMMA Routes ==
  ASSUME NEW count, NEW node \in Nodes
  PROVE  FailedRoute(count, node) \in Nodes
BY DEF FailedRoute, Nodes

LEMMA NodeRoutes ==
  ASSUME NEW s \in Streams
  PROVE  EngRoute(s) \in Nodes /\ PlanRoutes(s) \subseteq Nodes
BY Routes DEF EngRoute, PlanRoutes, Nodes

LEMMA NodeMoves ==
  ASSUME TypeOK, NEW s \in Streams, NodeStep(s)
  PROVE  NodeMove(s) \/ ReviewMove(s)
<1> USE NodeSnapshots, Routes, NodeRoutes
<1>1. CASE PlanNode(s)
  BY <1>1 DEF PlanNode, NodeMove, At, Nodes, Status, TerminalProtect
<1>2. CASE ToolNode(s)
  <2>1. /\ wpc[s] \in Nodes /\ visits[s] < RecursionLimit /\ UNCHANGED halted
        /\ "RUNNING" \in Status /\ "PAUSED" \in Status
        /\ {"tool", "plan", "reason"} \subseteq Nodes /\ "end" \notin Nodes
    BY <1>2 DEF ToolNode, At, Nodes, Status
  <2>2. \E snap \in Snapshot, save \in BOOLEAN, next \in Nodes :
           Visit(s, snap, save, next) /\ (Clean \/ Uncounted(s) \/ Counted(s))
    BY <1>2, <2>1 DEF ToolNode
  <2> QED
    BY <2>1, <2>2 DEF NodeMove
<1>3. CASE EngNode(s)
  BY <1>3 DEF EngNode, NodeMove, At, Nodes, Status, TerminalProtect
<1>4. CASE ReasonNode(s)
  BY <1>4 DEF ReasonNode, NodeMove, At, Nodes, Status, TerminalProtect
<1>5. CASE PolicyNode(s)
  BY <1>5 DEF PolicyNode, NodeMove, ReviewMove, At, Nodes, Status, TerminalProtect
<1>6. CASE OutputNode(s)
  BY <1>6 DEF OutputNode, NodeMove, At, Nodes, Status, TerminalProtect
<1>7. CASE RejectedNode(s)
  BY <1>7 DEF RejectedNode, NodeMove, At, Nodes, Status, TerminalProtect
<1>8. CASE DeadLetterNode(s)
  BY <1>8 DEF DeadLetterNode, NodeMove, At, Nodes, Status, TerminalProtect
<1> QED
  BY <1>1, <1>2, <1>3, <1>4, <1>5, <1>6, <1>7, <1>8 DEF NodeStep

-----------------------------------------------------------------------------
(* Types                                                                   *)

\* A node is counted as an attempt at most once for each visit.
TypeInv ==
    /\ TypeOK
    /\ \A s \in Streams : retry[s] <= visits[s]

LEMMA Constants ==
  /\ NStreams \in Nat /\ NStreams >= 1
  /\ RecursionLimit \in Nat /\ MaxRequests \in Nat /\ MaxTimeouts \in Nat
  /\ Streams \subseteq 0 .. NStreams /\ 0 \in 0 .. NStreams /\ 0 \notin Streams
  /\ \A s \in Streams : s \in Nat
BY LifecycleAssumption DEF LifecycleAssumption, Streams

LEMMA Nothing == NoRow \in Snapshot /\ NoControl \in Control
BY Constants DEF NoRow, NoControl, Snapshot, Control, Status

LEMMA Stamped ==
  ASSUME NEW x \in Snapshot, NEW status \in Status
  PROVE  [x EXCEPT !.status = status] \in Snapshot
BY DEF Snapshot

LEMMA NodeType ==
  ASSUME TypeInv, NEW s \in Streams, NodeMove(s) \/ ReviewMove(s)
  PROVE  TypeInv'
<1>1. \E snap \in Snapshot, next \in Nodes \cup {"end"}, told \in BOOLEAN :
         /\ graph' = [graph EXCEPT ![s] = snap]
         /\ row' = row \/ row' = Saved(row, snap)
         /\ wpc' = [wpc EXCEPT ![s] = next]
         /\ q' = [q EXCEPT ![s] = Append(@, [snap |-> snap, review |-> told, last |-> FALSE])]
  BY DEF NodeMove, ReviewMove, Visit, StopForReview
<1>2. /\ visits' = [visits EXCEPT ![s] = @ + 1] /\ visits[s] < RecursionLimit
      /\ UNCHANGED <<active, control, live, pumpVars, failed, mixed, otherVars>>
      /\ halted' \in [Streams -> BOOLEAN]
  BY DEF NodeMove, ReviewMove, Visit, StopForReview, TypeInv, TypeOK
<1>3. Clean \/ Uncounted(s) \/ Counted(s)
  BY DEF NodeMove, ReviewMove
<1>4. /\ graph' \in [Streams -> Snapshot] /\ row' \in Snapshot
      /\ wpc' \in [Streams -> Nodes \cup {"none", "end", "ending", "dead"}]
      /\ q' \in [Streams -> Seq(Item)]
  <2>1. PICK snap \in Snapshot, next \in Nodes \cup {"end"}, told \in BOOLEAN :
         /\ graph' = [graph EXCEPT ![s] = snap]
         /\ row' = row \/ row' = Saved(row, snap)
         /\ wpc' = [wpc EXCEPT ![s] = next]
         /\ q' = [q EXCEPT ![s] = Append(@, [snap |-> snap, review |-> told, last |-> FALSE])]
    BY <1>1
  <2>2. [snap |-> snap, review |-> told, last |-> FALSE] \in Item
    BY DEF Item
  <2> QED
    BY <2>1, <2>2, SavedFacts DEF TypeInv, TypeOK
<1>5. /\ errors' \in [Streams -> BOOLEAN] /\ retry' \in [Streams -> 0 .. RecursionLimit]
      /\ visits' \in [Streams -> 0 .. RecursionLimit]
      /\ \A t \in Streams : retry'[t] <= visits'[t]
  <2>1. /\ errors \in [Streams -> BOOLEAN] /\ retry \in [Streams -> 0 .. RecursionLimit]
        /\ visits \in [Streams -> 0 .. RecursionLimit]
        /\ \A t \in Streams : retry[t] <= visits[t]
    BY DEF TypeInv, TypeOK
  <2>2. visits' \in [Streams -> 0 .. RecursionLimit] /\ visits'[s] = visits[s] + 1
    BY <1>2, <2>1, Constants
  <2>3. CASE Clean \/ Uncounted(s)
    <3>1. UNCHANGED retry /\ errors' \in [Streams -> BOOLEAN]
      BY <2>1, <2>3 DEF Clean, Uncounted
    <3>2. \A t \in Streams : visits[t] <= visits'[t] /\ visits'[t] \in Nat
      BY <1>2, <2>1, <2>2, Constants
    <3> QED
      BY <2>1, <2>2, <3>1, <3>2, Constants
  <2>4. CASE Counted(s)
    <3>1. retry[s] + 1 \in 0 .. RecursionLimit /\ retry[s] + 1 <= visits[s] + 1
      BY <1>2, <2>1, Constants
    <3> QED
      BY <1>2, <2>1, <2>2, <2>4, <3>1 DEF Counted
  <2> QED
    BY <1>3, <2>3, <2>4
<1> QED
  BY <1>2, <1>4, <1>5 DEF TypeInv, TypeOK, pumpVars, otherVars

LEMMA InitType == Init => TypeInv
<1> SUFFICES ASSUME Init
             PROVE  TypeInv
  OBVIOUS
<1>1. <<>> \in Seq(Item)
  OBVIOUS
<1>2. /\ row \in Snapshot /\ control \in Control /\ watchdog \in Snapshot
      /\ latest \in [Streams -> Snapshot] /\ draft \in [Streams -> Snapshot]
      /\ graph \in [Streams -> Snapshot] /\ closer \in [Streams -> Snapshot]
      /\ q \in [Streams -> Seq(Item)]
  BY <1>1, Nothing DEF Init
<1>3. request \in [pc : {"idle", "apply", "settle"}, kind : {"none", "pause", "cancel"},
                   stored : Snapshot]
  BY Nothing DEF Init
<1>4. /\ retry \in [Streams -> 0 .. RecursionLimit] /\ visits \in [Streams -> 0 .. RecursionLimit]
      /\ \A s \in Streams : retry[s] <= visits[s]
  BY Constants DEF Init
<1>5. /\ pump \in [Streams -> {"idle", "open", "preempted", "registered", "started", "pump",
                             "drained", "flushed", "join", "quit", "finalize", "done", "leaked"}]
      /\ wpc \in [Streams -> Nodes \cup {"none", "end", "ending", "dead"}]
      /\ stop \in [Streams -> BOOLEAN] /\ review \in [Streams -> BOOLEAN]
      /\ errors \in [Streams -> BOOLEAN] /\ failed \in [Streams -> BOOLEAN]
      /\ halted \in [Streams -> BOOLEAN]
  BY DEF Init
<1>6. /\ active \in 0 .. NStreams /\ live \in 0 .. NStreams
      /\ requests \in 0 .. MaxRequests /\ timeouts \in 0 .. MaxTimeouts /\ mixed \in BOOLEAN
  <2>1. 0 \in 0 .. NStreams /\ 0 \in 0 .. MaxRequests /\ 0 \in 0 .. MaxTimeouts
    BY Constants
  <2> QED
    BY <2>1 DEF Init
<1> QED
  BY <1>2, <1>3, <1>4, <1>5, <1>6 DEF TypeInv, TypeOK

LEMMA NextType == TypeInv /\ [Next]_vars => TypeInv'
<1> SUFFICES ASSUME TypeInv, [Next]_vars
             PROVE  TypeInv'
  OBVIOUS
<1> USE SavedFacts, SettledFacts, Nothing, Constants
<1>1. ASSUME NEW s \in Streams, Open(s)
      PROVE  TypeInv'
  <2>1. [NoRow EXCEPT !.status = "RUNNING", !.turn = s] \in Snapshot
    BY DEF Snapshot, Status
  <2> QED
    BY <1>1, <2>1 DEF Open, TypeInv, TypeOK, otherVars
<1>2. ASSUME NEW s \in Streams, PumpStep(s)
      PROVE  TypeInv'
  <2>1. CASE Preempt(s)
    BY <2>1 DEF Preempt, TypeInv, TypeOK, workerVars, otherVars, Control
  <2>2. CASE Register(s)
    BY <2>2 DEF Register, TypeInv, TypeOK, workerVars, otherVars
  <2>3. CASE Attach(s)
    BY <2>3 DEF Attach, TypeInv, TypeOK, workerVars, otherVars, Control
  <2>4. CASE StartWorker(s)
    BY <2>4 DEF StartWorker, TypeInv, TypeOK, shared, otherVars, Nodes
  <2>5. CASE PumpItem(s)
    <3>1. q[s] \in Seq(Item) /\ q[s] # <<>>
      BY <2>5 DEF PumpItem, TypeInv, TypeOK
    <3>2. Head(q[s]) \in Item /\ Tail(q[s]) \in Seq(Item)
      BY <3>1
    <3>3. Head(q[s]).snap \in Snapshot /\ Head(q[s]).review \in BOOLEAN
      BY <3>2 DEF Item
    <3>4. (review[s] \/ Head(q[s]).review) \in BOOLEAN
      OBVIOUS
    <3> QED
      BY <2>5, <3>2, <3>3, <3>4 DEF PumpItem, TypeInv, TypeOK, shared, otherVars
  <2>6. CASE PumpStops(s)
    BY <2>6 DEF PumpStops, TypeInv, TypeOK, shared, workerVars, otherVars
  <2>7. CASE PumpFlushes(s)
    <3>1. row' \in Snapshot /\ latest' \in [Streams -> Snapshot]
      BY <2>7 DEF PumpFlushes, TypeInv, TypeOK
    <3> QED
      BY <2>7, <3>1 DEF PumpFlushes, TypeInv, TypeOK, workerVars, otherVars
  <2>8. CASE StreamError(s)
    <3>1. [latest[s] EXCEPT !.status = "FAILED"] \in Snapshot
      BY Stamped DEF TypeInv, TypeOK, Status, TerminalProtect
    <3>2. latest' = [latest EXCEPT ![s] = [latest[s] EXCEPT !.status = "FAILED"]]
      BY <2>8 DEF StreamError
    <3> QED
      BY <2>8, <3>1, <3>2 DEF StreamError, TypeInv, TypeOK, workerVars, otherVars
  <2>9. CASE CheckStored(s)
    BY <2>9 DEF CheckStored, TypeInv, TypeOK, shared, workerVars, otherVars
  <2>10. CASE Join(s)
    <3>1. /\ active' \in 0 .. NStreams /\ control' \in Control /\ live' \in 0 .. NStreams
          /\ q' \in [Streams -> Seq(Item)]
          /\ draft' \in [Streams -> Snapshot] /\ graph' \in [Streams -> Snapshot]
      BY <2>10 DEF Join, EndRun, TypeInv, TypeOK
    <3>2. /\ retry' \in [Streams -> 0 .. RecursionLimit]
          /\ visits' \in [Streams -> 0 .. RecursionLimit]
          /\ \A t \in Streams : retry'[t] <= visits'[t]
      BY <2>10 DEF Join, TypeInv, TypeOK
    <3>3. /\ stop' \in [Streams -> BOOLEAN] /\ failed' \in [Streams -> BOOLEAN]
          /\ errors' \in [Streams -> BOOLEAN]
          /\ UNCHANGED <<row, latest, review, wpc, halted, mixed, otherVars>>
          /\ pump' = [pump EXCEPT ![s] = IF @ = "join" THEN "finalize" ELSE "done"]
      BY <2>10 DEF Join, TypeInv, TypeOK
    <3> QED
      BY <3>1, <3>2, <3>3 DEF TypeInv, TypeOK, otherVars
  <2>11. CASE Finalize(s)
    <3>1. /\ latest[s] \in Snapshot
          /\ [latest[s] EXCEPT !.status = "WAITING_REVIEW"] \in Snapshot
          /\ \A x \in Snapshot : [x EXCEPT !.status = "PAUSED"] \in Snapshot
      BY Stamped DEF TypeInv, TypeOK, Status
    <3>2. PICK stored \in Snapshot, fin \in Snapshot :
             /\ closer' = [closer EXCEPT ![s] = fin]
             /\ row' = Saved(stored, fin)
             /\ latest' = [latest EXCEPT ![s] = row']
      <4> DEFINE ask == IF review[s] THEN [latest[s] EXCEPT !.status = "WAITING_REVIEW"]
                        ELSE latest[s]
                 stored == IF review[s] THEN Saved(row, ask) ELSE row
                 out == Settled(ask, control)
      <4>1. ask \in Snapshot /\ stored \in Snapshot /\ out \in Snapshot
        BY <3>1 DEF TypeInv, TypeOK
      <4>2. \E fin \in {out, IF out.status = "COMPLETED"
                             THEN [out EXCEPT !.status = "PAUSED"] ELSE out} :
              /\ closer' = [closer EXCEPT ![s] = fin]
              /\ row' = Saved(stored, fin)
              /\ latest' = [latest EXCEPT ![s] = row']
        BY <2>11 DEF Finalize
      <4> HIDE DEF ask, stored, out
      <4>3. \A fin \in {out, IF out.status = "COMPLETED"
                              THEN [out EXCEPT !.status = "PAUSED"] ELSE out} : fin \in Snapshot
        BY <3>1, <4>1
      <4> QED
        BY <4>1, <4>2, <4>3
    <3> QED
      BY <2>11, <3>2 DEF Finalize, TypeInv, TypeOK, workerVars
  <2> QED
    BY <1>2, <2>1, <2>2, <2>3, <2>4, <2>5, <2>6, <2>7, <2>8, <2>9, <2>10, <2>11 DEF PumpStep
<1>3. ASSUME NEW s \in Streams, PumpSeesCancel(s)
      PROVE  TypeInv'
  BY <1>3 DEF PumpSeesCancel, TypeInv, TypeOK, shared, workerVars, otherVars
<1>4. ASSUME NEW s \in Streams, PumpSavesDraft(s)
      PROVE  TypeInv'
  BY <1>4 DEF PumpSavesDraft, TypeInv, TypeOK, pumpVars, workerVars, otherVars
<1>5. ASSUME NEW s \in Streams, Disconnect(s)
      PROVE  TypeInv'
  BY <1>5 DEF Disconnect, TypeInv, TypeOK, shared, workerVars, otherVars
<1>6. ASSUME NEW s \in Streams, WorkerStep(s)
      PROVE  TypeInv'
  <2>1. CASE NodeStep(s)
    BY <2>1, NodeMoves, NodeType DEF TypeInv
  <2>2. CASE GraphRaises(s)
    BY <2>2 DEF GraphRaises, TypeInv, TypeOK, shared, pumpVars, otherVars
  <2>3. CASE PutSentinel(s)
    <3>1. [snap |-> NoRow, review |-> FALSE, last |-> TRUE] \in Item
      BY DEF Item
    <3>2. Append(q[s], [snap |-> NoRow, review |-> FALSE, last |-> TRUE]) \in Seq(Item)
      BY <3>1 DEF TypeInv, TypeOK
    <3> QED
      BY <2>3, <3>2 DEF PutSentinel, TypeInv, TypeOK, shared, pumpVars, otherVars
  <2>4. CASE WorkerEnds(s)
    BY <2>4 DEF WorkerEnds, EndRun, TypeInv, TypeOK, pumpVars, otherVars
  <2> QED
    BY <1>6, <2>1, <2>2, <2>3, <2>4 DEF WorkerStep, NodeStep
<1>7. ASSUME NEW s \in Streams, CloseTurn(s)
      PROVE  TypeInv'
  BY <1>7 DEF CloseTurn, TypeInv, TypeOK, pumpVars, workerVars
<1>8. CASE Redirect
  BY <1>8 DEF Redirect, TypeInv, TypeOK, pumpVars, workerVars, otherVars, Control
<1>9. ASSUME NEW kind \in {"pause", "cancel"}, RequestLoad(kind)
      PROVE  TypeInv'
  BY <1>9 DEF RequestLoad, TypeInv, TypeOK, shared, pumpVars, workerVars
<1>10. CASE RequestApply
  <2>1. request.stored \in Snapshot
    BY DEF TypeInv, TypeOK
  <2>2. \A p, c \in BOOLEAN : [request.stored EXCEPT !.preq = @ \/ p, !.creq = @ \/ c] \in Snapshot
    BY <2>1 DEF Snapshot
  <2>3. \A p, c \in BOOLEAN : [control EXCEPT !.pause = @ \/ p, !.cancel = @ \/ c, !.why = "user"] \in Control
    BY DEF TypeInv, TypeOK, Control
  <2>4. row' \in Snapshot
    <3> DEFINE pause == request.kind = "pause"
               cancel == request.kind = "cancel"
    <3>1. \/ row' = Saved(row, request.stored)
          \/ row' = Saved(row, [request.stored EXCEPT !.preq = @ \/ pause, !.creq = @ \/ cancel])
      BY <1>10 DEF RequestApply
    <3>2. pause \in BOOLEAN /\ cancel \in BOOLEAN
      OBVIOUS
    <3> HIDE DEF pause, cancel
    <3>3. [request.stored EXCEPT !.preq = @ \/ pause, !.creq = @ \/ cancel] \in Snapshot
      BY <3>2, <2>2
    <3>4. row \in Snapshot
      BY DEF TypeInv, TypeOK
    <3> QED
      BY <3>1, <3>3, <3>4, <2>1
  <2>5. control' \in Control
    BY <1>10, <2>3 DEF RequestApply, TypeInv, TypeOK
  <2> QED
    BY <1>10, <2>4, <2>5 DEF RequestApply, TypeInv, TypeOK, pumpVars, workerVars
<1>11. CASE RequestSettle
  <2>1. Saved(row, Settled(row, control)) \in Snapshot
    BY DEF TypeInv, TypeOK
  <2> QED
    BY <1>11, <2>1 DEF RequestSettle, TypeInv, TypeOK, pumpVars, workerVars
<1>12. CASE WatchdogLoad
  BY <1>12 DEF WatchdogLoad, TypeInv, TypeOK, shared, pumpVars, workerVars
<1>13. CASE WatchdogFinalize
  <2>1. [watchdog EXCEPT !.status = "TIMED_OUT", !.creq = TRUE, !.abort = TRUE] \in Snapshot
    BY DEF TypeInv, TypeOK, Snapshot, Status, TerminalProtect
  <2> QED
    BY <1>13, <2>1 DEF WatchdogFinalize, TypeInv, TypeOK, pumpVars, workerVars, Control
<1>14. CASE UNCHANGED vars
  BY <1>14 DEF vars, TypeInv, TypeOK
<1> QED
  BY <1>1, <1>2, <1>3, <1>4, <1>5, <1>6, <1>7, <1>8, <1>9, <1>10, <1>11, <1>12, <1>13, <1>14
     DEF Next

\* The program's variables keep their types.
THEOREM TypeCorrect == Spec => []TypeInv
BY InitType, NextType, PTL DEF Spec

-----------------------------------------------------------------------------
(* Registries                                                              *)

\* Between the first entries of a run and the end of its stream.
Attached == {"started", "pump", "drained", "flushed", "join", "quit"}

\* Whatever is in a registry belongs to a run whose stream has not ended, or
\* whose client left before the worker was started.
RegistryInv ==
    /\ active # 0 => pump[active] \in Attached \cup {"registered", "leaked"}
    /\ control.run # 0 => pump[control.run] \in Attached \cup {"leaked"}
    /\ control.run = 0 => control = NoControl
    /\ live # 0 => pump[live] \in Attached \cup {"leaked"}
    /\ \A s \in Streams :
          /\ wpc[s] # "none" => pump[s] \in (Attached \ {"started"}) \cup {"finalize", "done"}
          /\ pump[s] \in {"finalize", "done"} => wpc[s] \in {"none", "dead"}

\* Turns that follow one another: when one is under way the older ones are
\* over and the newer ones not begun, so nobody else ends the run.
OwnInv ==
    /\ ~ Overlap => ~ mixed
    /\ ~ mixed =>
          \A s \in Streams :
             /\ pump[s] # "idle" => \A t \in Streams : t < s => Over(t)
             /\ active = s /\ pump[s] \in Attached => control.run = s /\ live = s

\* A visit of a node concerns the worker, the row and the queue only.
LEMMA NodeKeeps ==
  ASSUME TypeInv, NEW s \in Streams, NodeStep(s)
  PROVE  /\ UNCHANGED <<active, control, live, pumpVars, failed, mixed, otherVars>>
         /\ wpc[s] \in Nodes
         /\ \E next \in Nodes \cup {"end"} : wpc' = [wpc EXCEPT ![s] = next]
<1>1. NodeMove(s) \/ ReviewMove(s)
  BY NodeMoves DEF TypeInv
<1>2. CASE NodeMove(s)
  BY <1>2 DEF NodeMove, Visit
<1>3. CASE ReviewMove(s)
  BY <1>3 DEF ReviewMove, StopForReview
<1> QED
  BY <1>1, <1>2, <1>3

LEMMA RegistryInit == Init => RegistryInv /\ OwnInv
BY DEF Init, RegistryInv, OwnInv, Attached, Over, NoControl

LEMMA RegistryStep == TypeInv /\ RegistryInv /\ [Next]_vars => RegistryInv'
<1> SUFFICES ASSUME TypeInv, RegistryInv, [Next]_vars
             PROVE  RegistryInv'
  OBVIOUS
<1>0. /\ \A s \in Streams : s # 0
      /\ active # 0 => active \in Streams
      /\ control.run # 0 => control.run \in Streams
      /\ live # 0 => live \in Streams
      /\ control \in Control
      /\ pump = [s \in Streams |-> pump[s]] /\ wpc = [s \in Streams |-> wpc[s]]
  BY Constants DEF TypeInv, TypeOK, Streams, Control
<1> USE <1>0 DEF RegistryInv, Attached
<1>1. ASSUME NEW s \in Streams, Open(s)
      PROVE  RegistryInv'
  BY <1>1 DEF Open
<1>2. ASSUME NEW s \in Streams, PumpStep(s)
      PROVE  RegistryInv'
  <2>1. CASE Preempt(s)
    BY <2>1 DEF Preempt, workerVars, Control
  <2>2. CASE Register(s)
    BY <2>2 DEF Register, workerVars
  <2>3. CASE Attach(s)
    BY <2>3 DEF Attach, workerVars, NoControl
  <2>4. CASE StartWorker(s)
    BY <2>4 DEF StartWorker, shared
  <2>5. CASE PumpItem(s)
    BY <2>5 DEF PumpItem, shared
  <2>6. CASE PumpStops(s)
    BY <2>6 DEF PumpStops, shared, workerVars
  <2>7. CASE PumpFlushes(s)
    BY <2>7 DEF PumpFlushes, workerVars
  <2>8. CASE StreamError(s)
    BY <2>8 DEF StreamError, workerVars
  <2>9. CASE CheckStored(s)
    BY <2>9 DEF CheckStored, shared, workerVars
  <2>10. CASE Join(s)
    BY <2>10 DEF Join, EndRun, NoControl
  <2>11. CASE Finalize(s)
    BY <2>11 DEF Finalize, workerVars
  <2> QED
    BY <1>2, <2>1, <2>2, <2>3, <2>4, <2>5, <2>6, <2>7, <2>8, <2>9, <2>10, <2>11 DEF PumpStep
<1>3. ASSUME NEW s \in Streams, PumpSeesCancel(s)
      PROVE  RegistryInv'
  BY <1>3 DEF PumpSeesCancel, shared, workerVars
<1>4. ASSUME NEW s \in Streams, PumpSavesDraft(s)
      PROVE  RegistryInv'
  BY <1>4 DEF PumpSavesDraft, pumpVars, workerVars
<1>5. ASSUME NEW s \in Streams, Disconnect(s)
      PROVE  RegistryInv'
  BY <1>5 DEF Disconnect, shared, workerVars
<1>6. ASSUME NEW s \in Streams, WorkerStep(s)
      PROVE  RegistryInv'
  <2>1. CASE NodeStep(s)
    BY <2>1, NodeKeeps DEF pumpVars, Nodes
  <2>2. CASE GraphRaises(s)
    BY <2>2 DEF GraphRaises, shared, pumpVars, Nodes
  <2>3. CASE PutSentinel(s)
    BY <2>3 DEF PutSentinel, shared, pumpVars
  <2>4. CASE WorkerEnds(s)
    BY <2>4 DEF WorkerEnds, EndRun, pumpVars, NoControl
  <2> QED
    BY <1>6, <2>1, <2>2, <2>3, <2>4 DEF WorkerStep, NodeStep
<1>7. ASSUME NEW s \in Streams, CloseTurn(s)
      PROVE  RegistryInv'
  BY <1>7 DEF CloseTurn, pumpVars, workerVars
<1>8. CASE Redirect
  BY <1>8 DEF Redirect, pumpVars, workerVars, Control
<1>9. ASSUME NEW kind \in {"pause", "cancel"}, RequestLoad(kind)
      PROVE  RegistryInv'
  BY <1>9 DEF RequestLoad, shared, pumpVars, workerVars
<1>10. CASE RequestApply
  BY <1>10 DEF RequestApply, pumpVars, workerVars, Control
<1>11. CASE RequestSettle
  BY <1>11 DEF RequestSettle, pumpVars, workerVars
<1>12. CASE WatchdogLoad
  BY <1>12 DEF WatchdogLoad, shared, pumpVars, workerVars
<1>13. CASE WatchdogFinalize
  BY <1>13 DEF WatchdogFinalize, pumpVars, workerVars, Control
<1>14. CASE UNCHANGED vars
  BY <1>14 DEF vars
<1> QED
  BY <1>1, <1>2, <1>3, <1>4, <1>5, <1>6, <1>7, <1>8, <1>9, <1>10, <1>11, <1>12, <1>13, <1>14
     DEF Next

LEMMA OwnStep == TypeInv /\ RegistryInv /\ OwnInv /\ [Next]_vars => OwnInv'
<1> SUFFICES ASSUME TypeInv, RegistryInv, OwnInv, [Next]_vars
             PROVE  OwnInv'
  OBVIOUS
<1>0. /\ \A s, t \in Streams : s < t \/ t < s \/ s = t
      /\ \A s, t \in Streams : ~ (s < t /\ t < s) /\ ~ s < s
      /\ 0 \notin Streams
      /\ mixed \in BOOLEAN /\ control \in Control
      /\ pump = [s \in Streams |-> pump[s]] /\ wpc = [s \in Streams |-> wpc[s]]
  BY Constants DEF TypeInv, TypeOK
<1> USE <1>0 DEF OwnInv, Attached, Over
<1>a. ASSUME ~ mixed, NEW s \in Streams, pump[s] \in Attached,
             NEW t \in Streams, wpc[t] = "ending" \/ pump[t] \in {"join", "quit", "registered"}
      PROVE  t = s
  BY <1>a DEF RegistryInv
<1>1. ASSUME NEW s \in Streams, Open(s)
      PROVE  OwnInv'
  <2>1. /\ pump' = [pump EXCEPT ![s] = "open"] /\ pump[s] = "idle"
        /\ UNCHANGED <<wpc, active, control, live>>
        /\ \A t \in Streams : t < s => Overlap \/ Over(t)
        /\ mixed' = (mixed \/ \E t \in Streams : t < s /\ ~ Over(t))
    BY <1>1 DEF Open
  <2>2. ~ Overlap => ~ mixed'
    BY <2>1
  <2>3. ASSUME ~ mixed', NEW t \in Streams, NEW u \in Streams, u < t, pump'[t] # "idle"
        PROVE  Over(u)'
    <3>1. ~ mixed /\ \A v \in Streams : v < s => Over(v)
      BY <2>1, <2>3
    <3>2. CASE t = s
      BY <2>1, <2>3, <3>1, <3>2
    <3>3. CASE t # s
      BY <2>1, <2>3, <3>1, <3>3
    <3> QED
      BY <3>2, <3>3
  <2>4. ASSUME ~ mixed', NEW t \in Streams, active' = t, pump'[t] \in Attached
        PROVE  control'.run = t /\ live' = t
    BY <2>1, <2>4
  <2> QED
    BY <2>2, <2>3, <2>4
<1>2. ASSUME NEW s \in Streams, PumpStep(s)
      PROVE  OwnInv'
  <2>1. CASE Preempt(s)
    BY <2>1 DEF Preempt, workerVars, Control
  <2>2. CASE Register(s)
    BY <2>2 DEF Register, workerVars
  <2>3. CASE Attach(s)
    BY <2>3, <1>a DEF Attach, workerVars, NoControl
  <2>4. CASE StartWorker(s)
    BY <2>4 DEF StartWorker, shared
  <2>5. CASE PumpItem(s)
    BY <2>5 DEF PumpItem, shared
  <2>6. CASE PumpStops(s)
    BY <2>6 DEF PumpStops, shared, workerVars
  <2>7. CASE PumpFlushes(s)
    BY <2>7 DEF PumpFlushes, workerVars
  <2>8. CASE StreamError(s)
    BY <2>8 DEF StreamError, workerVars
  <2>9. CASE CheckStored(s)
    BY <2>9 DEF CheckStored, shared, workerVars
  <2>10. CASE Join(s)
    BY <2>10, <1>a DEF Join, EndRun, NoControl
  <2>11. CASE Finalize(s)
    BY <2>11 DEF Finalize, workerVars
  <2> QED
    BY <1>2, <2>1, <2>2, <2>3, <2>4, <2>5, <2>6, <2>7, <2>8, <2>9, <2>10, <2>11 DEF PumpStep
<1>3. ASSUME NEW s \in Streams, PumpSeesCancel(s)
      PROVE  OwnInv'
  BY <1>3 DEF PumpSeesCancel, shared, workerVars
<1>4. ASSUME NEW s \in Streams, PumpSavesDraft(s)
      PROVE  OwnInv'
  BY <1>4 DEF PumpSavesDraft, pumpVars, workerVars
<1>5. ASSUME NEW s \in Streams, Disconnect(s)
      PROVE  OwnInv'
  BY <1>5 DEF Disconnect, shared, workerVars
<1>6. ASSUME NEW s \in Streams, WorkerStep(s)
      PROVE  OwnInv'
  <2>1. CASE NodeStep(s)
    BY <2>1, NodeKeeps DEF pumpVars, Nodes
  <2>2. CASE GraphRaises(s)
    BY <2>2 DEF GraphRaises, shared, pumpVars, Nodes
  <2>3. CASE PutSentinel(s)
    BY <2>3 DEF PutSentinel, shared, pumpVars
  <2>4. CASE WorkerEnds(s)
    BY <2>4, <1>a DEF WorkerEnds, EndRun, pumpVars, NoControl
  <2> QED
    BY <1>6, <2>1, <2>2, <2>3, <2>4 DEF WorkerStep, NodeStep
<1>7. ASSUME NEW s \in Streams, CloseTurn(s)
      PROVE  OwnInv'
  BY <1>7 DEF CloseTurn, pumpVars, workerVars
<1>8. CASE Redirect
  BY <1>8 DEF Redirect, pumpVars, workerVars, Control
<1>9. ASSUME NEW kind \in {"pause", "cancel"}, RequestLoad(kind)
      PROVE  OwnInv'
  BY <1>9 DEF RequestLoad, shared, pumpVars, workerVars
<1>10. CASE RequestApply
  BY <1>10 DEF RequestApply, pumpVars, workerVars, Control
<1>11. CASE RequestSettle
  BY <1>11 DEF RequestSettle, pumpVars, workerVars
<1>12. CASE WatchdogLoad
  BY <1>12 DEF WatchdogLoad, shared, pumpVars, workerVars
<1>13. CASE WatchdogFinalize
  BY <1>13 DEF WatchdogFinalize, pumpVars, workerVars, Control
<1>14. CASE UNCHANGED vars
  BY <1>14 DEF vars
<1> QED
  BY <1>1, <1>2, <1>3, <1>4, <1>5, <1>6, <1>7, <1>8, <1>9, <1>10, <1>11, <1>12, <1>13, <1>14
     DEF Next

LEMMA Registries == Spec => [](TypeInv /\ RegistryInv /\ OwnInv)
BY InitType, NextType, RegistryInit, RegistryStep, OwnStep, PTL DEF Spec

\* graph_run_registry.end_graph_run: the late end of an older stream never
\* unregisters a newer run; a task stops to look active only by the end of
\* the registered run's own worker, a redirect or the watchdog.
THEOREM RegistryKeptHolds == Spec => RegistryKept
<1>1. TypeInv /\ [Next]_vars =>
        [active # 0 /\ active' = 0 =>
            wpc'[active] = "dead" \/ WatchdogFinalize \/ Redirect]_vars
  <2> SUFFICES ASSUME TypeInv, [Next]_vars, active # 0, active' = 0,
                      ~ WatchdogFinalize, ~ Redirect
               PROVE  wpc'[active] = "dead"
    OBVIOUS
  <2>0. /\ \A s \in Streams : s # 0
        /\ wpc = [s \in Streams |-> wpc[s]] /\ active \in Streams
    BY Constants DEF TypeInv, TypeOK, Streams
  <2>1. PICK s \in Streams : Join(s) \/ WorkerEnds(s)
    <3>1. ~ UNCHANGED active
      OBVIOUS
    <3>2. ASSUME NEW s \in Streams, NodeStep(s)
          PROVE  UNCHANGED active
      BY <3>2, NodeKeeps
    <3>3. ASSUME NEW s \in Streams, PumpStep(s), ~ Join(s)
          PROVE  UNCHANGED active \/ active' = s
      BY <3>3 DEF PumpStep, Preempt, Register, Attach, StartWorker, PumpItem, PumpStops,
                  PumpFlushes, StreamError, CheckStored, Finalize, shared
    <3>4. ASSUME NEW s \in Streams,
                 \/ Open(s) \/ PumpSeesCancel(s) \/ PumpSavesDraft(s) \/ Disconnect(s)
                 \/ CloseTurn(s) \/ GraphRaises(s) \/ PutSentinel(s)
          PROVE  UNCHANGED active
      BY <3>4 DEF Open, PumpSeesCancel, PumpSavesDraft, Disconnect, CloseTurn, GraphRaises,
                  PutSentinel, shared
    <3>5. ASSUME \/ \E kind \in {"pause", "cancel"} : RequestLoad(kind)
                 \/ RequestApply \/ RequestSettle \/ WatchdogLoad \/ UNCHANGED vars
          PROVE  UNCHANGED active
      BY <3>5 DEF RequestLoad, RequestApply, RequestSettle, WatchdogLoad, shared, vars
    <3> QED
      BY <2>0, <3>1, <3>2, <3>3, <3>4, <3>5 DEF Next, WorkerStep, NodeStep
  <2>2. active = s /\ wpc'[s] = "dead"
    BY <2>0, <2>1 DEF Join, WorkerEnds, EndRun
  <2> QED
    BY <2>2
<1> QED
  BY <1>1, Registries, PTL DEF Spec, RegistryKept

\* execution_control.py, graph_run_registry.py: when no stream is under way,
\* no registry holds anything of the past runs.
THEOREM NothingLeftBehindHolds == Spec => []NothingLeftBehind
<1>1. TypeInv /\ RegistryInv => NothingLeftBehind
  <2> SUFFICES ASSUME TypeInv, RegistryInv,
                      \A s \in Streams : pump[s] \in {"idle", "done"}
               PROVE  active = 0 /\ control = NoControl /\ live = 0
    BY DEF NothingLeftBehind
  <2>1. /\ active # 0 => active \in Streams
        /\ control.run # 0 => control.run \in Streams
        /\ live # 0 => live \in Streams
    BY Constants DEF TypeInv, TypeOK, Control, Streams
  <2> QED
    BY <2>1 DEF RegistryInv, Attached
<1> QED
  BY <1>1, Registries, PTL

\* Pause and cancel reach the run that executes, as long as turns only
\* follow one another, whatever the older streams' ends and timeouts do.
THEOREM RunIsControllableHolds == Spec => []RunIsControllable
<1>1. RegistryInv /\ OwnInv => RunIsControllable
  BY DEF RegistryInv, OwnInv, RunIsControllable, Attached, Nodes
<1> QED
  BY <1>1, Registries, PTL

-----------------------------------------------------------------------------
(* The stored outcome of a turn                                            *)

\* The sentinel is the last item of node_q, and it is there as soon as the
\* worker leaves; the pump that got it has a worker that is leaving.
QueueInv ==
    \A s \in Streams :
        /\ pump[s] \in {"idle", "open", "preempted", "registered", "started"} =>
              q[s] = <<>>
        /\ pump[s] = "pump" =>
              \A i \in 1 .. Len(q[s]) :
                 q[s][i].last <=> i = Len(q[s]) /\ wpc[s] \in {"ending", "dead"}
        /\ pump[s] = "pump" /\ wpc[s] \in {"ending", "dead"} => q[s] # <<>>
        /\ pump[s] \in {"drained", "flushed", "join", "finalize"} =>
              wpc[s] \in {"ending", "dead"}
        /\ pump[s] \in {"join", "finalize"} => ~ failed[s]

\* The number of snapshots in node_q when the worker has left the graph, and
\* the last one the pump will have seen.
Snaps(s) == IF wpc[s] = "end" THEN Len(q[s]) ELSE Len(q[s]) - 1
TipOK(s) ==
    IF Snaps(s) = 0 THEN latest[s].status # "RUNNING"
    ELSE q[s][Snaps(s)].snap.status # "RUNNING"

\* Nobody asks for a pause or a cancel, and no graph stops for a review.
Calm == requests = 0 /\ \A s \in Streams : ~ halted[s]

\* As long as the row is not terminal, nothing that will be saved when a turn
\* ends leaves it RUNNING.
Pending(s) ==
    /\ ~ stop[s]
    /\ pump[s] = "pump" /\ wpc[s] \in {"end", "ending", "dead"} /\ ~ failed[s] => TipOK(s)
    /\ pump[s] \in {"drained", "flushed", "join", "finalize"} /\ ~ failed[s] =>
          latest[s].status # "RUNNING"
    /\ pump[s] # "quit"
    /\ closer[s].status # "RUNNING"
    /\ pump[s] = "done" /\ (\A t \in Streams : t > s => pump[t] = "idle") =>
          row.status # "RUNNING"

OutcomeInv ==
    Calm =>
       /\ request.pc = "idle"
       /\ ~ Terminal(row) => ~ control.cancel /\ \A s \in Streams : Pending(s)

LEMMA NodeQueue ==
  ASSUME TypeInv, NEW s \in Streams, NodeStep(s)
  PROVE  \E snap \in Snapshot, told \in BOOLEAN, next \in Nodes \cup {"end"} :
            /\ q' = [q EXCEPT ![s] = Append(@, [snap |-> snap, review |-> told, last |-> FALSE])]
            /\ wpc' = [wpc EXCEPT ![s] = next]
            /\ row' = row \/ row' = Saved(row, snap)
            /\ next = "end" => snap.status # "RUNNING" \/ halted'[s]
            /\ halted' = [halted EXCEPT ![s] = halted'[s]]
            /\ halted[s] => halted'[s]
<1>1. NodeMove(s) \/ ReviewMove(s)
  BY NodeMoves DEF TypeInv
<1>2. halted = [t \in Streams |-> halted[t]]
  BY DEF TypeInv, TypeOK
<1>3. CASE NodeMove(s)
  BY <1>2, <1>3 DEF NodeMove, Visit
<1>4. CASE ReviewMove(s)
  BY <1>2, <1>4 DEF ReviewMove, StopForReview
<1> QED
  BY <1>1, <1>3, <1>4

LEMMA QueueInit == Init => QueueInv
BY DEF Init, QueueInv

\* Steps that leave node_q, the worker and the queue's reader alone.
LEMMA QueueFrame ==
  ASSUME QueueInv, UNCHANGED <<q, wpc, failed>>,
         \A s \in Streams :
            \/ pump'[s] = pump[s]
            \/ pump'[s] \in {"open", "preempted", "registered", "started"} /\ q[s] = <<>>
            \/ pump'[s] \in {"quit", "done", "leaked"}
            \/ pump'[s] = "flushed" /\ pump[s] = "drained"
            \/ pump'[s] = "join" /\ pump[s] = "flushed" /\ ~ failed[s]
  PROVE  QueueInv'
BY DEF QueueInv

LEMMA QueueStep == TypeInv /\ RegistryInv /\ QueueInv /\ [Next]_vars => QueueInv'
<1> SUFFICES ASSUME TypeInv, RegistryInv, QueueInv, [Next]_vars
             PROVE  QueueInv'
  OBVIOUS
<1>0. /\ \A s \in Streams : q[s] \in Seq(Item) /\ Len(q[s]) \in Nat
      /\ pump = [s \in Streams |-> pump[s]] /\ wpc = [s \in Streams |-> wpc[s]]
      /\ q = [s \in Streams |-> q[s]] /\ failed = [s \in Streams |-> failed[s]]
      /\ \A s \in Streams : pump[s] \in {"idle", "open", "preempted", "registered", "started"} =>
            q[s] = <<>>
  BY DEF TypeInv, TypeOK, QueueInv
<1> USE <1>0
<1>1. ASSUME NEW s \in Streams, Open(s)
      PROVE  QueueInv'
  BY <1>1, QueueFrame DEF Open
<1>2. ASSUME NEW s \in Streams, PumpStep(s)
      PROVE  QueueInv'
  <2>1. CASE Preempt(s)
    BY <2>1, QueueFrame DEF Preempt, workerVars
  <2>2. CASE Register(s)
    BY <2>2, QueueFrame DEF Register, workerVars
  <2>3. CASE Attach(s)
    BY <2>3, QueueFrame DEF Attach, workerVars
  <2>4. CASE StartWorker(s)
    BY <2>4 DEF StartWorker, QueueInv
  <2>5. CASE PumpItem(s)
    <3>1. /\ pump[s] = "pump" /\ q[s] # <<>> /\ Len(q[s]) > 0
          /\ q' = [q EXCEPT ![s] = Tail(q[s])]
          /\ UNCHANGED <<wpc, failed>>
          /\ pump' = [pump EXCEPT ![s] = IF q[s][1].last THEN "drained" ELSE "pump"]
      BY <2>5 DEF PumpItem
    <3>2. /\ Len(Tail(q[s])) = Len(q[s]) - 1
          /\ \A i \in 1 .. Len(q[s]) - 1 : Tail(q[s])[i] = q[s][i + 1]
      BY <3>1
    <3>3. CASE q[s][1].last
      <4>1. wpc[s] \in {"ending", "dead"}
        BY <3>1, <3>3 DEF QueueInv
      <4> QED
        BY <3>1, <3>3, <4>1 DEF QueueInv
    <3>4. CASE ~ q[s][1].last
      <4>1. pump' = pump
        BY <3>1, <3>4
      <4>2. ASSUME NEW i \in 1 .. Len(q'[s])
            PROVE  q'[s][i].last <=> i = Len(q'[s]) /\ wpc[s] \in {"ending", "dead"}
        <5>1. /\ i \in 1 .. Len(q[s]) - 1 /\ i + 1 \in 1 .. Len(q[s]) /\ q'[s][i] = q[s][i + 1]
              /\ i = Len(q'[s]) <=> i + 1 = Len(q[s])
          BY <3>1, <3>2, <4>2
        <5> QED
          BY <3>1, <5>1 DEF QueueInv
      <4>3. wpc[s] \in {"ending", "dead"} => q'[s] # <<>>
        <5>1. ASSUME wpc[s] \in {"ending", "dead"}
              PROVE  Len(q[s]) # 1
          <6>1. \A i \in 1 .. Len(q[s]) : i = Len(q[s]) => q[s][i].last
            BY <3>1, <5>1 DEF QueueInv
          <6> QED
            BY <3>4, <6>1
        <5>2. wpc[s] \in {"ending", "dead"} => Len(Tail(q[s])) # 0
          BY <3>2, <5>1
        <5>3. q'[s] = Tail(q[s]) /\ Len(<<>>) = 0
          BY <3>1
        <5> QED
          BY <5>2, <5>3
      <4> QED
        BY <3>1, <4>1, <4>2, <4>3 DEF QueueInv
    <3> QED
      BY <3>3, <3>4
  <2>6. CASE PumpStops(s)
    BY <2>6 DEF PumpStops, workerVars, QueueInv
  <2>7. CASE PumpFlushes(s)
    BY <2>7, QueueFrame DEF PumpFlushes, workerVars
  <2>8. CASE StreamError(s)
    BY <2>8, QueueFrame DEF StreamError, workerVars
  <2>9. CASE CheckStored(s)
    BY <2>9, QueueFrame DEF CheckStored, shared, workerVars
  <2>10. CASE Join(s)
    BY <2>10 DEF Join, QueueInv
  <2>11. CASE Finalize(s)
    BY <2>11, QueueFrame DEF Finalize, workerVars
  <2> QED
    BY <1>2, <2>1, <2>2, <2>3, <2>4, <2>5, <2>6, <2>7, <2>8, <2>9, <2>10, <2>11 DEF PumpStep
<1>3. ASSUME NEW s \in Streams, PumpSeesCancel(s)
      PROVE  QueueInv'
  BY <1>3, QueueFrame DEF PumpSeesCancel, shared, workerVars
<1>4. ASSUME NEW s \in Streams, PumpSavesDraft(s)
      PROVE  QueueInv'
  BY <1>4, QueueFrame DEF PumpSavesDraft, pumpVars, workerVars
<1>5. ASSUME NEW s \in Streams, Disconnect(s)
      PROVE  QueueInv'
  BY <1>5, QueueFrame DEF Disconnect, shared, workerVars
<1>6. ASSUME NEW s \in Streams, WorkerStep(s)
      PROVE  QueueInv'
  <2>0. wpc[s] # "none" => pump[s] \notin {"idle", "open", "preempted", "registered", "started"}
    BY DEF RegistryInv, Attached
  <2>1. ASSUME wpc[s] \in Nodes \cup {"end"}, UNCHANGED <<pump, failed>>,
               NEW x \in Item, NEW next \in Nodes \cup {"end", "ending"},
               q' = [q EXCEPT ![s] = Append(@, x)], wpc' = [wpc EXCEPT ![s] = next],
               x.last <=> next = "ending"
        PROVE  QueueInv'
    <3>1. /\ Len(q'[s]) = Len(q[s]) + 1 /\ q'[s][Len(q[s]) + 1] = x
          /\ \A i \in 1 .. Len(q[s]) : q'[s][i] = q[s][i]
          /\ q'[s] # <<>>
      <4>1. q'[s] = Append(q[s], x) /\ q[s] \in Seq(Item)
        BY <2>1
      <4>2. Len(Append(q[s], x)) = Len(q[s]) + 1 /\ Append(q[s], x)[Len(q[s]) + 1] = x
        BY <4>1
      <4>3. \A i \in 1 .. Len(q[s]) : Append(q[s], x)[i] = q[s][i]
        BY <4>1
      <4>4. Append(q[s], x) # <<>>
        <5>1. Len(<<>>) = 0 /\ Len(Append(q[s], x)) # 0
          BY <4>2
        <5> QED
          BY <5>1
      <4> QED
        BY <4>1, <4>2, <4>3, <4>4
    <3>2. wpc[s] \notin {"none", "ending", "dead"} /\ next # "dead"
      BY <2>1 DEF Nodes
    <3>3. ASSUME pump[s] = "pump", NEW i \in 1 .. Len(q'[s])
          PROVE  q'[s][i].last <=> i = Len(q'[s]) /\ next \in {"ending", "dead"}
      <4>1. CASE i \in 1 .. Len(q[s])
        BY <3>1, <3>2, <3>3, <4>1 DEF QueueInv
      <4>2. CASE i = Len(q[s]) + 1
        BY <2>1, <3>1, <3>2, <4>2
      <4> QED
        BY <3>1, <3>3, <4>1, <4>2
    <3> QED
      BY <2>0, <2>1, <3>1, <3>2, <3>3 DEF QueueInv
  <2>2. CASE NodeStep(s)
    <3>1. wpc[s] \in Nodes /\ UNCHANGED <<pump, failed>>
      BY <2>2, NodeKeeps DEF pumpVars
    <3>2. PICK snap \in Snapshot, told \in BOOLEAN, next \in Nodes \cup {"end"} :
            /\ q' = [q EXCEPT ![s] = Append(@, [snap |-> snap, review |-> told, last |-> FALSE])]
            /\ wpc' = [wpc EXCEPT ![s] = next]
            /\ row' = row \/ row' = Saved(row, snap)
            /\ next = "end" => snap.status # "RUNNING" \/ halted'[s]
            /\ halted' = [halted EXCEPT ![s] = halted'[s]]
            /\ halted[s] => halted'[s]
      BY <2>2, NodeQueue
    <3>3. [snap |-> snap, review |-> told, last |-> FALSE] \in Item /\ next # "ending"
      BY DEF Item, Nodes
    <3> QED
      BY <2>1, <3>1, <3>2, <3>3
  <2>3. CASE GraphRaises(s)
    <3>1. /\ wpc[s] \notin {"none", "ending", "dead"} /\ wpc' = [wpc EXCEPT ![s] = "end"]
          /\ failed' = [failed EXCEPT ![s] = TRUE] /\ UNCHANGED <<pump, q>>
      BY <2>3 DEF GraphRaises, pumpVars, Nodes
    <3> QED
      BY <3>1 DEF QueueInv
  <2>4. CASE PutSentinel(s)
    <3>1. [snap |-> NoRow, review |-> FALSE, last |-> TRUE] \in Item
      BY Nothing DEF Item
    <3>2. /\ wpc[s] = "end" /\ wpc' = [wpc EXCEPT ![s] = "ending"] /\ UNCHANGED <<pump, failed>>
          /\ q' = [q EXCEPT ![s] = Append(@, [snap |-> NoRow, review |-> FALSE, last |-> TRUE])]
      BY <2>4 DEF PutSentinel, pumpVars
    <3> QED
      BY <2>1, <3>1, <3>2
  <2>5. CASE WorkerEnds(s)
    BY <2>5 DEF WorkerEnds, pumpVars, QueueInv
  <2> QED
    BY <1>6, <2>2, <2>3, <2>4, <2>5 DEF WorkerStep, NodeStep
<1>7. ASSUME NEW s \in Streams, CloseTurn(s)
      PROVE  QueueInv'
  BY <1>7, QueueFrame DEF CloseTurn, pumpVars, workerVars
<1>8. ASSUME \/ Redirect \/ (\E kind \in {"pause", "cancel"} : RequestLoad(kind))
             \/ RequestApply \/ RequestSettle \/ WatchdogLoad \/ WatchdogFinalize
             \/ UNCHANGED vars
      PROVE  QueueInv'
  <2>1. UNCHANGED <<q, wpc, failed, pump>>
    BY <1>8 DEF Redirect, RequestLoad, RequestApply, RequestSettle, WatchdogLoad,
                WatchdogFinalize, vars, pumpVars, workerVars
  <2> QED
    BY <2>1 DEF QueueInv
<1> QED
  BY <1>1, <1>2, <1>3, <1>4, <1>5, <1>6, <1>7, <1>8 DEF Next

\* A terminal row stays terminal, and a timeout makes it so.
LEMMA RowKept ==
  ASSUME TypeInv, [Next]_vars
  PROVE  Terminal(row) => Terminal(row')
<1> USE SavedFacts, SettledFacts
<1>0. /\ row \in Snapshot /\ control \in Control /\ watchdog \in Snapshot
      /\ request.stored \in Snapshot
      /\ \A s \in Streams : /\ latest[s] \in Snapshot /\ draft[s] \in Snapshot
                           /\ closer[s] \in Snapshot
  BY DEF TypeInv, TypeOK
<1>1. ASSUME NEW x \in Snapshot, row' = Saved(row, x)
      PROVE  Terminal(row) => Terminal(row')
  BY <1>0, <1>1
<1>2. CASE UNCHANGED row
  BY <1>2
<1>3. ASSUME NEW s \in Streams, Finalize(s)
      PROVE  Terminal(row) => Terminal(row')
  <2> DEFINE ask == IF review[s] THEN [latest[s] EXCEPT !.status = "WAITING_REVIEW"] ELSE latest[s]
             stored == IF review[s] THEN Saved(row, ask) ELSE row
             out == Settled(ask, control)
  <2>1. "WAITING_REVIEW" \in Status /\ "PAUSED" \in Status
    BY DEF Status
  <2>2. ask \in Snapshot /\ stored \in Snapshot /\ out \in Snapshot
        /\ (Terminal(row) => Terminal(stored))
    BY <1>0, <2>1, Stamped
  <2>3. \E fin \in {out, IF out.status = "COMPLETED" THEN [out EXCEPT !.status = "PAUSED"] ELSE out} :
           row' = Saved(stored, fin)
    BY <1>3 DEF Finalize
  <2> HIDE DEF ask, stored, out
  <2>4. \A fin \in {out, IF out.status = "COMPLETED" THEN [out EXCEPT !.status = "PAUSED"] ELSE out} :
           fin \in Snapshot
    BY <2>1, <2>2, Stamped
  <2> QED
    BY <2>2, <2>3, <2>4
<1>4. ASSUME NEW s \in Streams, NodeStep(s)
      PROVE  Terminal(row) => Terminal(row')
  <2>1. \E snap \in Snapshot : row' = row \/ row' = Saved(row, snap)
    BY <1>4, NodeQueue
  <2> QED
    BY <1>0, <2>1
<1>5. ASSUME NEW s \in Streams, ~ Finalize(s), PumpStep(s)
      PROVE  Terminal(row) => Terminal(row')
  <2>1. CASE StreamError(s)
    <3>1. "FAILED" \in Status
      BY DEF Status, TerminalProtect
    <3>2. [latest[s] EXCEPT !.status = "FAILED"] \in Snapshot
      BY <1>0, <3>1, Stamped
    <3>3. row' = Saved(row, [latest[s] EXCEPT !.status = "FAILED"])
      BY <2>1 DEF StreamError, TypeInv, TypeOK
    <3> QED
      BY <3>2, <3>3, <1>0
  <2>2. CASE ~ StreamError(s)
    <3>1. UNCHANGED row \/ row' = Saved(row, latest[s])
      BY <1>5, <2>2 DEF PumpStep, Preempt, Register, Attach, StartWorker, PumpItem, PumpStops,
                        PumpFlushes, CheckStored, Join, shared
    <3> QED
      BY <3>1, <1>0
  <2> QED
    BY <2>1, <2>2
<1>6. ASSUME NEW s \in Streams, Open(s)
      PROVE  Terminal(row) => Terminal(row')
  <2>1. [NoRow EXCEPT !.status = "RUNNING", !.turn = s] \in Snapshot
    BY Nothing, Constants DEF Snapshot, Status
  <2> QED
    BY <1>6, <2>1, <1>0 DEF Open
<1>7. ASSUME NEW s \in Streams,
             \/ PumpSeesCancel(s) \/ PumpSavesDraft(s) \/ Disconnect(s) \/ CloseTurn(s)
             \/ GraphRaises(s) \/ PutSentinel(s) \/ WorkerEnds(s)
      PROVE  Terminal(row) => Terminal(row')
  BY <1>0, <1>7 DEF PumpSeesCancel, PumpSavesDraft, Disconnect, CloseTurn, GraphRaises,
                    PutSentinel, WorkerEnds, shared
<1>8. CASE RequestApply
  <2>1. \E x \in Snapshot : row' = Saved(row, x)
    <3> DEFINE pause == request.kind = "pause"
               cancel == request.kind = "cancel"
               x == [request.stored EXCEPT !.preq = @ \/ pause, !.creq = @ \/ cancel]
    <3>1. row' = Saved(row, request.stored) \/ row' = Saved(row, x)
      BY <1>8 DEF RequestApply
    <3>2. x \in Snapshot
      BY <1>0 DEF Snapshot
    <3> HIDE DEF x
    <3> QED
      BY <1>0, <3>1, <3>2
  <2> QED
    BY <1>0, <2>1
<1>9. CASE RequestSettle
  <2>1. Settled(row, control) \in Snapshot
    BY <1>0
  <2> QED
    BY <1>0, <1>9, <2>1 DEF RequestSettle
<1>10. CASE WatchdogFinalize
  <2>1. [watchdog EXCEPT !.status = "TIMED_OUT", !.creq = TRUE, !.abort = TRUE] \in Snapshot
    BY <1>0 DEF Snapshot, Status, TerminalProtect
  <2> QED
    BY <1>0, <1>10, <2>1 DEF WatchdogFinalize
<1>11. ASSUME \/ Redirect \/ WatchdogLoad \/ UNCHANGED vars
              \/ \E kind \in {"pause", "cancel"} : RequestLoad(kind)
       PROVE  UNCHANGED row
  BY <1>11 DEF Redirect, WatchdogLoad, RequestLoad, shared, vars
<1> QED
  BY <1>2, <1>3, <1>4, <1>5, <1>6, <1>7, <1>8, <1>9, <1>10, <1>11 DEF Next, WorkerStep, NodeStep

\* Requests and stops for a review are never taken back.
LEMMA CalmKept ==
  ASSUME TypeInv, [Next]_vars, Calm'
  PROVE  Calm
<1>0. requests \in Nat /\ halted = [s \in Streams |-> halted[s]]
  BY Constants DEF TypeInv, TypeOK
<1>1. ASSUME UNCHANGED <<requests, halted>>
      PROVE  Calm
  BY <1>1 DEF Calm
<1>2. ASSUME NEW s \in Streams, NodeStep(s)
      PROVE  Calm
  <2>1. UNCHANGED requests
    BY <1>2, NodeKeeps DEF otherVars
  <2>2. halted' = [halted EXCEPT ![s] = halted'[s]] /\ (halted[s] => halted'[s])
    BY <1>2, NodeQueue
  <2>3. \A t \in Streams : halted[t] => halted'[t]
    BY <1>0, <2>2
  <2> QED
    BY <2>1, <2>3 DEF Calm
<1>3. ASSUME NEW s \in Streams, PumpStep(s)
      PROVE  Calm
  BY <1>1, <1>3 DEF PumpStep, Preempt, Register, Attach, StartWorker, PumpItem, PumpStops, PumpFlushes,
                    StreamError, CheckStored, Join, Finalize, workerVars, otherVars
<1>4. ASSUME NEW s \in Streams,
             \/ Open(s) \/ PumpSeesCancel(s) \/ PumpSavesDraft(s) \/ Disconnect(s) \/ CloseTurn(s)
             \/ GraphRaises(s) \/ PutSentinel(s) \/ WorkerEnds(s)
      PROVE  Calm
  BY <1>1, <1>4 DEF Open, PumpSeesCancel, PumpSavesDraft, Disconnect, CloseTurn, GraphRaises,
                    PutSentinel, WorkerEnds, workerVars, otherVars
<1>5. ASSUME \/ Redirect \/ RequestApply \/ RequestSettle \/ WatchdogLoad \/ WatchdogFinalize
             \/ UNCHANGED vars
      PROVE  Calm
  BY <1>1, <1>5 DEF Redirect, RequestApply, RequestSettle, WatchdogLoad, WatchdogFinalize, vars,
                    workerVars, otherVars
<1>6. ASSUME NEW kind \in {"pause", "cancel"}, RequestLoad(kind)
      PROVE  Calm
  BY <1>0, <1>6 DEF RequestLoad, Calm
<1> QED
  BY <1>2, <1>3, <1>4, <1>5, <1>6 DEF Next, WorkerStep, NodeStep

LEMMA OutcomeInit == Init => OutcomeInv
BY DEF Init, OutcomeInv, Pending, NoRow, NoControl, Terminal, TerminalProtect

\* The streams other than the one that makes a step.
LEMMA OthersPending ==
  ASSUME RegistryInv, OwnInv, ~ mixed, NEW s \in Streams,
         \A t, u \in Streams : t < u \/ u < t \/ t = u,
         pump[s] \notin {"idle", "done", "leaked"} \/ wpc[s] \notin {"none", "dead"},
         NEW u \in Streams, u # s, Pending(u),
         UNCHANGED <<pump[u], latest[u], stop[u], closer[u], failed[u], wpc[u], q[u]>>,
         \A t \in Streams : pump[t] # "idle" => pump'[t] # "idle"
  PROVE  Pending(u)'
<1>1. ~ (pump[u] = "done" /\ \A t \in Streams : t > u => pump[t] = "idle")
  <2>1. CASE s < u
    BY <2>1 DEF OwnInv, Over
  <2>2. CASE u < s
    BY <2>2 DEF RegistryInv, Attached
  <2> QED
    BY <2>1, <2>2
<1>2. ~ (pump'[u] = "done" /\ \A t \in Streams : t > u => pump'[t] = "idle")
  BY <1>1
<1>3. TipOK(u) => TipOK(u)'
  BY DEF TipOK, Snaps
<1> QED
  BY <1>2, <1>3 DEF Pending

LEMMA OutcomeStep ==
  ASSUME ~ Overlap, ~ Disconnects, TypeInv, RegistryInv, OwnInv, QueueInv, OutcomeInv, [Next]_vars
  PROVE  OutcomeInv'
<1> SUFFICES ASSUME Calm'
             PROVE  /\ request'.pc = "idle"
                    /\ ~ Terminal(row') => ~ control'.cancel /\ \A s \in Streams : Pending(s)'
  BY DEF OutcomeInv
<1>0. Calm /\ request.pc = "idle" /\ ~ mixed
  BY CalmKept DEF OutcomeInv, OwnInv
<1>1. ~ Redirect /\ ~ RequestApply /\ ~ RequestSettle
  BY <1>0 DEF Redirect, RequestApply, RequestSettle
<1>2. \A kind \in {"pause", "cancel"} : ~ RequestLoad(kind)
  <2>1. requests \in Nat /\ requests' = 0 /\ requests = 0
    BY <1>0, Constants DEF TypeInv, TypeOK, Calm
  <2> QED
    BY <2>1 DEF RequestLoad
<1>3. request'.pc = "idle"
  <2>1. ASSUME NEW s \in Streams, NodeStep(s)
        PROVE  UNCHANGED request
    BY <2>1, NodeKeeps DEF otherVars
  <2>2. ASSUME NEW s \in Streams, PumpStep(s)
        PROVE  UNCHANGED request
    BY <2>2 DEF PumpStep, Preempt, Register, Attach, StartWorker, PumpItem, PumpStops, PumpFlushes,
                StreamError, CheckStored, Join, Finalize, otherVars
  <2>3. ASSUME NEW s \in Streams,
               \/ Open(s) \/ PumpSeesCancel(s) \/ PumpSavesDraft(s) \/ Disconnect(s) \/ CloseTurn(s)
               \/ GraphRaises(s) \/ PutSentinel(s) \/ WorkerEnds(s)
        PROVE  UNCHANGED request
    BY <2>3 DEF Open, PumpSeesCancel, PumpSavesDraft, Disconnect, CloseTurn, GraphRaises,
                PutSentinel, WorkerEnds, otherVars
  <2>4. ASSUME WatchdogLoad \/ WatchdogFinalize \/ UNCHANGED vars
        PROVE  UNCHANGED request
    BY <2>4 DEF WatchdogLoad, WatchdogFinalize, vars
  <2>5. UNCHANGED request
    BY <1>1, <1>2, <2>1, <2>2, <2>3, <2>4 DEF Next, WorkerStep, NodeStep
  <2> QED
    BY <1>0, <2>5
<1> SUFFICES ASSUME ~ Terminal(row')
             PROVE  ~ control'.cancel /\ \A s \in Streams : Pending(s)'
  BY <1>3
<1>4. ~ Terminal(row) /\ ~ control.cancel /\ \A s \in Streams : Pending(s)
  BY <1>0, RowKept DEF OutcomeInv
<1>5. /\ \A t, u \in Streams : t < u \/ u < t \/ t = u
      /\ row \in Snapshot /\ watchdog \in Snapshot /\ control \in Control
      /\ \A s \in Streams : /\ latest[s] \in Snapshot /\ draft[s] \in Snapshot
                           /\ closer[s] \in Snapshot /\ Len(q[s]) \in Nat /\ q[s] \in Seq(Item)
      /\ pump = [s \in Streams |-> pump[s]] /\ wpc = [s \in Streams |-> wpc[s]]
      /\ q = [s \in Streams |-> q[s]] /\ failed = [s \in Streams |-> failed[s]]
      /\ latest = [s \in Streams |-> latest[s]] /\ stop = [s \in Streams |-> stop[s]]
      /\ closer = [s \in Streams |-> closer[s]]
  BY Constants DEF TypeInv, TypeOK
<1> USE <1>4, <1>5
\* A step of stream s leaves the others as they were.
<1>6. ASSUME NEW s \in Streams,
             pump[s] \notin {"idle", "done", "leaked"} \/ wpc[s] \notin {"none", "dead"},
             \A u \in Streams : u # s =>
                UNCHANGED <<pump[u], latest[u], stop[u], closer[u], failed[u], wpc[u], q[u]>>,
             pump'[s] # "idle",
             Pending(s)', ~ control'.cancel
      PROVE  ~ control'.cancel /\ \A u \in Streams : Pending(u)'
  <2>1. \A t \in Streams : pump[t] # "idle" => pump'[t] # "idle"
    BY <1>6
  <2> QED
    BY <1>0, <1>6, <2>1, OthersPending
<1>7. ASSUME NEW s \in Streams, Open(s)
      PROVE  ~ control'.cancel /\ \A u \in Streams : Pending(u)'
  <2>1. /\ pump[s] = "idle" /\ pump' = [pump EXCEPT ![s] = "open"]
        /\ latest' = [latest EXCEPT ![s] = latest'[s]]
        /\ UNCHANGED <<control, stop, closer, failed, wpc, q>>
    BY <1>7 DEF Open, otherVars
  <2>2. ASSUME NEW u \in Streams, u # s
        PROVE  Pending(u)'
    <3>1. UNCHANGED <<pump[u], latest[u], stop[u], closer[u], failed[u], wpc[u], q[u]>>
      BY <2>1, <2>2
    <3>2. ~ (pump[u] = "done" /\ \A t \in Streams : t > u => pump'[t] = "idle")
      <4>1. CASE s < u
        BY <1>0, <2>1, <4>1 DEF OwnInv, Over
      <4>2. CASE u < s
        BY <2>1, <4>2
      <4> QED
        BY <2>2, <4>1, <4>2
    <3>3. TipOK(u) => TipOK(u)'
      BY <3>1 DEF TipOK, Snaps
    <3> QED
      BY <3>1, <3>2, <3>3 DEF Pending
  <2>3. Pending(s)'
    BY <2>1 DEF Pending
  <2> QED
    BY <2>1, <2>2, <2>3
<1>8. ASSUME NEW s \in Streams, PumpStep(s)
      PROVE  ~ control'.cancel /\ \A u \in Streams : Pending(u)'
  <2>1. CASE Preempt(s)
    <3>1. Pending(s)'
      BY <2>1 DEF Preempt, workerVars, otherVars, Pending
    <3>2. ~ control'.cancel
      BY <2>1 DEF Preempt, Control
    <3> QED
      BY <1>6, <2>1, <3>1, <3>2 DEF Preempt, workerVars, otherVars
  <2>2. CASE Register(s)
    <3>1. Pending(s)'
      BY <2>2 DEF Register, workerVars, otherVars, Pending
    <3> QED
      BY <1>6, <2>2, <3>1 DEF Register, workerVars, otherVars
  <2>3. CASE Attach(s)
    <3>1. Pending(s)'
      BY <2>3 DEF Attach, workerVars, otherVars, Pending
    <3>2. ~ control'.cancel
      BY <2>3 DEF Attach, NoControl
    <3> QED
      BY <1>6, <2>3, <3>1, <3>2 DEF Attach, workerVars, otherVars
  <2>4. CASE StartWorker(s)
    <3>1. Pending(s)'
      BY <2>4 DEF StartWorker, shared, otherVars, Pending
    <3> QED
      BY <1>6, <2>4, <3>1 DEF StartWorker, shared, otherVars
  <2>5. CASE PumpItem(s)
    <3>1. /\ pump[s] = "pump" /\ q[s] # <<>> /\ Len(q[s]) > 0
          /\ q' = [q EXCEPT ![s] = Tail(q[s])]
          /\ UNCHANGED <<wpc, failed, stop, closer, control>>
          /\ q[s][1].last => pump' = [pump EXCEPT ![s] = "drained"] /\ UNCHANGED latest
          /\ ~ q[s][1].last => UNCHANGED pump /\ latest' = [latest EXCEPT ![s] = q[s][1].snap]
      BY <2>5 DEF PumpItem, shared, otherVars
    <3>2. /\ Len(Tail(q[s])) = Len(q[s]) - 1
          /\ \A i \in 1 .. Len(q[s]) - 1 : Tail(q[s])[i] = q[s][i + 1]
      BY <3>1
    <3>3. q[s][1].last <=> 1 = Len(q[s]) /\ wpc[s] \in {"ending", "dead"}
      <4>1. Len(q[s]) \in Nat
        BY <1>0 DEF TypeInv
      <4>2. 1 \in 1 .. Len(q[s])
        BY <3>1, <4>1
      <4>3. \A i \in 1 .. Len(q[s]) :
               q[s][i].last <=> i = Len(q[s]) /\ wpc[s] \in {"ending", "dead"}
        BY <3>1 DEF QueueInv
      <4> QED
        BY <4>2, <4>3
    <3>4. Pending(s)'
      <4>1. CASE q[s][1].last
        <5>1. Snaps(s) = 0 /\ wpc[s] \in {"ending", "dead"} /\ wpc[s] # "end"
          BY <3>3, <4>1 DEF Snaps
        <5>2. ~ failed[s] => latest[s].status # "RUNNING"
          BY <3>1, <5>1 DEF Pending, TipOK
        <5> QED
          BY <3>1, <4>1, <5>2 DEF Pending
      <4>2. CASE ~ q[s][1].last
        <5>1. ASSUME wpc[s] \in {"end", "ending", "dead"}, ~ failed[s]
              PROVE  TipOK(s)'
          <6>1. /\ Snaps(s) \in 1 .. Len(q[s]) /\ q[s][Snaps(s)].snap.status # "RUNNING"
            <7>1. TipOK(s)
              BY <3>1, <5>1 DEF Pending
            <7>2. Len(q[s]) \in Nat
              BY <1>0 DEF TypeInv
            <7>3. Snaps(s) \in 1 .. Len(q[s])
              <8>1. wpc[s] # "end" => Len(q[s]) # 1
                BY <3>3, <4>2, <5>1
              <8>2. Len(q[s]) > 0
                BY <3>1
              <8> QED
                <9>1. PICK n \in Nat : n = Len(q[s])
                  BY <7>2
                <9>2. n > 0 /\ Snaps(s) = IF wpc[s] = "end" THEN n ELSE n - 1
                  BY <8>2, <9>1 DEF Snaps
                <9>3. Snaps(s) \in 1 .. n
                  BY <8>1, <9>1, <9>2
                <9> QED
                  BY <9>1, <9>3
            <7> QED
              BY <7>1, <7>3 DEF TipOK
          <6>2. Snaps(s)' = Snaps(s) - 1
            BY <3>1, <3>2 DEF Snaps
          <6>3. CASE Snaps(s) = 1
            BY <3>1, <4>2, <6>1, <6>2, <6>3 DEF TipOK
          <6>4. CASE Snaps(s) # 1
            <7>1. /\ Snaps(s) - 1 \in 1 .. Len(q[s]) - 1
                  /\ Tail(q[s])[Snaps(s) - 1] = q[s][Snaps(s)]
              BY <3>2, <6>1, <6>4
            <7>2. q'[s][Snaps(s)'] = q[s][Snaps(s)]
              BY <3>1, <6>2, <7>1
            <7> QED
              BY <6>1, <6>2, <6>4, <7>2 DEF TipOK
          <6> QED
            BY <6>3, <6>4
        <5> QED
          BY <3>1, <4>2, <5>1 DEF Pending
      <4> QED
        BY <4>1, <4>2
    <3> QED
      BY <1>6, <3>1, <3>4
  <2>6. CASE PumpStops(s)
    BY <2>6 DEF PumpStops, Pending
  <2>7. CASE PumpFlushes(s)
    <3>1. /\ pump[s] = "drained" /\ pump' = [pump EXCEPT ![s] = "flushed"]
          /\ UNCHANGED <<control, stop, closer, wpc, q, failed>>
          /\ latest' = [latest EXCEPT ![s] = latest'[s]]
          /\ \/ latest'[s] = Saved(row, latest[s])
             \/ latest'[s] = latest[s]
      BY <2>7 DEF PumpFlushes, workerVars, otherVars
    <3>2. latest[s].status # "RUNNING" => latest'[s].status # "RUNNING"
      BY <3>1, SavedFacts
    <3>3. Pending(s)'
      BY <3>1, <3>2 DEF Pending
    <3> QED
      BY <1>6, <3>1, <3>3
  <2>8. CASE StreamError(s)
    <3>1. "FAILED" \in Status
      BY DEF Status, TerminalProtect
    <3>2. [latest[s] EXCEPT !.status = "FAILED"] \in Snapshot
          /\ Terminal([latest[s] EXCEPT !.status = "FAILED"])
      BY <3>1, Stamped DEF Terminal, TerminalProtect, Snapshot
    <3>3. row' = Saved(row, [latest[s] EXCEPT !.status = "FAILED"])
      BY <2>8 DEF StreamError
    <3> QED
      BY <3>2, <3>3, SavedFacts
  <2>9. CASE CheckStored(s)
    <3>1. /\ pump[s] = "flushed" /\ pump' = [pump EXCEPT ![s] = "join"] /\ ~ failed[s]
          /\ UNCHANGED <<control, stop, closer, wpc, q, failed>>
          /\ latest' = [latest EXCEPT ![s] = latest'[s]]
          /\ \/ latest'[s] = row /\ row.status \in {"TIMED_OUT", "CANCELLED", "PAUSED"}
             \/ latest'[s] = latest[s]
      BY <2>9 DEF CheckStored, shared, workerVars, otherVars
    <3>2. Pending(s)'
      BY <3>1 DEF Pending
    <3> QED
      BY <1>6, <3>1, <3>2
  <2>10. CASE Join(s)
    <3>1. pump[s] = "join" /\ ~ failed[s]
      BY <2>10 DEF Join, Pending, QueueInv
    <3>2. /\ pump' = [pump EXCEPT ![s] = "finalize"] /\ control' = NoControl
          /\ stop' = [stop EXCEPT ![s] = FALSE] /\ failed' = [failed EXCEPT ![s] = FALSE]
          /\ q' = [q EXCEPT ![s] = <<>>] /\ UNCHANGED <<latest, closer, wpc>>
      BY <2>10, <3>1 DEF Join, EndRun, otherVars
    <3>3. Pending(s)' /\ ~ control'.cancel
      BY <3>1, <3>2 DEF Pending, NoControl
    <3> QED
      BY <1>6, <3>1, <3>2, <3>3
  <2>11. CASE Finalize(s)
    <3> DEFINE ask == IF review[s] THEN [latest[s] EXCEPT !.status = "WAITING_REVIEW"] ELSE latest[s]
               stored == IF review[s] THEN Saved(row, ask) ELSE row
               out == Settled(ask, control)
    <3>1. pump[s] = "finalize" /\ ~ failed[s] /\ latest[s].status # "RUNNING"
      BY <2>11 DEF Finalize, QueueInv, Pending
    <3>2. "WAITING_REVIEW" \in Status /\ "PAUSED" \in Status
      BY DEF Status
    <3>3. /\ ask \in Snapshot /\ stored \in Snapshot /\ ask.status # "RUNNING"
      BY <3>1, <3>2, Stamped, SavedFacts DEF Snapshot
    <3>4. out \in Snapshot /\ out.status # "RUNNING"
      BY <3>3, SettledFacts
    <3>5. PICK fin \in {out, IF out.status = "COMPLETED" THEN [out EXCEPT !.status = "PAUSED"] ELSE out} :
             /\ closer' = [closer EXCEPT ![s] = fin]
             /\ row' = Saved(stored, fin)
             /\ latest' = [latest EXCEPT ![s] = row']
      BY <2>11 DEF Finalize
    <3> HIDE DEF ask, stored, out
    <3>6. fin \in Snapshot /\ fin.status # "RUNNING"
      <4>1. CASE fin = out
        BY <3>4, <4>1
      <4>2. CASE fin = [out EXCEPT !.status = "PAUSED"]
        BY <3>2, <3>4, <4>2, Stamped DEF Snapshot
      <4> QED
        BY <3>5, <4>1, <4>2
    <3>7. row'.status # "RUNNING"
      BY <3>3, <3>5, <3>6, SavedFacts
    <3>8. /\ pump' = [pump EXCEPT ![s] = "done"] /\ UNCHANGED <<control, stop, failed, wpc, q>>
      BY <2>11 DEF Finalize, workerVars
    <3>9. Pending(s)'
      BY <3>1, <3>5, <3>6, <3>7, <3>8 DEF Pending
    <3> QED
      BY <1>6, <3>1, <3>5, <3>8, <3>9
  <2> QED
    BY <1>8, <2>1, <2>2, <2>3, <2>4, <2>5, <2>6, <2>7, <2>8, <2>9, <2>10, <2>11 DEF PumpStep
<1>9. ASSUME NEW s \in Streams, PumpSeesCancel(s) \/ Disconnect(s)
      PROVE  FALSE
  BY <1>9 DEF PumpSeesCancel, Disconnect
<1>10. ASSUME NEW s \in Streams, PumpSavesDraft(s)
       PROVE  ~ control'.cancel /\ \A u \in Streams : Pending(u)'
  <2>1. pump[s] = "pump" /\ UNCHANGED <<control, pump, latest, stop, closer, failed, wpc, q>>
    BY <1>10 DEF PumpSavesDraft, pumpVars, workerVars, otherVars
  <2>2. TipOK(s) => TipOK(s)'
    BY <2>1 DEF TipOK, Snaps
  <2>3. Pending(s)'
    BY <2>1, <2>2 DEF Pending
  <2> QED
    BY <1>6, <2>1, <2>3
<1>11. ASSUME NEW s \in Streams, WorkerStep(s)
       PROVE  ~ control'.cancel /\ \A u \in Streams : Pending(u)'
  <2>0. wpc[s] \notin {"none", "dead"} => pump[s] \notin {"idle", "done", "finalize"}
    BY DEF RegistryInv, Attached
  <2>1. CASE NodeStep(s)
    <3>1. /\ wpc[s] \in Nodes /\ wpc[s] \notin {"none", "end", "ending", "dead"}
          /\ UNCHANGED <<control, pump, latest, stop, closer, failed>>
      BY <2>1, NodeKeeps DEF pumpVars, otherVars, Nodes
    <3>2. PICK snap \in Snapshot, told \in BOOLEAN, next \in Nodes \cup {"end"} :
            /\ q' = [q EXCEPT ![s] = Append(@, [snap |-> snap, review |-> told, last |-> FALSE])]
            /\ wpc' = [wpc EXCEPT ![s] = next]
            /\ row' = row \/ row' = Saved(row, snap)
            /\ next = "end" => snap.status # "RUNNING" \/ halted'[s]
            /\ halted' = [halted EXCEPT ![s] = halted'[s]]
            /\ halted[s] => halted'[s]
      BY <2>1, NodeQueue
    <3>3. next = "end" => snap.status # "RUNNING"
      BY <3>2 DEF Calm
    <3>4. next \notin {"ending", "dead"}
      BY DEF Nodes
    <3>5. wpc'[s] \in {"end", "ending", "dead"} => TipOK(s)'
      <4> DEFINE x == [snap |-> snap, review |-> told, last |-> FALSE]
      <4>1. x \in Item /\ x.snap = snap
        BY DEF Item
      <4>2. q'[s] = Append(q[s], x)
        BY <3>2
      <4> HIDE DEF x
      <4>3. Len(q'[s]) = Len(q[s]) + 1 /\ q'[s][Len(q[s]) + 1] = x
        BY <4>1, <4>2
      <4>4. wpc'[s] = "end" => Snaps(s)' = Len(q[s]) + 1 /\ Len(q[s]) + 1 # 0
        BY <4>3 DEF Snaps
      <4> QED
        BY <3>2, <3>3, <3>4, <4>1, <4>3, <4>4 DEF TipOK
    <3>6. Pending(s)'
      BY <2>0, <3>1, <3>5 DEF Pending, QueueInv
    <3> QED
      BY <1>6, <2>0, <3>1, <3>2, <3>6
  <2>2. CASE GraphRaises(s)
    <3>1. /\ wpc[s] \notin {"none", "end", "ending", "dead"} /\ wpc' = [wpc EXCEPT ![s] = "end"]
          /\ failed' = [failed EXCEPT ![s] = TRUE]
          /\ UNCHANGED <<control, pump, latest, stop, closer, q>>
      BY <2>2 DEF GraphRaises, shared, pumpVars, otherVars, Nodes
    <3>2. Pending(s)'
      BY <2>0, <3>1 DEF Pending
    <3> QED
      BY <1>6, <2>0, <3>1, <3>2
  <2>3. CASE PutSentinel(s)
    <3> DEFINE x == [snap |-> NoRow, review |-> FALSE, last |-> TRUE]
    <3>1. /\ wpc[s] = "end" /\ wpc' = [wpc EXCEPT ![s] = "ending"]
          /\ q' = [q EXCEPT ![s] = Append(q[s], x)]
          /\ UNCHANGED <<control, pump, latest, stop, closer, failed>>
      BY <2>3 DEF PutSentinel, shared, pumpVars, otherVars
    <3>2. x \in Item
      BY Nothing DEF Item
    <3> HIDE DEF x
    <3>3. /\ Len(q'[s]) = Len(q[s]) + 1
          /\ \A i \in 1 .. Len(q[s]) : q'[s][i] = q[s][i]
      BY <3>1, <3>2
    <3>4. Snaps(s) = Len(q[s]) /\ Snaps(s)' = Len(q[s])
      BY <3>1, <3>3 DEF Snaps
    <3>5. TipOK(s) => TipOK(s)'
      BY <3>1, <3>3, <3>4 DEF TipOK
    <3>6. Pending(s)'
      BY <2>0, <3>1, <3>5 DEF Pending
    <3> QED
      BY <1>6, <2>0, <3>1, <3>6
  <2>4. CASE WorkerEnds(s)
    <3>1. /\ wpc[s] = "ending" /\ wpc' = [wpc EXCEPT ![s] = "dead"] /\ control' = NoControl
          /\ UNCHANGED <<pump, latest, stop, closer, failed, q>>
      BY <2>4 DEF WorkerEnds, EndRun, pumpVars, otherVars
    <3>2. TipOK(s) => TipOK(s)'
      BY <3>1 DEF TipOK, Snaps
    <3>3. Pending(s)' /\ ~ control'.cancel
      BY <2>0, <3>1, <3>2 DEF Pending, NoControl
    <3> QED
      BY <1>6, <2>0, <3>1, <3>3
  <2> QED
    BY <1>11, <2>1, <2>2, <2>3, <2>4 DEF WorkerStep, NodeStep
<1>12. ASSUME NEW s \in Streams, CloseTurn(s)
       PROVE  ~ control'.cancel /\ \A u \in Streams : Pending(u)'
  <2>1. /\ UNCHANGED <<control, pump, latest, stop, failed, wpc, q>>
        /\ closer' = [closer EXCEPT ![s] = NoRow] /\ row' = Saved(row, closer[s])
    BY <1>12 DEF CloseTurn, pumpVars, workerVars
  <2>2. row'.status # "RUNNING"
    BY <2>1, SavedFacts DEF Pending
  <2>3. \A u \in Streams : TipOK(u) => TipOK(u)'
    BY <2>1 DEF TipOK, Snaps
  <2> QED
    BY <2>1, <2>2, <2>3 DEF Pending, NoRow
<1>13. ASSUME WatchdogLoad \/ UNCHANGED vars
       PROVE  ~ control'.cancel /\ \A u \in Streams : Pending(u)'
  <2>1. UNCHANGED <<row, control, pump, latest, stop, closer, failed, wpc, q>>
    BY <1>13 DEF WatchdogLoad, shared, pumpVars, workerVars, vars
  <2>2. \A u \in Streams : TipOK(u) => TipOK(u)'
    BY <2>1 DEF TipOK, Snaps
  <2> QED
    BY <2>1, <2>2 DEF Pending
<1>14. ~ WatchdogFinalize
  <2>1. [watchdog EXCEPT !.status = "TIMED_OUT", !.creq = TRUE, !.abort = TRUE] \in Snapshot
        /\ Terminal([watchdog EXCEPT !.status = "TIMED_OUT", !.creq = TRUE, !.abort = TRUE])
    BY DEF Snapshot, Status, Terminal, TerminalProtect
  <2> QED
    BY <2>1, SavedFacts DEF WatchdogFinalize
<1> QED
  BY <1>1, <1>2, <1>7, <1>8, <1>9, <1>10, <1>11, <1>12, <1>13, <1>14 DEF Next

\* graph_runner._finalize_turn, turn_closer.close_turn_async: a turn is not
\* stored in the middle of its way, when turns follow one another, no client
\* leaves and nobody asks for a pause or a cancel; timeouts, failing graphs
\* and late closers of any number of turns included.
THEOREM TurnSettledHolds == ~ Overlap /\ ~ Disconnects => (Spec => []TurnSettled)
<1> SUFFICES ASSUME ~ Overlap, ~ Disconnects
             PROVE  Spec => []TurnSettled
  OBVIOUS
<1> DEFINE IInv == TypeInv /\ RegistryInv /\ OwnInv /\ QueueInv /\ OutcomeInv
<1>1. Init => IInv
  BY InitType, RegistryInit, QueueInit, OutcomeInit
<1>2. IInv /\ [Next]_vars => IInv'
  BY NextType, RegistryStep, OwnStep, QueueStep, OutcomeStep
<1>3. IInv => TurnSettled
  BY DEF OutcomeInv, Calm, Pending, TurnSettled, Terminal, TerminalProtect
<1> HIDE DEF IInv
<1> QED
  BY <1>1, <1>2, <1>3, PTL DEF Spec

=============================================================================
