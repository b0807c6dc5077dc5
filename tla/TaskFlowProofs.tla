--------------------------- MODULE TaskFlowProofs ---------------------------
(***************************************************************************)
(* Proofs about the path of a task, for any sets of nodes, streams, tasks  *)
(* and outcomes and any number of faults: the composition behaves as       *)
(* module Router says, no task is started twice, what a client is told is  *)
(* what the execution gave, and the composition implements TaskService.    *)
(*                                                                         *)
(* A task moves from a queue of the master to a connection and from there  *)
(* to a daemon.  OnePlace says that it is never in two of these places;    *)
(* AtMostOnce alone is not inductive.                                      *)
(***************************************************************************)
EXTENDS TaskFlow, RouterProofs

WireAt(c, i, t) == i \in 1..Len(wire[c]) /\ wire[c][i] = t

StartedAt(i, t) == i \in 1..Len(started) /\ started[i] = t

HasStarted(t) == \E i \in Nat : StartedAt(i, t)

FlowOwnTypeOK ==
  /\ up \in SUBSET Conns
  /\ wire \in [Conns -> Seq(Tasks)]
  /\ wpc \in [Nodes -> WorkerStates]
  /\ wconn \in [Nodes -> Conns \cup {NoConn}]
  /\ wtask \in [Nodes -> Tasks \cup {NoTask}]
  /\ posts \in SUBSET TaskResults
  /\ faults \in 0..MaxFaults
  /\ accepted \in Seq(Tasks) /\ started \in Seq(Tasks)
  /\ produced \in [Tasks -> Outcomes \cup {NoOutcome}]

OnePlace ==
  /\ \A t \in Tasks, c \in Conns : \A i \in Nat :
       WireAt(c, i, t) => Accepted(t) /\ owner[c] = target[t] /\ ~HasStarted(t)
  /\ \A t \in Tasks, c, d \in Conns : \A i, j \in Nat :
       WireAt(c, i, t) /\ WireAt(d, j, t) => c = d /\ i = j
  /\ \A t \in Tasks, c \in Conns : \A i \in Nat :
       At(c, i, t) => /\ ~HasStarted(t)
                      /\ \A d \in Conns : \A j \in Nat : ~WireAt(d, j, t)
  /\ \A t \in Tasks : HasStarted(t) => Accepted(t)
  /\ \A t \in Tasks : \A i, j \in Nat : StartedAt(i, t) /\ StartedAt(j, t) => i = j

\* The stream a daemon reads was opened for its node, and the task it handles
\* was sent to that node.
AtWork(n) ==
  /\ wpc[n] \in {"listen", "exec", "report"} => wconn[n] \in Conns
  /\ wconn[n] # NoConn => owner[wconn[n]] = n
  /\ wpc[n] \in {"exec", "report"} =>
       wtask[n] \in Tasks /\ target[wtask[n]] = n /\ HasStarted(wtask[n])
  /\ wpc[n] = "exec" => produced[wtask[n]] = NoOutcome

Workers == \A n \in Nodes : AtWork(n)

\* A result that says what the execution of its task on its target gave.
Genuine(r) ==
  r.node = target[r.task] /\ r.outcome = produced[r.task] /\ HasStarted(r.task)

Truth ==
  /\ \A r \in posts : Genuine(r)
  /\ \A t \in Tasks : results[t] \in TaskResults => results[t].task = t /\ Genuine(results[t])
  /\ \A t \in Tasks : fut[t] \in TaskResults => fut[t].task = t /\ Genuine(fut[t])
  /\ \A t \in Tasks : reply[t] \in TaskResults => reply[t].task = t /\ Genuine(reply[t])
  /\ \A t \in Tasks : produced[t] # NoOutcome => HasStarted(t)

FlowInv == FullInv /\ FlowOwnTypeOK /\ OnePlace /\ Workers /\ Truth

\* What the master accepted stays accepted, for the same target.
AcceptedStays ==
  \A t \in Tasks : Accepted(t) => Accepted(t)' /\ target'[t] = target[t]

\* The answer to an expired wait is no worker's result.
LEMMA TimeoutIsNoResult == \A t \in Tasks : TimeoutResult(t) \notin TaskResults
  BY BrokerAssumption DEF TimeoutResult, TaskResults

\* The initial states satisfy the invariant.
LEMMA FlowInitInv == TaskFlowInit => FlowInv
<1> SUFFICES ASSUME TaskFlowInit PROVE FlowInv
  OBVIOUS
<1>1. FullInv
  BY RouterInitInv, QueuedInitInv DEF TaskFlowInit, FullInv
<1>2. FlowOwnTypeOK
  BY TaskFlowAssumption DEF TaskFlowInit, FlowOwnTypeOK, WorkerStates
<1>3. OnePlace
  BY DEF TaskFlowInit, RouterInit, BrokerInit, OnePlace, WireAt, StartedAt, HasStarted, At
<1>4. Workers
  BY DEF TaskFlowInit, Workers, AtWork
<1>5. Truth
  BY ValuesDistinct DEF TaskFlowInit, RouterInit, Truth
<1> QED
  BY <1>1, <1>2, <1>3, <1>4, <1>5 DEF FlowInv

-----------------------------------------------------------------------------
(***************************************************************************)
(* The composition takes only steps of module Router: in particular a      *)
(* result that is delivered is one of an accepted task that has left the   *)
(* queues, under the node it was dispatched to.                            *)
(***************************************************************************)

\* A POST the network delivers is one Router expects.
LEMMA DeliverIsReport ==
  ASSUME FlowInv, NEW r \in posts, Deliver(r)
  PROVE  r \in TaskResults /\ WorkerReports(r)
<1>1. r \in TaskResults /\ r.task \in Tasks
  BY DEF FlowInv, FlowOwnTypeOK, TaskResults
<1>2. Genuine(r)
  BY DEF FlowInv, Truth
<1>3. HasStarted(r.task) /\ r.node = target[r.task]
  BY <1>2 DEF Genuine
<1>4. Accepted(r.task)
  BY <1>1, <1>3 DEF FlowInv, OnePlace
<1>5. Queued(r.task) = {}
  <2> SUFFICES ASSUME NEW c \in Queued(r.task) PROVE FALSE
    OBVIOUS
  <2>1. PICK i \in 1..Len(buf[c]) : buf[c][i] = r.task
    BY DEF Queued
  <2>2. c \in Conns /\ At(c, i, r.task)
    BY <2>1 DEF Queued, At
  <2> QED
    BY <1>1, <1>3, <2>2 DEF FlowInv, OnePlace
<1> QED
  BY <1>1, <1>3, <1>4, <1>5 DEF Deliver, WorkerReports

\* Every step of the composition is one of the router's, or none of them.
LEMMA FlowIsRouterStep == FlowInv /\ [TaskFlowNext]_flowVars => [RouterNext]_vars
<1> SUFFICES ASSUME FlowInv, [TaskFlowNext]_flowVars PROVE [RouterNext]_vars
  OBVIOUS
<1>1. ASSUME NEW t \in Tasks, NEW n \in Nodes, ClientCall(t, n) PROVE RouterNext
  BY <1>1 DEF ClientCall, RouterNext
<1>2. ASSUME NEW t \in Tasks, WaiterStep(t) PROVE RouterNext
  BY <1>2 DEF WaiterStep, RouterNext
<1>3. ASSUME NEW c \in Conns, Send(c) \/ Idle(c) \/ NoticeGone(c) PROVE RouterNext
  BY <1>3 DEF Send, Idle, NoticeGone, StreamStep, RouterNext
<1>4. CASE PingAll
  BY <1>4 DEF PingAll, RouterNext
<1>5. CASE MasterRestart
  BY <1>5 DEF MasterRestart, RouterNext
<1>6. ASSUME NEW n \in Nodes, NEW c \in Conns, OpenStream(n, c) PROVE RouterNext
  BY <1>6 DEF OpenStream, RouterNext
<1>7. ASSUME NEW r \in posts, Deliver(r) PROVE RouterNext
  BY <1>7, DeliverIsReport DEF RouterNext
<1>8. ASSUME NEW n \in Nodes,
             \/ \E o \in Outcomes : ExecDone(n, o)
             \/ WorkerStart(n) \/ Read(n) \/ ReportReturns(n) \/ StreamEnds(n)
             \/ ExecRaises(n) \/ ReportRaises(n) \/ WorkerCrash(n)
      PROVE  UNCHANGED vars
  BY <1>8 DEF ExecDone, WorkerStart, Read, ReportReturns, StreamEnds, ExecRaises,
     ReportRaises, WorkerCrash, LeaveStream
<1>9. ASSUME NEW c \in Conns, LinkDrop(c) PROVE UNCHANGED vars
  BY <1>9 DEF LinkDrop
<1>10. ASSUME NEW r \in posts, LosePost(r) PROVE UNCHANGED vars
  BY <1>10 DEF LosePost
<1>11. CASE UNCHANGED flowVars
  BY <1>11 DEF flowVars
<1> QED
  BY <1>1, <1>2, <1>3, <1>4, <1>5, <1>6, <1>7, <1>8, <1>9, <1>10, <1>11 DEF TaskFlowNext

\* Hence the router's invariants hold in the composition.
LEMMA FlowFullInv == FlowInv /\ [TaskFlowNext]_flowVars => FullInv'
  BY FlowIsRouterStep, RouterStepInv, QueuedStepInv DEF FlowInv, FullInv

\* Only the call that submits a task writes its target.
LEMMA RouterKeepsAccepted == RouterInv /\ [RouterNext]_vars => AcceptedStays
<1> SUFFICES ASSUME RouterInv, [RouterNext]_vars, NEW t \in Tasks, Accepted(t)
             PROVE  Accepted(t)' /\ target'[t] = target[t]
  BY DEF AcceptedStays
<1>1. RouterOwnTypeOK
  BY DEF RouterInv
<1>2. ASSUME UNCHANGED routerVars PROVE Accepted(t)' /\ target'[t] = target[t]
  BY <1>2 DEF routerVars, Accepted
<1>3. ASSUME NEW u \in Tasks, NEW n \in Nodes, Reject(u, n)
      PROVE  Accepted(t)' /\ target'[t] = target[t]
  BY <1>1, <1>3 DEF Reject, Accepted, RouterOwnTypeOK
<1>4. ASSUME NEW u \in Tasks, NEW n \in Nodes, DispatchAsync(u, n) \/ DispatchSync(u, n)
      PROVE  Accepted(t)' /\ target'[t] = target[t]
  BY <1>1, <1>4 DEF DispatchAsync, DispatchSync, Dispatch, Accepted, RouterOwnTypeOK
<1>5. ASSUME NEW u \in Tasks, Expire(u) \/ WakeResult(u) \/ WakeTimeout(u)
      PROVE  Accepted(t)' /\ target'[t] = target[t]
  BY <1>1, <1>5 DEF Expire, WakeResult, WakeTimeout, Accepted, RouterOwnTypeOK
<1>6. ASSUME NEW r \in TaskResults, WorkerReports(r)
      PROVE  Accepted(t)' /\ target'[t] = target[t]
  BY <1>6 DEF WorkerReports, SubmitResult, Accepted
<1>7. CASE Restart
  BY <1>1, <1>7 DEF Restart, Accepted, RouterOwnTypeOK
<1> QED
  BY <1>2, <1>3, <1>4, <1>5, <1>6, <1>7 DEF RouterNext, StreamStep, vars

-----------------------------------------------------------------------------
(***************************************************************************)
(* A task is in one place.                                                 *)
(***************************************************************************)

\* A step after which nothing is queued or on a connection that was not there
\* before, and that starts nothing.
LEMMA NothingMoves ==
  ASSUME OnePlace, AcceptedStays, started' = started,
         \A t \in Tasks, c \in Conns : \A i \in Nat :
           WireAt(c, i, t)' => WireAt(c, i, t) /\ owner'[c] = owner[c],
         \A t \in Tasks, c \in Conns : \A i \in Nat :
           At(c, i, t)' => \E d \in Conns : \E j \in Nat : At(d, j, t)
  PROVE  OnePlace'
<1>1. \A t \in Tasks : HasStarted(t)' <=> HasStarted(t)
  BY DEF HasStarted, StartedAt
<1>2. ASSUME NEW t \in Tasks, NEW c \in Conns, NEW i \in Nat, WireAt(c, i, t)'
      PROVE  Accepted(t)' /\ (owner[c] = target[t])' /\ ~HasStarted(t)'
  BY <1>1, <1>2 DEF OnePlace, AcceptedStays
<1>3. ASSUME NEW t \in Tasks, NEW c \in Conns, NEW d \in Conns, NEW i \in Nat, NEW j \in Nat,
             WireAt(c, i, t)', WireAt(d, j, t)'
      PROVE  c = d /\ i = j
  BY <1>3 DEF OnePlace
<1>4. ASSUME NEW t \in Tasks, NEW c \in Conns, NEW i \in Nat, At(c, i, t)'
      PROVE  ~HasStarted(t)' /\ \A d \in Conns : \A j \in Nat : ~WireAt(d, j, t)'
  <2>1. PICK d \in Conns, j \in Nat : At(d, j, t)
    BY <1>4
  <2> QED
    BY <1>1, <2>1 DEF OnePlace
<1>5. \A t \in Tasks : HasStarted(t)' => Accepted(t)'
  BY <1>1 DEF OnePlace, AcceptedStays
<1>6. \A t \in Tasks : \A i, j \in Nat : StartedAt(i, t)' /\ StartedAt(j, t)' => i = j
  BY DEF OnePlace, StartedAt
<1> QED
  BY <1>2, <1>3, <1>4, <1>5, <1>6 DEF OnePlace

\* What is queued after the front of a queue was taken.
LEMMA TakeMovesUp ==
  ASSUME BrokerInv, NEW c \in Conns, Take(c),
         NEW t, NEW d \in Conns, NEW i \in Nat, At(d, i, t)'
  PROVE  IF d = c THEN At(c, i + 1, t) ELSE At(d, i, t)
<1>1. CASE d = c
  <2>1. buf[c] \in Seq(Events) /\ buf[c] # <<>> /\ buf'[c] = Tail(buf[c])
    BY DEF Take, BrokerInv, BrokerTypeOK
  <2>2. /\ Len(buf'[c]) = Len(buf[c]) - 1
        /\ \A m \in 1..Len(buf'[c]) : buf'[c][m] = buf[c][m + 1]
        /\ Len(buf[c]) \in Nat
    BY <2>1
  <2> QED
    BY <1>1, <2>2 DEF At
<1>2. CASE d # c
  BY <1>2 DEF At, Take, BrokerInv, BrokerTypeOK
<1> QED
  BY <1>1, <1>2

\* The pool's steps other than a push queue no task.
LEMMA PoolQueuesNothing ==
  ASSUME BrokerInv, NEW c \in Conns,
         (\E n \in Nodes : Connect(n, c)) \/ BroadcastPing \/ Take(c) \/ Block(c) \/ Timeout(c) \/ Finish(c)
  PROVE  \A t \in Tasks, d \in Conns : \A i \in Nat :
           At(d, i, t)' => \E e \in Conns : \E j \in Nat : At(e, j, t)
<1> SUFFICES ASSUME NEW t \in Tasks, NEW d \in Conns, NEW i \in Nat, At(d, i, t)'
             PROVE  \E j \in Nat : At(d, j, t)
  OBVIOUS
<1>1. CASE (\E n \in Nodes : Connect(n, c)) \/ Finish(c)
  <2>1. buf'[d] = buf[d] \/ buf'[d] = <<>>
    BY <1>1 DEF Connect, Finish, BrokerInv, BrokerTypeOK
  <2> QED
    BY <2>1 DEF At
<1>2. CASE BroadcastPing
  <2>1. buf[d] \in Seq(Events) /\ t # Ping
    BY BrokerAssumption DEF BrokerInv, BrokerTypeOK
  <2>2. buf'[d] = buf[d] \/ buf'[d] = Append(buf[d], Ping)
    BY <1>2 DEF BroadcastPing
  <2>3. At(d, i, t)
    BY <2>1, <2>2 DEF At
  <2> QED
    BY <2>3
<1>3. CASE Take(c)
  BY <1>3, TakeMovesUp
<1>4. CASE Block(c) \/ Timeout(c)
  BY <1>4 DEF Block, Timeout, At
<1> QED
  BY <1>1, <1>2, <1>3, <1>4

\* A step of the master that only touches the pool or the calls, and sends
\* and queues nothing.
LEMMA MasterOnePlace ==
  ASSUME FlowInv, AcceptedStays, wire' = wire, started' = started, owner' = owner,
         \A t \in Tasks, c \in Conns : \A i \in Nat :
           At(c, i, t)' => \E d \in Conns : \E j \in Nat : At(d, j, t)
  PROVE  OnePlace'
<1>1. \A t \in Tasks, c \in Conns : \A i \in Nat :
        WireAt(c, i, t)' => WireAt(c, i, t) /\ owner'[c] = owner[c]
  BY DEF WireAt
<1> QED
  BY <1>1, NothingMoves DEF FlowInv

\* dispatch(): the task is new, so it is nowhere yet.
LEMMA DispatchOnePlace ==
  ASSUME FlowInv, AcceptedStays, NEW t \in Tasks, NEW n \in Nodes,
         NEW next \in {"async", "waiting"}, Dispatch(t, n, next),
         wire' = wire, started' = started
  PROVE  OnePlace'
<1>1. ~Accepted(t) /\ Accepted(t)' /\ owner' = owner
  BY DEF Dispatch, Accepted, FlowInv, FullInv, RouterInv, RouterOwnTypeOK
<1>2. ~HasStarted(t) /\ \A c \in Conns : \A i \in Nat : ~WireAt(c, i, t)
  BY <1>1 DEF FlowInv, OnePlace
<1>3. \A u \in Tasks : HasStarted(u)' <=> HasStarted(u)
  BY DEF HasStarted, StartedAt
<1>4. \A u \in Tasks, c \in Conns : \A i \in Nat : WireAt(c, i, u)' <=> WireAt(c, i, u)
  BY DEF WireAt
<1>5. ASSUME NEW u \in Tasks, NEW c \in Conns, NEW i \in Nat, At(c, i, u)', u # t
      PROVE  \E j \in Nat : At(c, j, u)
  <2>1. queues[n] \in Conns /\ buf[c] \in Seq(Events)
    BY DEF Dispatch, IsConnected, FlowInv, FullInv, RouterInv, BrokerInv, BrokerTypeOK
  <2>2. buf'[c] = buf[c] \/ buf'[c] = Append(buf[c], t)
    BY <2>1 DEF Dispatch, Put, FlowInv, FullInv, RouterInv, BrokerInv, BrokerTypeOK
  <2>3. At(c, i, u)
    BY <1>5, <2>1, <2>2 DEF At
  <2> QED
    BY <2>3
<1>6. ASSUME NEW u \in Tasks, NEW c \in Conns, NEW i \in Nat, At(c, i, u)'
      PROVE  ~HasStarted(u)' /\ \A d \in Conns : \A j \in Nat : ~WireAt(d, j, u)'
  <2>1. CASE u = t
    BY <1>2, <1>3, <1>4, <2>1
  <2>2. CASE u # t
    BY <1>3, <1>4, <1>5, <1>6, <2>2 DEF FlowInv, OnePlace
  <2> QED
    BY <2>1, <2>2
<1>7. \A u \in Tasks, c \in Conns : \A i \in Nat :
        WireAt(c, i, u)' => Accepted(u)' /\ (owner[c] = target[u])' /\ ~HasStarted(u)'
  BY <1>1, <1>3, <1>4 DEF FlowInv, OnePlace, AcceptedStays
<1>8. \A u \in Tasks : HasStarted(u)' => Accepted(u)'
  BY <1>3 DEF FlowInv, OnePlace, AcceptedStays
<1>9. \A u \in Tasks : \A i, j \in Nat : StartedAt(i, u)' /\ StartedAt(j, u)' => i = j
  BY DEF FlowInv, OnePlace, StartedAt
<1>10. \A u \in Tasks, c, d \in Conns : \A i, j \in Nat :
         WireAt(c, i, u)' /\ WireAt(d, j, u)' => c = d /\ i = j
  BY <1>4 DEF FlowInv, OnePlace
<1> QED
  BY <1>6, <1>7, <1>8, <1>9, <1>10 DEF OnePlace

\* The generator hands a task to the transport: it leaves its queue, where it
\* was once, and is on no connection yet.
LEMMA SendOnePlace ==
  ASSUME FlowInv, AcceptedStays, NEW c \in Conns, Send(c)
  PROVE  OnePlace'
<1>0. PICK t : t = Head(buf[c])
  OBVIOUS
<1>1. /\ started' = started /\ owner' = owner /\ Take(c)
      /\ buf[c] \in Seq(Events) /\ buf[c] # <<>>
      /\ wire \in [Conns -> Seq(Tasks)]
  BY DEF Send, Take, history, FlowInv, FullInv, FlowOwnTypeOK, RouterInv, BrokerInv, BrokerTypeOK
<1>2. \A u \in Tasks, d \in Conns : \A i \in Nat :
        At(d, i, u)' => \E e \in Conns : \E j \in Nat : At(e, j, u)
  BY <1>1, PoolQueuesNothing DEF FlowInv, FullInv, RouterInv
<1>3. CASE c \in up /\ t \in Tasks
  <2>1. At(c, 1, t)
    BY <1>0, <1>1 DEF At
  <2>2. Accepted(t) /\ owner[c] = target[t] /\ ~HasStarted(t)
    BY <1>3, <2>1 DEF FlowInv, FullInv, QueuedInv, OnePlace
  <2>3. \A d \in Conns : \A j \in Nat : ~WireAt(d, j, t)
    BY <1>3, <2>1 DEF FlowInv, OnePlace
  <2>4. ASSUME NEW d \in Conns, NEW j \in Nat, At(d, j, t)' PROVE FALSE
    <3>1. IF d = c THEN At(c, j + 1, t) ELSE At(d, j, t)
      BY <1>1, <2>4, TakeMovesUp DEF FlowInv, FullInv, RouterInv
    <3>2. j >= 1 /\ j + 1 \in Nat
      BY <2>4 DEF At
    <3> QED
      BY <1>3, <2>1, <3>1, <3>2 DEF FlowInv, FullInv, QueuedInv
  <2>5. /\ wire'[c] = Append(wire[c], t)
        /\ \A d \in Conns \ {c} : wire'[d] = wire[d]
        /\ Len(wire[c]) \in Nat /\ Len(wire'[c]) = Len(wire[c]) + 1
        /\ wire'[c][Len(wire[c]) + 1] = t
        /\ \A m \in 1..Len(wire[c]) : wire'[c][m] = wire[c][m]
    BY <1>0, <1>1, <1>3 DEF Send
  <2>6. ASSUME NEW u \in Tasks, NEW d \in Conns, NEW i \in Nat, WireAt(d, i, u)'
        PROVE  \/ u # t /\ WireAt(d, i, u)
               \/ u = t /\ d = c /\ i = Len(wire[c]) + 1
    <3>1. CASE d = c /\ i = Len(wire[c]) + 1
      BY <2>5, <2>6, <3>1 DEF WireAt
    <3>2. CASE ~(d = c /\ i = Len(wire[c]) + 1)
      <4>1. WireAt(d, i, u)
        BY <2>5, <2>6, <3>2 DEF WireAt
      <4> QED
        BY <2>3, <4>1
    <3> QED
      BY <3>1, <3>2
  <2>7. \A u \in Tasks : HasStarted(u)' <=> HasStarted(u)
    BY <1>1 DEF HasStarted, StartedAt
  <2>8. ASSUME NEW u \in Tasks, NEW d \in Conns, NEW i \in Nat, WireAt(d, i, u)'
        PROVE  Accepted(u)' /\ (owner[d] = target[u])' /\ ~HasStarted(u)'
    BY <1>1, <1>3, <2>2, <2>6, <2>7, <2>8 DEF FlowInv, OnePlace, AcceptedStays
  <2>9. ASSUME NEW u \in Tasks, NEW d \in Conns, NEW e \in Conns, NEW i \in Nat, NEW j \in Nat,
               WireAt(d, i, u)', WireAt(e, j, u)'
        PROVE  d = e /\ i = j
    BY <2>6, <2>9 DEF FlowInv, OnePlace
  <2>10. ASSUME NEW u \in Tasks, NEW d \in Conns, NEW i \in Nat, At(d, i, u)'
         PROVE  ~HasStarted(u)' /\ \A e \in Conns : \A j \in Nat : ~WireAt(e, j, u)'
    <3>1. u # t
      BY <2>4, <2>10
    <3> QED
      BY <1>2, <2>6, <2>7, <2>10, <3>1 DEF FlowInv, OnePlace
  <2>11. \A u \in Tasks : HasStarted(u)' => Accepted(u)'
    BY <2>7 DEF FlowInv, OnePlace, AcceptedStays
  <2>12. \A u \in Tasks : \A i, j \in Nat : StartedAt(i, u)' /\ StartedAt(j, u)' => i = j
    BY <1>1 DEF FlowInv, OnePlace, StartedAt
  <2> QED
    BY <2>8, <2>9, <2>10, <2>11, <2>12 DEF OnePlace
<1>4. CASE ~(c \in up /\ t \in Tasks)
  <2>1. wire' = wire
    BY <1>0, <1>1, <1>4 DEF Send
  <2> QED
    BY <1>1, <1>2, <2>1, MasterOnePlace
<1> QED
  BY <1>3, <1>4

\* The daemon takes a task off its connection and starts it.
LEMMA ReadOnePlace ==
  ASSUME FlowInv, NEW n \in Nodes, Read(n)
  PROVE  OnePlace'
<1>0. PICK q, t : q = wconn[n] /\ t = Head(wire[q])
  OBVIOUS
<1>1. /\ q \in Conns /\ wire[q] \in Seq(Tasks) /\ wire[q] # <<>>
      /\ wire \in [Conns -> Seq(Tasks)] /\ started \in Seq(Tasks)
  BY <1>0 DEF Read, FlowInv, FlowOwnTypeOK, Workers, AtWork
<1>2. /\ wire'[q] = Tail(wire[q])
      /\ \A d \in Conns \ {q} : wire'[d] = wire[d]
      /\ started' = Append(started, t)
      /\ UNCHANGED vars
  BY <1>0, <1>1 DEF Read
<1>3. t \in Tasks /\ WireAt(q, 1, t)
  BY <1>0, <1>1 DEF WireAt
<1>4. /\ Accepted(t) /\ ~HasStarted(t)
      /\ \A d \in Conns : \A i \in Nat : ~At(d, i, t)
  BY <1>1, <1>3 DEF FlowInv, OnePlace
<1>5. /\ Len(started) \in Nat /\ Len(started') = Len(started) + 1
      /\ started'[Len(started) + 1] = t
      /\ \A m \in 1..Len(started) : started'[m] = started[m]
  BY <1>1, <1>2, <1>3
<1>6. ASSUME NEW u \in Tasks, NEW i \in Nat, StartedAt(i, u)'
      PROVE  \/ u # t /\ StartedAt(i, u)
             \/ u = t /\ i = Len(started) + 1
  <2>1. CASE i = Len(started) + 1
    BY <1>5, <1>6, <2>1 DEF StartedAt
  <2>2. CASE i # Len(started) + 1
    <3>1. StartedAt(i, u)
      BY <1>5, <1>6, <2>2 DEF StartedAt
    <3> QED
      BY <1>4, <3>1 DEF HasStarted
  <2> QED
    BY <2>1, <2>2
<1>7. \A u \in Tasks : HasStarted(u)' => u = t \/ HasStarted(u)
  BY <1>6 DEF HasStarted
<1>8. ASSUME NEW u \in Tasks, NEW d \in Conns, NEW i \in Nat, WireAt(d, i, u)'
      PROVE  /\ IF d = q THEN WireAt(d, i + 1, u) /\ i >= 1 ELSE WireAt(d, i, u)
             /\ u # t
  <2>1. CASE d = q
    <3>1. /\ Len(wire'[q]) = Len(wire[q]) - 1
          /\ \A m \in 1..Len(wire'[q]) : wire'[q][m] = wire[q][m + 1]
          /\ Len(wire[q]) \in Nat
      BY <1>1, <1>2
    <3>2. WireAt(d, i + 1, u) /\ i >= 1 /\ i + 1 \in Nat
      BY <1>8, <2>1, <3>1 DEF WireAt
    <3> QED
      BY <1>1, <1>3, <2>1, <3>2 DEF FlowInv, OnePlace
  <2>2. CASE d # q
    <3>1. WireAt(d, i, u)
      BY <1>2, <1>8, <2>2 DEF WireAt
    <3> QED
      BY <1>1, <1>3, <2>2, <3>1 DEF FlowInv, OnePlace
  <2> QED
    BY <2>1, <2>2
<1>9. ASSUME NEW u \in Tasks, NEW d \in Conns, NEW i \in Nat, WireAt(d, i, u)'
      PROVE  Accepted(u)' /\ (owner[d] = target[u])' /\ ~HasStarted(u)'
  <2>1. PICK j \in Nat : WireAt(d, j, u)
    BY <1>8, <1>9
  <2>2. Accepted(u) /\ owner[d] = target[u] /\ ~HasStarted(u)
    BY <2>1 DEF FlowInv, OnePlace
  <2>3. u # t
    BY <1>8, <1>9
  <2> QED
    BY <1>2, <1>7, <2>2, <2>3 DEF Accepted, vars, brokerVars, routerVars
<1>10. ASSUME NEW u \in Tasks, NEW d \in Conns, NEW e \in Conns, NEW i \in Nat, NEW j \in Nat,
              WireAt(d, i, u)', WireAt(e, j, u)'
       PROVE  d = e /\ i = j
  <2>1. /\ IF d = q THEN WireAt(d, i + 1, u) ELSE WireAt(d, i, u)
        /\ IF e = q THEN WireAt(e, j + 1, u) ELSE WireAt(e, j, u)
    BY <1>8, <1>10
  <2> QED
    BY <2>1 DEF FlowInv, OnePlace
<1>11. ASSUME NEW u \in Tasks, NEW d \in Conns, NEW i \in Nat, At(d, i, u)'
       PROVE  ~HasStarted(u)' /\ \A e \in Conns : \A j \in Nat : ~WireAt(e, j, u)'
  <2>1. At(d, i, u)
    BY <1>2, <1>11 DEF At, vars, brokerVars
  <2>2. u # t /\ ~HasStarted(u) /\ \A e \in Conns : \A j \in Nat : ~WireAt(e, j, u)
    BY <1>4, <2>1 DEF FlowInv, OnePlace
  <2>3. \A e \in Conns : \A j \in Nat : ~WireAt(e, j, u)'
    BY <1>8, <2>2
  <2> QED
    BY <1>7, <2>2, <2>3
<1>12. \A u \in Tasks : HasStarted(u)' => Accepted(u)'
  BY <1>2, <1>4, <1>7 DEF FlowInv, OnePlace, Accepted, vars, routerVars
<1>13. \A u \in Tasks : \A i, j \in Nat : StartedAt(i, u)' /\ StartedAt(j, u)' => i = j
  BY <1>6 DEF FlowInv, OnePlace
<1> QED
  BY <1>9, <1>10, <1>11, <1>12, <1>13 DEF OnePlace

\* A stream is left: what was sent on it and not read is gone.
LEMMA LeaveOnePlace ==
  ASSUME FlowInv, AcceptedStays, NEW n \in Nodes, NEW state, LeaveStream(n, state)
  PROVE  OnePlace'
<1>1. \A t \in Tasks, c \in Conns : \A i \in Nat :
        WireAt(c, i, t)' => WireAt(c, i, t) /\ owner'[c] = owner[c]
  BY DEF LeaveStream, WireAt, vars, brokerVars, FlowInv, FlowOwnTypeOK
<1>2. \A t \in Tasks, c \in Conns : \A i \in Nat : At(c, i, t)' => At(c, i, t)
  BY DEF LeaveStream, At, vars, brokerVars
<1>3. started' = started
  BY DEF LeaveStream, history
<1> QED
  BY <1>1, <1>2, <1>3, NothingMoves DEF FlowInv

\* A connection fails: a prefix of what was sent may still be read.
LEMMA LinkDropOnePlace ==
  ASSUME FlowInv, AcceptedStays, NEW c \in Conns, LinkDrop(c)
  PROVE  OnePlace'
<1>1. PICK k \in 0..Len(wire[c]) : wire' = [wire EXCEPT ![c] = SubSeq(@, 1, k)]
  BY DEF LinkDrop
<1>2. ASSUME NEW t \in Tasks, NEW d \in Conns, NEW i \in Nat, WireAt(d, i, t)'
      PROVE  WireAt(d, i, t)
  <2>1. wire[c] \in Seq(Tasks) /\ wire \in [Conns -> Seq(Tasks)]
    BY DEF FlowInv, FlowOwnTypeOK
  <2>2. /\ Len(SubSeq(wire[c], 1, k)) = k
        /\ \A m \in 1..k : SubSeq(wire[c], 1, k)[m] = wire[c][m]
        /\ Len(wire[c]) \in Nat /\ k \in Nat /\ k <= Len(wire[c])
    BY <2>1
  <2> QED
    BY <1>1, <1>2, <2>1, <2>2 DEF WireAt
<1>3. \A t \in Tasks, d \in Conns : \A i \in Nat : At(d, i, t)' => At(d, i, t)
  BY DEF LinkDrop, At, vars, brokerVars
<1>4. owner' = owner /\ started' = started
  BY DEF LinkDrop, vars, brokerVars, history
<1> QED
  BY <1>2, <1>3, <1>4, NothingMoves DEF FlowInv

\* The daemon opens a stream: nothing is on it.
LEMMA OpenStreamOnePlace ==
  ASSUME FlowInv, AcceptedStays, NEW n \in Nodes, NEW c \in Conns, OpenStream(n, c)
  PROVE  OnePlace'
<1>1. \A t \in Tasks, d \in Conns : \A i \in Nat :
        WireAt(d, i, t)' => WireAt(d, i, t) /\ owner'[d] = owner[d]
  BY DEF OpenStream, Connect, WireAt, FlowInv, FlowOwnTypeOK, FullInv, RouterInv,
     BrokerInv, BrokerTypeOK
<1>2. \A t \in Tasks, d \in Conns : \A i \in Nat :
        At(d, i, t)' => \E e \in Conns : \E j \in Nat : At(e, j, t)
  BY PoolQueuesNothing DEF OpenStream, FlowInv, FullInv, RouterInv
<1>3. started' = started
  BY DEF OpenStream, history
<1> QED
  BY <1>1, <1>2, <1>3, NothingMoves DEF FlowInv

\* No step of the composition puts a task in two places.
LEMMA OnePlaceStep == FlowInv /\ [TaskFlowNext]_flowVars => OnePlace'
<1> SUFFICES ASSUME FlowInv, [TaskFlowNext]_flowVars PROVE OnePlace'
  OBVIOUS
<1>0. AcceptedStays
  BY FlowIsRouterStep, RouterKeepsAccepted DEF FlowInv, FullInv
<1>1. ASSUME buf' = buf PROVE \A t \in Tasks, c \in Conns : \A i \in Nat :
        At(c, i, t)' => \E d \in Conns : \E j \in Nat : At(d, j, t)
  BY <1>1 DEF At
<1>2. ASSUME UNCHANGED <<owner, buf, wire, started>> PROVE OnePlace'
  BY <1>0, <1>1, <1>2, MasterOnePlace
<1>3. ASSUME NEW t \in Tasks, NEW n \in Nodes, ClientCall(t, n) PROVE OnePlace'
  <2>1. CASE Reject(t, n)
    BY <1>2, <1>3, <2>1 DEF ClientCall, Reject, workerVars, brokerVars
  <2>2. CASE DispatchAsync(t, n) \/ DispatchSync(t, n)
    BY <1>0, <1>3, <2>2, DispatchOnePlace DEF ClientCall, DispatchAsync, DispatchSync, workerVars
  <2> QED
    BY <1>3, <2>1, <2>2 DEF ClientCall
<1>4. ASSUME NEW t \in Tasks, WaiterStep(t) PROVE OnePlace'
  BY <1>2, <1>4 DEF WaiterStep, Expire, WakeResult, WakeTimeout, workerVars, brokerVars, history
<1>5. ASSUME NEW c \in Conns, Idle(c) \/ NoticeGone(c) PROVE OnePlace'
  <2>1. UNCHANGED <<owner, wire, started>>
    BY <1>5 DEF Idle, NoticeGone, Block, Timeout, Finish, workerVars, history
  <2>2. \A t \in Tasks, d \in Conns : \A i \in Nat :
          At(d, i, t)' => \E e \in Conns : \E j \in Nat : At(e, j, t)
    BY <1>5, PoolQueuesNothing DEF Idle, NoticeGone, FlowInv, FullInv, RouterInv
  <2> QED
    BY <1>0, <2>1, <2>2, MasterOnePlace
<1>6. ASSUME PingAll PROVE OnePlace'
  <2>1. UNCHANGED <<owner, wire, started>>
    BY <1>6 DEF PingAll, BroadcastPing, workerVars, history
  <2>2. ASSUME NEW t \in Tasks, NEW d \in Conns, NEW i \in Nat, At(d, i, t)'
        PROVE  \E e \in Conns : \E j \in Nat : At(e, j, t)
    BY <1>6, <2>2, PoolQueuesNothing DEF PingAll, FlowInv, FullInv, RouterInv
  <2> QED
    BY <1>0, <2>1, <2>2, MasterOnePlace
<1>7. ASSUME NEW c \in Conns, Send(c) PROVE OnePlace'
  BY <1>0, <1>7, SendOnePlace
<1>8. ASSUME NEW r \in posts, Deliver(r) PROVE OnePlace'
  BY <1>2, <1>8 DEF Deliver, SubmitResult, brokerVars, history
<1>9. CASE MasterRestart
  <2>1. UNCHANGED <<owner, wire, started>> /\ \A c \in Conns : buf'[c] = <<>>
    BY <1>9 DEF MasterRestart, Restart, history
  <2>2. \A t \in Tasks, c \in Conns : \A i \in Nat : ~At(c, i, t)'
    BY <2>1 DEF At
  <2> QED
    BY <1>0, <2>1, <2>2, MasterOnePlace
<1>10. ASSUME NEW n \in Nodes, NEW c \in Conns, OpenStream(n, c) PROVE OnePlace'
  BY <1>0, <1>10, OpenStreamOnePlace
<1>11. ASSUME NEW n \in Nodes,
              (\E o \in Outcomes : ExecDone(n, o)) \/ WorkerStart(n) \/ ReportReturns(n)
       PROVE  OnePlace'
  BY <1>2, <1>11 DEF ExecDone, WorkerStart, ReportReturns, vars, brokerVars, history
<1>12. ASSUME NEW n \in Nodes, Read(n) PROVE OnePlace'
  BY <1>12, ReadOnePlace
<1>13. ASSUME NEW n \in Nodes,
              StreamEnds(n) \/ ExecRaises(n) \/ ReportRaises(n) \/ WorkerCrash(n)
       PROVE  OnePlace'
  BY <1>0, <1>13, LeaveOnePlace DEF StreamEnds, ExecRaises, ReportRaises, WorkerCrash
<1>14. ASSUME NEW c \in Conns, LinkDrop(c) PROVE OnePlace'
  BY <1>0, <1>14, LinkDropOnePlace
<1>15. ASSUME NEW r \in posts, LosePost(r) PROVE OnePlace'
  BY <1>2, <1>15 DEF LosePost, vars, brokerVars, history
<1>16. CASE UNCHANGED flowVars
  BY <1>2, <1>16 DEF flowVars, vars, brokerVars, workerVars, history
<1> QED
  BY <1>3, <1>4, <1>5, <1>6, <1>7, <1>8, <1>9, <1>10, <1>11, <1>12, <1>13, <1>14, <1>15,
     <1>16 DEF TaskFlowNext
-----------------------------------------------------------------------------
(***************************************************************************)
(* Daemons handle their own tasks, and what they report is true.           *)
(***************************************************************************)

\* A step that leaves the daemons alone.
LEMMA SameWorkers ==
  ASSUME FlowInv, AcceptedStays, UNCHANGED <<wpc, wconn, wtask, started, produced>>,
         \A n \in Nodes : wconn[n] # NoConn => owner'[wconn[n]] = owner[wconn[n]]
  PROVE  Workers'
<1>1. \A t \in Tasks : HasStarted(t)' <=> HasStarted(t)
  BY DEF HasStarted, StartedAt
<1>2. \A t \in Tasks : HasStarted(t) => target'[t] = target[t]
  BY DEF FlowInv, OnePlace, AcceptedStays
<1> SUFFICES ASSUME NEW n \in Nodes PROVE AtWork(n)'
  BY DEF Workers
<1> QED
  BY <1>1, <1>2 DEF FlowInv, Workers, AtWork

\* A daemon that comes up, leaves a stream or goes back to reading handles no
\* task; the others are left alone.
LEMMA FreeWorker ==
  ASSUME FlowInv, NEW n \in Nodes, UNCHANGED <<owner, target, started, produced>>,
         \A m \in Nodes \ {n} :
           wpc'[m] = wpc[m] /\ wconn'[m] = wconn[m] /\ wtask'[m] = wtask[m],
         \/ wpc'[n] \in {"down", "offline"} /\ wconn'[n] \in {NoConn, wconn[n]}
         \/ wpc'[n] = "listen" /\ wpc[n] = "report" /\ wconn'[n] = wconn[n]
  PROVE  Workers'
<1>1. \A t \in Tasks : HasStarted(t)' <=> HasStarted(t)
  BY DEF HasStarted, StartedAt
<1> SUFFICES ASSUME NEW m \in Nodes PROVE AtWork(m)'
  BY DEF Workers
<1>2. CASE m = n
  BY <1>2 DEF FlowInv, Workers, AtWork
<1>3. CASE m # n
  BY <1>1, <1>3 DEF FlowInv, Workers, AtWork
<1> QED
  BY <1>2, <1>3

\* The stream a daemon opens is nobody else's.
LEMMA OpenStreamWorkers ==
  ASSUME FlowInv, AcceptedStays, NEW n \in Nodes, NEW c \in Conns, OpenStream(n, c)
  PROVE  Workers'
<1>1. \A t \in Tasks : HasStarted(t)' <=> HasStarted(t)
  BY DEF OpenStream, history, HasStarted, StartedAt
<1>2. /\ UNCHANGED <<target, wtask, produced>>
      /\ owner'[c] = n /\ \A d \in Conns \ {c} : owner'[d] = owner[d]
      /\ wconn'[n] = c /\ wpc'[n] = "listen"
      /\ \A m \in Nodes \ {n} : wconn'[m] = wconn[m] /\ wpc'[m] = wpc[m]
      /\ \A m \in Nodes : wconn[m] # c /\ wconn[m] \in Conns \cup {NoConn}
  BY DEF OpenStream, Connect, routerVars, history, FlowInv, FlowOwnTypeOK, FullInv,
     RouterInv, BrokerInv, BrokerTypeOK
<1> SUFFICES ASSUME NEW m \in Nodes PROVE AtWork(m)'
  BY DEF Workers
<1>3. CASE m = n
  BY <1>2, <1>3 DEF AtWork
<1>4. CASE m # n
  BY <1>1, <1>2, <1>4 DEF FlowInv, Workers, AtWork
<1> QED
  BY <1>3, <1>4

\* A daemon starts a task that was sent to its node and gave nothing yet.
LEMMA ReadWorkers ==
  ASSUME FlowInv, NEW n \in Nodes, Read(n)
  PROVE  Workers'
<1>0. PICK q, t : q = wconn[n] /\ t = Head(wire[q])
  OBVIOUS
<1>1. /\ q \in Conns /\ wire[q] \in Seq(Tasks) /\ wire[q] # <<>>
      /\ started \in Seq(Tasks)
  BY <1>0 DEF Read, FlowInv, FlowOwnTypeOK, Workers, AtWork
<1>2. t \in Tasks /\ WireAt(q, 1, t)
  BY <1>0, <1>1 DEF WireAt
<1>3. owner[q] = target[t] /\ owner[q] = n /\ ~HasStarted(t)
  BY <1>0, <1>1, <1>2, BrokerAssumption DEF FlowInv, OnePlace, Workers, AtWork
<1>4. produced[t] = NoOutcome
  BY <1>2, <1>3 DEF FlowInv, Truth
<1>5. /\ started' = Append(started, t) /\ wtask'[n] = t /\ wpc'[n] = "exec"
      /\ UNCHANGED <<owner, target, wconn, produced>>
      /\ \A m \in Nodes \ {n} : wtask'[m] = wtask[m] /\ wpc'[m] = wpc[m]
  BY <1>0, <1>1 DEF Read, vars, brokerVars, routerVars, FlowInv, FlowOwnTypeOK
<1>6. HasStarted(t)' /\ \A u \in Tasks : HasStarted(u) => HasStarted(u)'
  <2>1. /\ Len(started) \in Nat /\ Len(started') = Len(started) + 1
        /\ started'[Len(started) + 1] = t
        /\ \A i \in 1..Len(started) : started'[i] = started[i]
    BY <1>1, <1>2, <1>5
  <2>2. PICK k \in Nat : k = Len(started) + 1
    BY <2>1
  <2>3. StartedAt(k, t)'
    BY <2>1, <2>2 DEF StartedAt
  <2>4. \A u \in Tasks : \A i \in Nat : StartedAt(i, u) => StartedAt(i, u)'
    BY <2>1 DEF StartedAt
  <2> QED
    BY <2>3, <2>4 DEF HasStarted
<1> SUFFICES ASSUME NEW m \in Nodes PROVE AtWork(m)'
  BY DEF Workers
<1>7. CASE m = n
  BY <1>0, <1>1, <1>2, <1>3, <1>4, <1>5, <1>6, <1>7 DEF FlowInv, Workers, AtWork
<1>8. CASE m # n
  BY <1>5, <1>6, <1>8 DEF FlowInv, Workers, AtWork
<1> QED
  BY <1>7, <1>8

\* An execution ends; no other daemon executes the same task.
LEMMA ExecDoneWorkers ==
  ASSUME FlowInv, NEW n \in Nodes, NEW o \in Outcomes, ExecDone(n, o)
  PROVE  Workers'
<1>1. \A t \in Tasks : HasStarted(t)' <=> HasStarted(t)
  BY DEF ExecDone, HasStarted, StartedAt
<1>2. /\ UNCHANGED <<owner, target, wconn, wtask>> /\ wpc'[n] = "report"
      /\ wtask[n] \in Tasks /\ target[wtask[n]] = n
      /\ \A m \in Nodes \ {n} : wpc'[m] = wpc[m]
      /\ \A t \in Tasks \ {wtask[n]} : produced'[t] = produced[t]
  BY DEF ExecDone, vars, brokerVars, routerVars, FlowInv, FlowOwnTypeOK, Workers, AtWork
<1> SUFFICES ASSUME NEW m \in Nodes PROVE AtWork(m)'
  BY DEF Workers
<1>3. CASE m = n
  BY <1>1, <1>2, <1>3 DEF ExecDone, FlowInv, Workers, AtWork
<1>4. CASE m # n
  BY <1>1, <1>2, <1>4 DEF FlowInv, Workers, AtWork
<1> QED
  BY <1>3, <1>4

\* Every step keeps the daemons in order.
LEMMA WorkersStep == FlowInv /\ [TaskFlowNext]_flowVars => Workers'
<1> SUFFICES ASSUME FlowInv, [TaskFlowNext]_flowVars PROVE Workers'
  OBVIOUS
<1>0. AcceptedStays
  BY FlowIsRouterStep, RouterKeepsAccepted DEF FlowInv, FullInv
<1>1. ASSUME UNCHANGED <<owner, wpc, wconn, wtask, started, produced>> PROVE Workers'
  BY <1>0, <1>1, SameWorkers
<1>2. ASSUME NEW t \in Tasks, NEW n \in Nodes, ClientCall(t, n) PROVE Workers'
  BY <1>1, <1>2 DEF ClientCall, Reject, DispatchAsync, DispatchSync, Dispatch, workerVars,
     brokerVars
<1>3. ASSUME NEW t \in Tasks, WaiterStep(t) PROVE Workers'
  BY <1>1, <1>3 DEF WaiterStep, Expire, WakeResult, WakeTimeout, workerVars, brokerVars, history
<1>4. ASSUME NEW c \in Conns, Idle(c) \/ NoticeGone(c) \/ Send(c) PROVE Workers'
  BY <1>1, <1>4 DEF Idle, NoticeGone, Send, Block, Timeout, Finish, Take, workerVars, history
<1>5. ASSUME PingAll PROVE Workers'
  BY <1>1, <1>5 DEF PingAll, BroadcastPing, workerVars, history
<1>6. ASSUME NEW r \in posts, Deliver(r) PROVE Workers'
  BY <1>1, <1>6 DEF Deliver, SubmitResult, brokerVars, history
<1>7. CASE MasterRestart
  BY <1>1, <1>7 DEF MasterRestart, Restart, history
<1>8. ASSUME NEW n \in Nodes, NEW c \in Conns, OpenStream(n, c) PROVE Workers'
  BY <1>0, <1>8, OpenStreamWorkers
<1>9. ASSUME NEW n \in Nodes, NEW o \in Outcomes, ExecDone(n, o) PROVE Workers'
  BY <1>9, ExecDoneWorkers
<1>10. ASSUME NEW n \in Nodes, Read(n) PROVE Workers'
  BY <1>10, ReadWorkers
<1>11. ASSUME NEW n \in Nodes, WorkerStart(n) \/ ReportReturns(n) PROVE Workers'
  <2>1. UNCHANGED <<owner, target, started, produced>>
    BY <1>11 DEF WorkerStart, ReportReturns, vars, brokerVars, routerVars, history
  <2>2. /\ \A m \in Nodes \ {n} :
             wpc'[m] = wpc[m] /\ wconn'[m] = wconn[m] /\ wtask'[m] = wtask[m]
        /\ \/ wpc'[n] = "offline" /\ wconn'[n] = wconn[n]
           \/ wpc'[n] = "listen" /\ wpc[n] = "report" /\ wconn'[n] = wconn[n]
    BY <1>11 DEF WorkerStart, ReportReturns, FlowInv, FlowOwnTypeOK
  <2> QED
    BY <2>1, <2>2, FreeWorker
<1>12. ASSUME NEW n \in Nodes, NEW state \in {"down", "offline"}, LeaveStream(n, state)
       PROVE  Workers'
  <2>1. UNCHANGED <<owner, target, started, produced>>
    BY <1>12 DEF LeaveStream, vars, brokerVars, routerVars, history
  <2>2. /\ \A m \in Nodes \ {n} :
             wpc'[m] = wpc[m] /\ wconn'[m] = wconn[m] /\ wtask'[m] = wtask[m]
        /\ wpc'[n] \in {"down", "offline"} /\ wconn'[n] = NoConn
    BY <1>12 DEF LeaveStream, FlowInv, FlowOwnTypeOK
  <2> QED
    BY <2>1, <2>2, FreeWorker
<1>13. ASSUME NEW n \in Nodes,
              StreamEnds(n) \/ ExecRaises(n) \/ ReportRaises(n) \/ WorkerCrash(n)
       PROVE  Workers'
  BY <1>12, <1>13 DEF StreamEnds, ExecRaises, ReportRaises, WorkerCrash
<1>14. ASSUME NEW c \in Conns, LinkDrop(c) PROVE Workers'
  BY <1>1, <1>14 DEF LinkDrop, vars, brokerVars, history
<1>15. ASSUME NEW r \in posts, LosePost(r) PROVE Workers'
  BY <1>1, <1>15 DEF LosePost, vars, brokerVars, history
<1>16. CASE UNCHANGED flowVars
  BY <1>1, <1>16 DEF flowVars, vars, brokerVars, workerVars, history
<1> QED
  BY <1>2, <1>3, <1>4, <1>5, <1>6, <1>7, <1>8, <1>9, <1>10, <1>11, <1>13, <1>14, <1>15, <1>16
  DEF TaskFlowNext

\* A step that learns no result and ends no execution.
LEMMA NothingLearnt ==
  ASSUME FlowInv, AcceptedStays, UNCHANGED <<started, produced>>, posts' \subseteq posts,
         \A t \in Tasks :
           /\ results'[t] \in TaskResults => results'[t] = results[t]
           /\ fut'[t] \in TaskResults => fut'[t] = fut[t]
           /\ reply'[t] \in TaskResults => reply'[t] \in {reply[t], fut[t]}
  PROVE  Truth'
<1>1. \A t \in Tasks : HasStarted(t)' <=> HasStarted(t)
  BY DEF HasStarted, StartedAt
<1>2. ASSUME NEW r \in TaskResults, Genuine(r) PROVE Genuine(r)'
  <2>1. r.task \in Tasks
    BY DEF TaskResults
  <2>2. Accepted(r.task)
    BY <1>2, <2>1 DEF Genuine, FlowInv, OnePlace
  <2> QED
    BY <1>1, <1>2, <2>1, <2>2 DEF Genuine, AcceptedStays
<1>3. \A r \in posts' : Genuine(r)'
  BY <1>2 DEF FlowInv, FlowOwnTypeOK, Truth
<1>4. ASSUME NEW t \in Tasks, results'[t] \in TaskResults
      PROVE  results'[t].task = t /\ (Genuine(results[t]))'
  <2>1. PICK r \in TaskResults : r = results[t] /\ r = results'[t]
    BY <1>4
  <2>2. r.task = t /\ Genuine(r)
    BY <2>1 DEF FlowInv, Truth
  <2>3. Genuine(r)'
    BY <1>2, <2>2
  <2> QED
    BY <2>1, <2>2, <2>3 DEF Genuine
<1>5. ASSUME NEW t \in Tasks, fut'[t] \in TaskResults
      PROVE  fut'[t].task = t /\ (Genuine(fut[t]))'
  <2>1. PICK r \in TaskResults : r = fut[t] /\ r = fut'[t]
    BY <1>5
  <2>2. r.task = t /\ Genuine(r)
    BY <2>1 DEF FlowInv, Truth
  <2>3. Genuine(r)'
    BY <1>2, <2>2
  <2> QED
    BY <2>1, <2>2, <2>3 DEF Genuine
<1>6. ASSUME NEW t \in Tasks, reply'[t] \in TaskResults
      PROVE  reply'[t].task = t /\ (Genuine(reply[t]))'
  <2>1. PICK r \in TaskResults : r \in {reply[t], fut[t]} /\ r = reply'[t]
    BY <1>6
  <2>2. r.task = t /\ Genuine(r)
    BY <2>1 DEF FlowInv, Truth
  <2>3. Genuine(r)'
    BY <1>2, <2>2
  <2> QED
    BY <2>1, <2>2, <2>3 DEF Genuine
<1>7. \A t \in Tasks : produced'[t] # NoOutcome => HasStarted(t)'
  BY <1>1 DEF FlowInv, Truth
<1> QED
  BY <1>3, <1>4, <1>5, <1>6, <1>7 DEF Truth

\* The master learns a result: it is genuine, and so is what it resolves the
\* waiter's future with.
LEMMA DeliverTruth ==
  ASSUME FlowInv, NEW r \in posts, Deliver(r)
  PROVE  Truth'
<1>1. r \in TaskResults /\ r.task \in Tasks /\ Genuine(r)
  BY DEF FlowInv, FlowOwnTypeOK, TaskResults, Truth
<1>2. UNCHANGED <<target, started, produced, reply>>
  BY DEF Deliver, SubmitResult, history
<1>3. ASSUME NEW s PROVE Genuine(s) <=> Genuine(s)'
  BY <1>2 DEF Genuine, HasStarted, StartedAt
<1>4. \A s \in posts' : Genuine(s)'
  BY <1>3 DEF Deliver, FlowInv, Truth
<1>5. ASSUME NEW t \in Tasks
      PROVE  results'[t] = (IF t = r.task THEN r ELSE results[t]) /\ fut'[t] \in {r, fut[t]}
             /\ (t # r.task => fut'[t] = fut[t])
  BY <1>1 DEF Deliver, SubmitResult, Store, FlowInv, FullInv, RouterInv, RouterOwnTypeOK
<1>6. ASSUME NEW t \in Tasks, NEW s \in TaskResults,
             s \in {results[t], fut[t], reply[t]} \/ (s = r /\ t = r.task)
      PROVE  s.task = t /\ Genuine(s)'
  BY <1>1, <1>3, <1>6 DEF FlowInv, Truth
<1>7. ASSUME NEW t \in Tasks, results'[t] \in TaskResults
      PROVE  results'[t].task = t /\ (Genuine(results[t]))'
  <2>1. PICK s \in TaskResults : s = results'[t]
    BY <1>7
  <2>2. s.task = t /\ Genuine(s)'
    BY <1>5, <1>6, <2>1
  <2> QED
    BY <2>1, <2>2 DEF Genuine
<1>8. ASSUME NEW t \in Tasks, fut'[t] \in TaskResults
      PROVE  fut'[t].task = t /\ (Genuine(fut[t]))'
  <2>1. PICK s \in TaskResults : s = fut'[t]
    BY <1>8
  <2>2. s.task = t /\ Genuine(s)'
    BY <1>5, <1>6, <2>1
  <2> QED
    BY <2>1, <2>2 DEF Genuine
<1>9. ASSUME NEW t \in Tasks, reply'[t] \in TaskResults
      PROVE  reply'[t].task = t /\ (Genuine(reply[t]))'
  <2>1. PICK s \in TaskResults : s = reply[t] /\ s = reply'[t]
    BY <1>2, <1>9
  <2>2. s.task = t /\ Genuine(s)'
    BY <1>6, <2>1
  <2> QED
    BY <2>1, <2>2 DEF Genuine
<1>10. \A t \in Tasks : produced'[t] # NoOutcome => HasStarted(t)'
  BY <1>2 DEF FlowInv, Truth, HasStarted, StartedAt
<1> QED
  BY <1>4, <1>7, <1>8, <1>9, <1>10 DEF Truth

\* An execution ends: no result of its task is about yet, so none is
\* contradicted, and the one posted is genuine.
LEMMA ExecDoneTruth ==
  ASSUME FlowInv, NEW n \in Nodes, NEW o \in Outcomes, ExecDone(n, o)
  PROVE  Truth'
<1>0. PICK t : t = wtask[n]
  OBVIOUS
<1>1. /\ t \in Tasks /\ target[t] = n /\ HasStarted(t) /\ produced[t] = NoOutcome
      /\ produced'[t] = o /\ o # NoOutcome
      /\ \A u \in Tasks \ {t} : produced'[u] = produced[u]
      /\ UNCHANGED <<target, started, results, fut, reply>>
      /\ posts' = posts \cup {[task |-> t, node |-> n, outcome |-> o]}
  BY <1>0, TaskFlowAssumption DEF ExecDone, ResultOf, vars, routerVars, FlowInv, FlowOwnTypeOK,
     Workers, AtWork
<1>2. \A u \in Tasks : HasStarted(u)' <=> HasStarted(u)
  BY <1>1 DEF HasStarted, StartedAt
<1>3. ASSUME NEW s \in TaskResults, Genuine(s) PROVE Genuine(s)'
  <2>1. s.task \in Tasks /\ s.outcome \in Outcomes
    BY DEF TaskResults
  <2>2. s.task # t
    BY <1>1, <1>3, <2>1, TaskFlowAssumption DEF Genuine
  <2> QED
    BY <1>1, <1>2, <1>3, <2>1, <2>2 DEF Genuine
<1>4. ASSUME NEW s \in posts' PROVE Genuine(s)'
  <2>1. CASE s \in posts
    BY <1>3, <2>1 DEF FlowInv, FlowOwnTypeOK, Truth
  <2>2. CASE s = [task |-> t, node |-> n, outcome |-> o]
    <3>1. s.task = t /\ s.node = n /\ s.outcome = o
      BY <2>2
    <3> QED
      BY <1>1, <1>2, <3>1 DEF Genuine
  <2> QED
    BY <1>1, <1>4, <2>1, <2>2
<1>5. ASSUME NEW u \in Tasks, NEW s \in TaskResults, s \in {results[u], fut[u], reply[u]}
      PROVE  s.task = u /\ Genuine(s)'
  BY <1>3, <1>5 DEF FlowInv, Truth
<1>6. ASSUME NEW u \in Tasks, results'[u] \in TaskResults
      PROVE  results'[u].task = u /\ (Genuine(results[u]))'
  <2>1. PICK s \in TaskResults : s = results[u] /\ s = results'[u]
    BY <1>1, <1>6
  <2>2. s.task = u /\ Genuine(s)'
    BY <1>5, <2>1
  <2> QED
    BY <2>1, <2>2 DEF Genuine
<1>7. ASSUME NEW u \in Tasks, fut'[u] \in TaskResults
      PROVE  fut'[u].task = u /\ (Genuine(fut[u]))'
  <2>1. PICK s \in TaskResults : s = fut[u] /\ s = fut'[u]
    BY <1>1, <1>7
  <2>2. s.task = u /\ Genuine(s)'
    BY <1>5, <2>1
  <2> QED
    BY <2>1, <2>2 DEF Genuine
<1>8. ASSUME NEW u \in Tasks, reply'[u] \in TaskResults
      PROVE  reply'[u].task = u /\ (Genuine(reply[u]))'
  <2>1. PICK s \in TaskResults : s = reply[u] /\ s = reply'[u]
    BY <1>1, <1>8
  <2>2. s.task = u /\ Genuine(s)'
    BY <1>5, <2>1
  <2> QED
    BY <2>1, <2>2 DEF Genuine
<1>9. \A u \in Tasks : produced'[u] # NoOutcome => HasStarted(u)'
  BY <1>1, <1>2 DEF FlowInv, Truth
<1> QED
  BY <1>4, <1>6, <1>7, <1>8, <1>9 DEF Truth

\* A task is started.
LEMMA ReadTruth ==
  ASSUME FlowInv, NEW n \in Nodes, Read(n)
  PROVE  Truth'
<1>1. /\ UNCHANGED <<target, produced, posts, results, fut, reply>>
      /\ wire[wconn[n]] \in Seq(Tasks) /\ wire[wconn[n]] # <<>>
      /\ started \in Seq(Tasks) /\ started' = Append(started, Head(wire[wconn[n]]))
  BY DEF Read, vars, routerVars, FlowInv, FlowOwnTypeOK, Workers, AtWork
<1>2. PICK t \in Tasks : started' = Append(started, t)
  BY <1>1
<1>3. \A u \in Tasks : HasStarted(u) => HasStarted(u)'
  BY <1>1, <1>2 DEF HasStarted, StartedAt
<1>4. ASSUME NEW s \in TaskResults, Genuine(s) PROVE Genuine(s)'
  <2>1. s.task \in Tasks
    BY DEF TaskResults
  <2> QED
    BY <1>1, <1>3, <1>4, <2>1 DEF Genuine
<1>5. \A s \in posts' : Genuine(s)'
  BY <1>1, <1>4 DEF FlowInv, FlowOwnTypeOK, Truth
<1>6. ASSUME NEW u \in Tasks, NEW s \in TaskResults, s \in {results[u], fut[u], reply[u]}
      PROVE  s.task = u /\ Genuine(s)'
  BY <1>4, <1>6 DEF FlowInv, Truth
<1>7. ASSUME NEW u \in Tasks, results'[u] \in TaskResults
      PROVE  results'[u].task = u /\ (Genuine(results[u]))'
  <2>1. PICK s \in TaskResults : s = results[u] /\ s = results'[u]
    BY <1>1, <1>7
  <2>2. s.task = u /\ Genuine(s)'
    BY <1>6, <2>1
  <2> QED
    BY <2>1, <2>2 DEF Genuine
<1>8. ASSUME NEW u \in Tasks, fut'[u] \in TaskResults
      PROVE  fut'[u].task = u /\ (Genuine(fut[u]))'
  <2>1. PICK s \in TaskResults : s = fut[u] /\ s = fut'[u]
    BY <1>1, <1>8
  <2>2. s.task = u /\ Genuine(s)'
    BY <1>6, <2>1
  <2> QED
    BY <2>1, <2>2 DEF Genuine
<1>9. ASSUME NEW u \in Tasks, reply'[u] \in TaskResults
      PROVE  reply'[u].task = u /\ (Genuine(reply[u]))'
  <2>1. PICK s \in TaskResults : s = reply[u] /\ s = reply'[u]
    BY <1>1, <1>9
  <2>2. s.task = u /\ Genuine(s)'
    BY <1>6, <2>1
  <2> QED
    BY <2>1, <2>2 DEF Genuine
<1>10. \A u \in Tasks : produced'[u] # NoOutcome => HasStarted(u)'
  BY <1>1, <1>3 DEF FlowInv, Truth
<1> QED
  BY <1>5, <1>7, <1>8, <1>9, <1>10 DEF Truth

\* Every step keeps what is told true.
LEMMA TruthStep == FlowInv /\ [TaskFlowNext]_flowVars => Truth'
<1> SUFFICES ASSUME FlowInv, [TaskFlowNext]_flowVars PROVE Truth'
  OBVIOUS
<1>0. AcceptedStays /\ RouterOwnTypeOK
  BY FlowIsRouterStep, RouterKeepsAccepted DEF FlowInv, FullInv, RouterInv
<1>1. ASSUME UNCHANGED <<fut, results, reply, started, produced>>, posts' \subseteq posts
      PROVE  Truth'
  BY <1>0, <1>1, NothingLearnt
<1>2. ASSUME NEW t \in Tasks, NEW n \in Nodes, ClientCall(t, n) PROVE Truth'
  <2>1. CASE Reject(t, n)
    BY <1>1, <1>2, <2>1 DEF ClientCall, Reject, workerVars
  <2>2. CASE DispatchAsync(t, n) \/ DispatchSync(t, n)
    <3>1. /\ UNCHANGED <<results, reply, started, produced, posts>>
          /\ \A u \in Tasks : fut'[u] \in TaskResults => fut'[u] = fut[u]
      BY <1>0, <1>2, <2>2, ValuesDistinct DEF ClientCall, DispatchAsync, DispatchSync, Dispatch,
         workerVars, RouterOwnTypeOK
    <3> QED
      BY <1>0, <3>1, NothingLearnt
  <2> QED
    BY <1>2, <2>1, <2>2 DEF ClientCall
<1>3. ASSUME NEW t \in Tasks, WaiterStep(t) PROVE Truth'
  <2>1. UNCHANGED <<results, started, produced, posts>>
    BY <1>3 DEF WaiterStep, Expire, WakeResult, WakeTimeout, workerVars, history
  <2>2. \A u \in Tasks : fut'[u] \in TaskResults => fut'[u] = fut[u]
    BY <1>0, <1>3, ValuesDistinct DEF WaiterStep, Expire, WakeResult, WakeTimeout, RouterOwnTypeOK
  <2>3. \A u \in Tasks : reply'[u] \in TaskResults => reply'[u] \in {reply[u], fut[u]}
    BY <1>0, <1>3, TimeoutIsNoResult DEF WaiterStep, Expire, WakeResult, WakeTimeout, RouterOwnTypeOK
  <2> QED
    BY <1>0, <2>1, <2>2, <2>3, NothingLearnt
<1>4. ASSUME NEW c \in Conns, Idle(c) \/ NoticeGone(c) \/ Send(c) PROVE Truth'
  BY <1>1, <1>4 DEF Idle, NoticeGone, Send, workerVars, routerVars, history
<1>5. ASSUME PingAll PROVE Truth'
  BY <1>1, <1>5 DEF PingAll, workerVars, routerVars, history
<1>6. ASSUME NEW r \in posts, Deliver(r) PROVE Truth'
  BY <1>6, DeliverTruth
<1>7. CASE MasterRestart
  <2>1. /\ UNCHANGED <<reply, started, produced, posts>>
        /\ \A t \in Tasks : results'[t] = NoResult /\ fut'[t] = NoFuture
    BY <1>7 DEF MasterRestart, Restart, history
  <2> QED
    BY <1>0, <2>1, ValuesDistinct, NothingLearnt
<1>8. ASSUME NEW n \in Nodes, NEW c \in Conns, OpenStream(n, c) PROVE Truth'
  BY <1>1, <1>8 DEF OpenStream, routerVars, history
<1>9. ASSUME NEW n \in Nodes, NEW o \in Outcomes, ExecDone(n, o) PROVE Truth'
  BY <1>9, ExecDoneTruth
<1>10. ASSUME NEW n \in Nodes, Read(n) PROVE Truth'
  BY <1>10, ReadTruth
<1>11. ASSUME NEW n \in Nodes,
              \/ WorkerStart(n) \/ ReportReturns(n)
              \/ StreamEnds(n) \/ ExecRaises(n) \/ ReportRaises(n) \/ WorkerCrash(n)
       PROVE  Truth'
  BY <1>1, <1>11 DEF WorkerStart, ReportReturns, StreamEnds, ExecRaises, ReportRaises,
     WorkerCrash, LeaveStream, vars, routerVars, history
<1>12. ASSUME NEW c \in Conns, LinkDrop(c) PROVE Truth'
  BY <1>1, <1>12 DEF LinkDrop, vars, routerVars, history
<1>13. ASSUME NEW r \in posts, LosePost(r) PROVE Truth'
  BY <1>1, <1>13 DEF LosePost, vars, routerVars, history
<1>14. CASE UNCHANGED flowVars
  BY <1>1, <1>14 DEF flowVars, vars, routerVars, workerVars, history
<1> QED
  BY <1>2, <1>3, <1>4, <1>5, <1>6, <1>7, <1>8, <1>9, <1>10, <1>11, <1>12, <1>13, <1>14
  DEF TaskFlowNext
-----------------------------------------------------------------------------
(***************************************************************************)
(* Types, and the theorems that follow from the invariant.                 *)
(***************************************************************************)

\* One more fault is counted only below the bound.
LEMMA FaultTyped ==
  ASSUME NEW kind, Fault(kind), faults \in 0..MaxFaults
  PROVE  faults' \in 0..MaxFaults
  BY TaskFlowAssumption DEF Fault

\* Leaving a stream.
LEMMA LeaveTyped ==
  ASSUME FlowInv, NEW n \in Nodes, NEW state \in {"down", "offline"}, LeaveStream(n, state),
         faults' \in 0..MaxFaults
  PROVE  FlowOwnTypeOK'
<1>1. wire' \in [Conns -> Seq(Tasks)]
  BY DEF LeaveStream, FlowInv, FlowOwnTypeOK
<1> QED
  BY <1>1 DEF LeaveStream, history, FlowInv, FlowOwnTypeOK, WorkerStates

\* Every step keeps the types.
LEMMA FlowTypeStep == FlowInv /\ [TaskFlowNext]_flowVars => FlowOwnTypeOK'
<1> SUFFICES ASSUME FlowInv, [TaskFlowNext]_flowVars PROVE FlowOwnTypeOK'
  OBVIOUS
<1>0. FlowOwnTypeOK
  BY DEF FlowInv
<1>1. ASSUME UNCHANGED <<workerVars, faults, started, produced>>, accepted' \in Seq(Tasks)
      PROVE  FlowOwnTypeOK'
  BY <1>0, <1>1 DEF FlowOwnTypeOK, workerVars
<1>2. ASSUME NEW t \in Tasks, NEW n \in Nodes, ClientCall(t, n) PROVE FlowOwnTypeOK'
  <2>1. accepted' \in Seq(Tasks)
    <3>1. accepted' = accepted \/ accepted' = Append(accepted, t)
      BY <1>2 DEF ClientCall
    <3>2. accepted \in Seq(Tasks)
      BY <1>0 DEF FlowOwnTypeOK
    <3>3. Append(accepted, t) \in Seq(Tasks)
      BY <3>2
    <3> QED
      BY <3>1, <3>2, <3>3
  <2> QED
    BY <1>1, <1>2, <2>1 DEF ClientCall
<1>3. ASSUME NEW t \in Tasks, WaiterStep(t) PROVE FlowOwnTypeOK'
  BY <1>0, <1>1, <1>3 DEF WaiterStep, history, FlowOwnTypeOK
<1>4. ASSUME NEW c \in Conns, Idle(c) \/ NoticeGone(c) PROVE FlowOwnTypeOK'
  BY <1>0, <1>1, <1>4 DEF Idle, NoticeGone, history, FlowOwnTypeOK
<1>5. CASE PingAll
  BY <1>0, <1>1, <1>5 DEF PingAll, history, FlowOwnTypeOK
<1>6. ASSUME NEW c \in Conns, Send(c) PROVE FlowOwnTypeOK'
  <2>1. wire[c] \in Seq(Tasks)
    BY <1>0 DEF FlowOwnTypeOK
  <2>2. wire' \in [Conns -> Seq(Tasks)]
    <3>1. CASE c \in up /\ Head(buf[c]) \in Tasks
      <4>1. Append(wire[c], Head(buf[c])) \in Seq(Tasks)
        BY <2>1, <3>1
      <4> QED
        BY <1>0, <1>6, <3>1, <4>1 DEF Send, FlowOwnTypeOK
    <3>2. CASE ~(c \in up /\ Head(buf[c]) \in Tasks)
      BY <1>0, <1>6, <3>2 DEF Send, FlowOwnTypeOK
    <3> QED
      BY <3>1, <3>2
  <2> QED
    BY <1>0, <1>6, <2>2 DEF Send, history, FlowOwnTypeOK
<1>7. ASSUME NEW r \in posts, Deliver(r) PROVE FlowOwnTypeOK'
  BY <1>0, <1>7 DEF Deliver, history, FlowOwnTypeOK
<1>8. CASE MasterRestart
  BY <1>0, <1>8, FaultTyped DEF MasterRestart, history, FlowOwnTypeOK
<1>9. ASSUME NEW n \in Nodes, NEW c \in Conns, OpenStream(n, c) PROVE FlowOwnTypeOK'
  BY <1>0, <1>9 DEF OpenStream, history, FlowOwnTypeOK, WorkerStates
<1>10. ASSUME NEW n \in Nodes, NEW o \in Outcomes, ExecDone(n, o) PROVE FlowOwnTypeOK'
  <2>1. wtask[n] \in Tasks
    BY <1>10 DEF ExecDone, FlowInv, Workers, AtWork
  <2>2. ResultOf(n, o) \in TaskResults
    BY <2>1 DEF ResultOf, TaskResults
  <2> QED
    BY <1>0, <1>10, <2>2 DEF ExecDone, FlowOwnTypeOK, WorkerStates
<1>11. ASSUME NEW n \in Nodes, Read(n) PROVE FlowOwnTypeOK'
  <2>1. /\ wconn[n] \in Conns /\ wire[wconn[n]] \in Seq(Tasks) /\ wire[wconn[n]] # <<>>
        /\ started \in Seq(Tasks)
    BY <1>0, <1>11 DEF Read, FlowInv, FlowOwnTypeOK, Workers, AtWork
  <2>2. Head(wire[wconn[n]]) \in Tasks /\ Tail(wire[wconn[n]]) \in Seq(Tasks)
    BY <2>1
  <2>3. started' \in Seq(Tasks)
    BY <1>11, <2>1, <2>2 DEF Read
  <2> QED
    BY <1>0, <1>11, <2>2, <2>3 DEF Read, FlowOwnTypeOK, WorkerStates
<1>12. ASSUME NEW n \in Nodes, WorkerStart(n) \/ ReportReturns(n) PROVE FlowOwnTypeOK'
  <2>1. faults' \in 0..MaxFaults
    BY <1>0, <1>12, FaultTyped DEF WorkerStart, ReportReturns, FlowOwnTypeOK
  <2>2. UNCHANGED <<up, wire, wconn, posts, history>>
    BY <1>12 DEF WorkerStart, ReportReturns
  <2>3. /\ wpc' \in [Nodes -> WorkerStates]
        /\ wtask' \in [Nodes -> Tasks \cup {NoTask}]
    BY <1>0, <1>12 DEF WorkerStart, ReportReturns, FlowOwnTypeOK, WorkerStates
  <2> QED
    BY <1>0, <2>1, <2>2, <2>3 DEF history, FlowOwnTypeOK
<1>13. ASSUME NEW n \in Nodes,
              StreamEnds(n) \/ ExecRaises(n) \/ ReportRaises(n) \/ WorkerCrash(n)
       PROVE  FlowOwnTypeOK'
  <2>1. faults' \in 0..MaxFaults
    BY <1>0, <1>13, FaultTyped DEF StreamEnds, ExecRaises, ReportRaises, WorkerCrash,
       FlowOwnTypeOK
  <2> QED
    BY <1>13, <2>1, LeaveTyped DEF StreamEnds, ExecRaises, ReportRaises, WorkerCrash
<1>14. ASSUME NEW c \in Conns, LinkDrop(c) PROVE FlowOwnTypeOK'
  <2>1. faults' \in 0..MaxFaults
    BY <1>0, <1>14, FaultTyped DEF LinkDrop, FlowOwnTypeOK
  <2>2. PICK k \in 0..Len(wire[c]) : wire' = [wire EXCEPT ![c] = SubSeq(@, 1, k)]
    BY <1>14 DEF LinkDrop
  <2>3. SubSeq(wire[c], 1, k) \in Seq(Tasks)
    <3>1. wire[c] \in Seq(Tasks)
      BY <1>0 DEF FlowOwnTypeOK
    <3> QED
      BY <2>2, <3>1
  <2> QED
    BY <1>0, <1>14, <2>1, <2>2, <2>3 DEF LinkDrop, history, FlowOwnTypeOK
<1>15. ASSUME NEW r \in posts, LosePost(r) PROVE FlowOwnTypeOK'
  <2>1. faults' \in 0..MaxFaults
    BY <1>0, <1>15, FaultTyped DEF LosePost, FlowOwnTypeOK
  <2> QED
    BY <1>0, <1>15, <2>1 DEF LosePost, history, FlowOwnTypeOK
<1>16. CASE UNCHANGED flowVars
  BY <1>0, <1>1, <1>16 DEF flowVars, history, FlowOwnTypeOK
<1> QED
  BY <1>2, <1>3, <1>4, <1>5, <1>6, <1>7, <1>8, <1>9, <1>10, <1>11, <1>12, <1>13, <1>14,
     <1>15, <1>16 DEF TaskFlowNext

\* The invariant is inductive.
LEMMA FlowStepInv == FlowInv /\ [TaskFlowNext]_flowVars => FlowInv'
  BY FlowFullInv, FlowTypeStep, OnePlaceStep, WorkersStep, TruthStep DEF FlowInv

\* Every reachable state of the composition satisfies the invariant.
THEOREM FlowInvariance == TaskFlowSpec => []FlowInv
  BY FlowInitInv, FlowStepInv, PTL DEF TaskFlowSpec

\* The composition implements the router on its own: what WorkerReports
\* assumes of the workers there is what the daemons do here.
THEOREM TaskFlowImplementsRouter == TaskFlowSpec => RouterSpec
<1>1. TaskFlowInit => RouterInit
  BY DEF TaskFlowInit
<1> QED
  BY <1>1, FlowInvariance, FlowIsRouterStep, PTL DEF TaskFlowSpec, RouterSpec

\* Type correctness of master, network and daemons.
THEOREM TaskFlowTypeCorrect == TaskFlowSpec => []TaskFlowTypeOK
<1>1. FlowInv => TaskFlowTypeOK
  BY DEF FlowInv, FullInv, RouterInv, BrokerInv, RouterOwnTypeOK, RouterTypeOK, FlowOwnTypeOK,
     TaskFlowTypeOK
<1> QED
  BY <1>1, FlowInvariance, PTL

\* Whatever fails, however often, and whichever process restarts: no task is
\* started twice.
THEOREM TaskFlowAtMostOnce == TaskFlowSpec => []AtMostOnce
<1>1. FlowInv => AtMostOnce
  <2> SUFFICES ASSUME FlowInv, NEW i \in 1..Len(started), NEW j \in 1..Len(started),
                      started[i] = started[j]
               PROVE  i = j
    BY DEF AtMostOnce
  <2>1. started[i] \in Tasks /\ i \in Nat /\ j \in Nat
    BY DEF FlowInv, FlowOwnTypeOK
  <2>2. StartedAt(i, started[i]) /\ StartedAt(j, started[i])
    BY DEF StartedAt
  <2> QED
    BY <2>1, <2>2 DEF FlowInv, OnePlace
<1> QED
  BY <1>1, FlowInvariance, PTL

\* What the master keeps for a task and what it answered a waiting client is
\* what the execution of that task on its target gave, or the timeout.
THEOREM TaskFlowAnswersAreTrue == TaskFlowSpec => []AnswersAreTrue
<1>1. FlowInv => AnswersAreTrue
  <2> SUFFICES ASSUME FlowInv, NEW t \in Tasks, NEW r \in {results[t], reply[t]},
                      r \in TaskResults
               PROVE  r = [task |-> t, node |-> target[t], outcome |-> produced[t]]
    BY DEF AnswersAreTrue
  <2>1. r.task = t /\ Genuine(r)
    BY DEF FlowInv, Truth
  <2>2. r = [task |-> r.task, node |-> r.node, outcome |-> r.outcome]
    BY DEF TaskResults
  <2> QED
    BY <2>1, <2>2 DEF Genuine
<1> QED
  BY <1>1, FlowInvariance, PTL

\* The router's safety properties hold in the composition.
THEOREM TaskFlowRouterSafety ==
  TaskFlowSpec => [](/\ WaiterReachable /\ NoEntryAfterAnswer /\ AcceptedAccounted
                     /\ RegisteredQueueIsServed /\ QueuedOnce)
<1>1. FlowInv => WaiterReachable /\ NoEntryAfterAnswer /\ AcceptedAccounted
                 /\ RegisteredQueueIsServed
  BY DEF FlowInv, FullInv, RouterInv, BrokerInv
<1> QED
  BY <1>1, FlowInvariance, TaskFlowImplementsRouter, RouterQueuedOnce, PTL

-----------------------------------------------------------------------------
(***************************************************************************)
(* The refinement: every step of the composition is one step of the        *)
(* abstract service, or none.                                              *)
(***************************************************************************)

\* Whether a task was started, as Stage asks it.
LEMMA StartedMeans ==
  ASSUME FlowOwnTypeOK, NEW t
  PROVE  (\E i \in 1..Len(started) : started[i] = t) <=> HasStarted(t)
<1>1. Len(started) \in Nat
  BY DEF FlowOwnTypeOK
<1> QED
  BY <1>1 DEF HasStarted, StartedAt

\* The stages of a task.
StageByCases ==
  \A t \in Tasks :
    Stage(t) = IF call[t] = "idle" THEN "new"
               ELSE IF call[t] = "rejected" THEN "refused"
               ELSE IF produced[t] # NoOutcome THEN "ended"
               ELSE IF HasStarted(t) THEN "started" ELSE "accepted"

LEMMA StageIs == FlowInv => StageByCases
<1> SUFFICES ASSUME FlowInv, NEW t \in Tasks
             PROVE  Stage(t) = IF call[t] = "idle" THEN "new"
                               ELSE IF call[t] = "rejected" THEN "refused"
                               ELSE IF produced[t] # NoOutcome THEN "ended"
                               ELSE IF HasStarted(t) THEN "started" ELSE "accepted"
  BY DEF StageByCases
<1>1. (\E i \in 1..Len(started) : started[i] = t) <=> HasStarted(t)
  BY StartedMeans DEF FlowInv
<1>2. Accepted(t) <=> call[t] # "idle" /\ call[t] # "rejected"
  BY DEF Accepted
<1>0. ~Accepted(t) => produced[t] = NoOutcome
  BY DEF FlowInv, OnePlace, Truth
<1>3. CASE call[t] = "idle"
  BY <1>0, <1>2, <1>3 DEF Stage
<1>4. CASE call[t] = "rejected"
  BY <1>0, <1>2, <1>4 DEF Stage
<1>5. CASE Accepted(t) /\ produced[t] # NoOutcome
  BY <1>2, <1>5 DEF Stage
<1>6. CASE Accepted(t) /\ produced[t] = NoOutcome
  BY <1>1, <1>2, <1>6 DEF Stage
<1> QED
  BY <1>2, <1>3, <1>4, <1>5, <1>6

\* What TaskService's variables are in the composition.
StageMap == [t \in Tasks |-> Stage(t)]
KnownMap == [t \in Tasks |-> OutcomeIn(results[t])]
AskingSet == {t \in Tasks : call[t] \in {"waiting", "expired"}}
AnswerMap == [t \in Tasks |-> OutcomeIn(reply[t])]

\* A step that keeps a task's call among the accepted ones, starts and ends
\* nothing keeps its stage.
LEMMA StageStays ==
  ASSUME FlowInv, FlowInv', NEW t \in Tasks,
         call'[t] = call[t] \/ (Accepted(t) /\ Accepted(t)'),
         produced'[t] = produced[t], HasStarted(t)' <=> HasStarted(t)
  PROVE  Stage(t)' = Stage(t)
<1>1. StageByCases /\ StageByCases'
  <2>1. (FlowInv => StageByCases)'
    BY StageIs, PTL
  <2> QED
    BY <2>1, StageIs
<1>2. call[t] = "idle" <=> call'[t] = "idle"
  BY DEF Accepted
<1>3. call[t] = "rejected" <=> call'[t] = "rejected"
  BY DEF Accepted
<1> QED
  BY <1>1, <1>2, <1>3 DEF StageByCases

\* A step that only touches the pool, the network or the daemons.
LEMMA ServiceStutters ==
  ASSUME FlowInv, FlowInv', UNCHANGED <<target, produced, results, reply, started>>,
         \A t \in Tasks :
           \/ call'[t] = call[t]
           \/ {call[t], call'[t]} \subseteq {"waiting", "expired"}
  PROVE  UNCHANGED Service!serviceVars
<1>1. \A t \in Tasks : HasStarted(t)' <=> HasStarted(t)
  BY DEF HasStarted, StartedAt
<1>2. ASSUME NEW t \in Tasks PROVE Stage(t)' = Stage(t)
  BY <1>1, StageStays DEF Accepted
<1>3. StageMap' = StageMap
  BY <1>2 DEF StageMap
<1>4. KnownMap' = KnownMap /\ AnswerMap' = AnswerMap
  BY DEF KnownMap, AnswerMap, OutcomeIn
<1>5. AskingSet' = AskingSet
  BY DEF AskingSet
<1> QED
  BY <1>3, <1>4, <1>5 DEF Service!serviceVars, StageMap, KnownMap, AnswerMap, AskingSet

\* What a step does to the stage of one task and to no other.
LEMMA OneStage ==
  ASSUME FlowInv, FlowInv', NEW t \in Tasks, NEW new, Stage(t)' = new,
         \A u \in Tasks \ {t} :
           call'[u] = call[u] /\ produced'[u] = produced[u] /\ (HasStarted(u)' <=> HasStarted(u))
  PROVE  StageMap' = [StageMap EXCEPT ![t] = new]
<1>1. \A u \in Tasks \ {t} : Stage(u)' = Stage(u)
  BY StageStays
<1>2. StageMap' = [u \in Tasks |-> Stage(u)']
  BY DEF StageMap
<1>3. [StageMap EXCEPT ![t] = new] = [u \in Tasks |-> IF u = t THEN new ELSE Stage(u)]
  BY DEF StageMap
<1> QED
  BY <1>1, <1>2, <1>3

\* A call refused.
LEMMA RejectRefuses ==
  ASSUME FlowInv, FlowInv', NEW t \in Tasks, NEW n \in Nodes, Reject(t, n),
         UNCHANGED <<started, produced>>
  PROVE  Service!Refuse(t, n)
<1>0. RouterOwnTypeOK
  BY DEF FlowInv, FullInv, RouterInv
<1>1. /\ call[t] = "idle" /\ call'[t] = "rejected"
      /\ \A u \in Tasks \ {t} : call'[u] = call[u]
      /\ UNCHANGED <<results, reply>>
  BY <1>0 DEF Reject, RouterOwnTypeOK
<1>2. \A u \in Tasks : HasStarted(u)' <=> HasStarted(u)
  BY DEF HasStarted, StartedAt
<1>3. Stage(t) = "new" /\ Stage(t)' = "refused"
  <2>1. StageByCases /\ StageByCases'
    BY StageIs, PTL
  <2> QED
    BY <1>1, <2>1 DEF StageByCases
<1>4. StageMap' = [StageMap EXCEPT ![t] = "refused"]
  BY <1>1, <1>2, <1>3, OneStage
<1>5. AskingSet' = AskingSet
  BY <1>1 DEF AskingSet
<1>6. KnownMap' = KnownMap /\ AnswerMap' = AnswerMap
  BY <1>1 DEF KnownMap, AnswerMap, OutcomeIn
<1>7. StageMap[t] = "new"
  BY <1>3 DEF StageMap
<1> QED
  BY <1>4, <1>5, <1>6, <1>7 DEF Service!Refuse, Service!Submit, Reject, StageMap, AskingSet,
     KnownMap, AnswerMap

\* A call accepted.
LEMMA DispatchAccepts ==
  ASSUME FlowInv, FlowInv', NEW t \in Tasks, NEW n \in Nodes,
         NEW next \in {"async", "waiting"}, Dispatch(t, n, next), UNCHANGED <<started, produced>>
  PROVE  Service!Accept(t, n)
<1>0. RouterOwnTypeOK
  BY DEF FlowInv, FullInv, RouterInv
<1>1. /\ call[t] = "idle" /\ call'[t] = next
      /\ \A u \in Tasks \ {t} : call'[u] = call[u]
      /\ UNCHANGED <<results, reply>> /\ target' = [target EXCEPT ![t] = n]
  BY <1>0 DEF Dispatch, RouterOwnTypeOK
<1>2. \A u \in Tasks : HasStarted(u)' <=> HasStarted(u)
  BY DEF HasStarted, StartedAt
<1>3. Stage(t) = "new" /\ Stage(t)' = "accepted"
  <2>1. StageByCases /\ StageByCases'
    BY StageIs, PTL
  <2>2. ~HasStarted(t) /\ produced[t] = NoOutcome
    BY <1>1 DEF Accepted, FlowInv, OnePlace, Truth
  <2> QED
    BY <1>1, <1>2, <2>1, <2>2 DEF StageByCases
<1>4. StageMap' = [StageMap EXCEPT ![t] = "accepted"]
  BY <1>1, <1>2, <1>3, OneStage
<1>5. AskingSet' \in {AskingSet, AskingSet \cup {t}}
  <2>1. CASE next = "async"
    BY <1>1, <2>1 DEF AskingSet
  <2>2. CASE next = "waiting"
    BY <1>1, <2>2 DEF AskingSet
  <2> QED
    BY <2>1, <2>2
<1>6. KnownMap' = KnownMap /\ AnswerMap' = AnswerMap
  BY <1>1 DEF KnownMap, AnswerMap, OutcomeIn
<1>7. StageMap[t] = "new"
  BY <1>3 DEF StageMap
<1> QED
  BY <1>1, <1>4, <1>5, <1>6, <1>7 DEF Service!Accept, Service!Submit, StageMap, AskingSet,
     KnownMap, AnswerMap

\* A wait that ends, with what its future holds or with the timeout.
LEMMA WakeAnswers ==
  ASSUME FlowInv, FlowInv', NEW t \in Tasks, WakeResult(t) \/ WakeTimeout(t),
         UNCHANGED <<started, produced>>
  PROVE  Service!AnswerResult(t) \/ Service!AnswerTimeout(t)
<1>0. RouterOwnTypeOK
  BY DEF FlowInv, FullInv, RouterInv
<1>1. PICK r : /\ call[t] \in {"waiting", "expired"} /\ call' = [call EXCEPT ![t] = "answered"]
               /\ reply' = [reply EXCEPT ![t] = r] /\ r # NoResult
               /\ UNCHANGED <<target, results>>
               /\ \/ r = fut[t] /\ r \in TaskResults /\ call[t] = "waiting"
                  \/ r = TimeoutResult(t)
  BY RouterAssumption DEF WakeResult, WakeTimeout
<1>2. \A u \in Tasks : HasStarted(u)' <=> HasStarted(u)
  BY DEF HasStarted, StartedAt
<1>3. StageMap' = StageMap
  <2>1. ASSUME NEW u \in Tasks PROVE Stage(u)' = Stage(u)
    <3>1. call'[u] = call[u] \/ (Accepted(u) /\ Accepted(u)')
      BY <1>0, <1>1 DEF RouterOwnTypeOK, Accepted
    <3> QED
      BY <1>2, <3>1, StageStays
  <2> QED
    BY <2>1 DEF StageMap
<1>4. KnownMap' = KnownMap
  BY <1>1 DEF KnownMap, OutcomeIn
<1>5. t \in AskingSet /\ AskingSet' = AskingSet \ {t}
  BY <1>0, <1>1 DEF AskingSet, RouterOwnTypeOK
<1>6. AnswerMap' = [AnswerMap EXCEPT ![t] = r.outcome]
  <2>1. AnswerMap' = [u \in Tasks |-> IF reply'[u] = NoResult THEN NoOutcome ELSE reply'[u].outcome]
    BY DEF AnswerMap, OutcomeIn
  <2>2. [AnswerMap EXCEPT ![t] = r.outcome]
          = [u \in Tasks |-> IF u = t THEN r.outcome
                             ELSE IF reply[u] = NoResult THEN NoOutcome ELSE reply[u].outcome]
    BY DEF AnswerMap, OutcomeIn
  <2>3. reply'[t] = r /\ \A u \in Tasks \ {t} : reply'[u] = reply[u]
    BY <1>0, <1>1 DEF RouterOwnTypeOK
  <2> QED
    BY <1>1, <2>1, <2>2, <2>3
<1>7. CASE r = TimeoutResult(t)
  <2>1. r.outcome = TimeoutOutcome
    BY <1>7 DEF TimeoutResult
  <2> QED
    BY <1>1, <1>3, <1>4, <1>5, <1>6, <2>1 DEF Service!AnswerTimeout, Service!AnswerWith,
       StageMap, KnownMap, AskingSet, AnswerMap
<1>8. CASE r = fut[t] /\ r \in TaskResults /\ call[t] = "waiting"
  <2>1. Genuine(r) /\ r.task = t
    BY <1>8 DEF FlowInv, Truth
  <2>2. results[t] \in TaskResults
    BY <1>0, <1>8, ValuesDistinct DEF FlowInv, FullInv, RouterInv, WaiterReachable, RouterOwnTypeOK
  <2>3. Genuine(results[t]) /\ results[t].task = t
    BY <2>2 DEF FlowInv, Truth
  <2>4. KnownMap[t] = r.outcome
    BY <2>1, <2>2, <2>3, ValuesDistinct DEF KnownMap, OutcomeIn, Genuine
  <2>5. r.outcome # NoOutcome
    BY <1>8, TaskFlowAssumption DEF TaskResults
  <2> QED
    BY <1>1, <1>3, <1>4, <1>5, <1>6, <2>4, <2>5 DEF Service!AnswerResult, Service!AnswerWith,
       StageMap, KnownMap, AskingSet, AnswerMap
<1> QED
  BY <1>1, <1>7, <1>8

\* A daemon takes up a task.
LEMMA ReadStarts ==
  ASSUME FlowInv, FlowInv', NEW n \in Nodes, Read(n)
  PROVE  \E t \in Tasks : Service!Start(t)
<1>0. PICK q, t : q = wconn[n] /\ t = Head(wire[q])
  OBVIOUS
<1>1. /\ q \in Conns /\ wire[q] \in Seq(Tasks) /\ wire[q] # <<>> /\ started \in Seq(Tasks)
  BY <1>0 DEF Read, FlowInv, FlowOwnTypeOK, Workers, AtWork
<1>2. t \in Tasks /\ WireAt(q, 1, t)
  BY <1>0, <1>1 DEF WireAt
<1>3. Accepted(t) /\ ~HasStarted(t) /\ produced[t] = NoOutcome
  BY <1>1, <1>2 DEF FlowInv, OnePlace, Truth
<1>4. started' = Append(started, t) /\ UNCHANGED <<call, target, results, reply, produced>>
  BY <1>0 DEF Read, vars, routerVars
<1>5. HasStarted(t)' /\ \A u \in Tasks \ {t} : HasStarted(u)' <=> HasStarted(u)
  <2>1. /\ Len(started) \in Nat /\ Len(started') = Len(started) + 1
        /\ started'[Len(started) + 1] = t
        /\ \A i \in 1..Len(started) : started'[i] = started[i]
    BY <1>1, <1>2, <1>4
  <2>2. PICK k \in Nat : k = Len(started) + 1
    BY <2>1
  <2>3. StartedAt(k, t)'
    BY <2>1, <2>2 DEF StartedAt
  <2>4. \A u \in Tasks \ {t} : \A i \in Nat : StartedAt(i, u)' <=> StartedAt(i, u)
    BY <2>1 DEF StartedAt
  <2> QED
    BY <2>3, <2>4 DEF HasStarted
<1>6. Stage(t) = "accepted" /\ Stage(t)' = "started"
  <2>1. StageByCases /\ StageByCases'
    BY StageIs, PTL
  <2> QED
    BY <1>2, <1>3, <1>4, <1>5, <2>1 DEF StageByCases, Accepted
<1>7. StageMap' = [StageMap EXCEPT ![t] = "started"]
  BY <1>2, <1>4, <1>5, <1>6, OneStage
<1>8. KnownMap' = KnownMap /\ AnswerMap' = AnswerMap /\ AskingSet' = AskingSet
  BY <1>4 DEF KnownMap, AnswerMap, AskingSet, OutcomeIn
<1>9. StageMap[t] = "accepted"
  BY <1>2, <1>6 DEF StageMap
<1>10. Service!Start(t)
  BY <1>4, <1>7, <1>8, <1>9 DEF Service!Start, StageMap, KnownMap, AnswerMap, AskingSet
<1> QED
  BY <1>2, <1>10

\* An execution gives its outcome.
LEMMA ExecDoneEnds ==
  ASSUME FlowInv, FlowInv', NEW n \in Nodes, NEW o \in Outcomes, ExecDone(n, o)
  PROVE  \E t \in Tasks : Service!End(t, o)
<1>0. PICK t : t = wtask[n]
  OBVIOUS
<1>1. /\ t \in Tasks /\ HasStarted(t) /\ produced[t] = NoOutcome
      /\ produced' = [produced EXCEPT ![t] = o] /\ o # NoOutcome
      /\ UNCHANGED <<call, target, started, results, reply>>
      /\ produced'[t] = o /\ \A u \in Tasks \ {t} : produced'[u] = produced[u]
  BY <1>0, TaskFlowAssumption DEF ExecDone, vars, routerVars, FlowInv, FlowOwnTypeOK,
     Workers, AtWork
<1>2. \A u \in Tasks : HasStarted(u)' <=> HasStarted(u)
  BY <1>1 DEF HasStarted, StartedAt
<1>3. Stage(t) = "started" /\ Stage(t)' = "ended"
  <2>1. StageByCases /\ StageByCases'
    BY StageIs, PTL
  <2>2. Accepted(t)
    BY <1>1 DEF FlowInv, OnePlace
  <2> QED
    BY <1>1, <1>2, <2>1, <2>2 DEF StageByCases, Accepted
<1>4. StageMap' = [StageMap EXCEPT ![t] = "ended"]
  BY <1>1, <1>2, <1>3, OneStage
<1>5. KnownMap' = KnownMap /\ AnswerMap' = AnswerMap /\ AskingSet' = AskingSet
  BY <1>1 DEF KnownMap, AnswerMap, AskingSet, OutcomeIn
<1>6. StageMap[t] = "started"
  BY <1>1, <1>3 DEF StageMap
<1>7. Service!End(t, o)
  BY <1>1, <1>4, <1>5, <1>6 DEF Service!End, StageMap, KnownMap, AnswerMap, AskingSet
<1> QED
  BY <1>1, <1>7

\* The master learns a result.
LEMMA DeliverLearns ==
  ASSUME FlowInv, FlowInv', NEW r \in posts, Deliver(r)
  PROVE  \E t \in Tasks : Service!Learn(t)
<1>0. PICK t : t = r.task
  OBVIOUS
<1>1. /\ r \in TaskResults /\ t \in Tasks /\ Genuine(r) /\ r.outcome \in Outcomes
  BY <1>0 DEF FlowInv, FlowOwnTypeOK, TaskResults, Truth
<1>2. /\ UNCHANGED <<call, target, started, produced, reply>>
      /\ results'[t] = r /\ \A u \in Tasks \ {t} : results'[u] = results[u]
  BY <1>0, <1>1 DEF Deliver, SubmitResult, Store, history, FlowInv, FullInv, RouterInv,
     RouterOwnTypeOK
<1>3. \A u \in Tasks : HasStarted(u)' <=> HasStarted(u)
  BY <1>2 DEF HasStarted, StartedAt
<1>4. StageMap' = StageMap
  <2>1. \A u \in Tasks : Stage(u)' = Stage(u)
    BY <1>2, <1>3, StageStays
  <2> QED
    BY <2>1 DEF StageMap
<1>5. produced[t] = r.outcome /\ produced[t] # NoOutcome
  BY <1>0, <1>1, TaskFlowAssumption DEF Genuine
<1>6. StageMap[t] = "ended"
  <2>1. StageByCases
    BY StageIs
  <2>2. Accepted(t)
    BY <1>0, <1>1 DEF FlowInv, OnePlace, Genuine
  <2> QED
    BY <1>1, <1>5, <2>1, <2>2 DEF StageByCases, StageMap, Accepted
<1>7. KnownMap' = [KnownMap EXCEPT ![t] = produced[t]]
  <2>1. KnownMap' = [u \in Tasks |-> IF results'[u] = NoResult THEN NoOutcome ELSE results'[u].outcome]
    BY DEF KnownMap, OutcomeIn
  <2>2. [KnownMap EXCEPT ![t] = produced[t]]
          = [u \in Tasks |-> IF u = t THEN produced[t]
                             ELSE IF results[u] = NoResult THEN NoOutcome ELSE results[u].outcome]
    BY DEF KnownMap, OutcomeIn
  <2> QED
    BY <1>1, <1>2, <1>5, <2>1, <2>2, ValuesDistinct
<1>8. AnswerMap' = AnswerMap /\ AskingSet' = AskingSet
  BY <1>2 DEF AnswerMap, AskingSet, OutcomeIn
<1>9. Service!Learn(t)
  BY <1>2, <1>4, <1>6, <1>7, <1>8 DEF Service!Learn, StageMap, KnownMap, AnswerMap, AskingSet
<1> QED
  BY <1>1, <1>9

\* A new master has forgotten what it knew and whom it had to answer.
LEMMA RestartForgets ==
  ASSUME FlowInv, FlowInv', MasterRestart
  PROVE  Service!Forget
<1>0. RouterOwnTypeOK
  BY DEF FlowInv, FullInv, RouterInv
<1>1. /\ UNCHANGED <<target, started, produced, reply>>
      /\ \A t \in Tasks :
           /\ results'[t] = NoResult /\ call'[t] \notin {"waiting", "expired"}
           /\ call'[t] = call[t] \/ (Accepted(t) /\ Accepted(t)')
  BY <1>0 DEF MasterRestart, Restart, history, Accepted
<1>2. \A u \in Tasks : HasStarted(u)' <=> HasStarted(u)
  BY <1>1 DEF HasStarted, StartedAt
<1>3. StageMap' = StageMap
  <2>1. \A u \in Tasks : Stage(u)' = Stage(u)
    BY <1>1, <1>2, StageStays
  <2> QED
    BY <2>1 DEF StageMap
<1>4. KnownMap' = [t \in Tasks |-> NoOutcome] /\ AskingSet' = {} /\ AnswerMap' = AnswerMap
  BY <1>1 DEF KnownMap, AskingSet, AnswerMap, OutcomeIn
<1> QED
  BY <1>1, <1>3, <1>4 DEF Service!Forget, StageMap, KnownMap, AnswerMap, AskingSet

\* Every step is one of the service's, or none.
LEMMA FlowStepServes ==
  FlowInv /\ FlowInv' /\ [TaskFlowNext]_flowVars => [Service!ServiceNext]_Service!serviceVars
<1> SUFFICES ASSUME FlowInv, FlowInv', [TaskFlowNext]_flowVars
             PROVE  Service!ServiceNext \/ UNCHANGED Service!serviceVars
  OBVIOUS
<1>0. RouterOwnTypeOK
  BY DEF FlowInv, FullInv, RouterInv
<1>1. ASSUME UNCHANGED <<target, produced, results, reply, started, call>>
      PROVE  UNCHANGED Service!serviceVars
  BY <1>1, ServiceStutters
<1>2. ASSUME NEW t \in Tasks, NEW n \in Nodes, ClientCall(t, n) PROVE Service!ServiceNext
  <2>1. CASE Reject(t, n)
    BY <1>2, <2>1, RejectRefuses DEF ClientCall, Service!ServiceNext
  <2>2. CASE DispatchAsync(t, n) \/ DispatchSync(t, n)
    BY <1>2, <2>2, DispatchAccepts DEF ClientCall, DispatchAsync, DispatchSync,
       Service!ServiceNext
  <2> QED
    BY <1>2, <2>1, <2>2 DEF ClientCall
<1>3. ASSUME NEW t \in Tasks, WaiterStep(t)
      PROVE  Service!ServiceNext \/ UNCHANGED Service!serviceVars
  <2>1. CASE Expire(t)
    <3>1. /\ UNCHANGED <<target, produced, results, reply, started>>
          /\ \A u \in Tasks : call'[u] = call[u]
                              \/ {call[u], call'[u]} \subseteq {"waiting", "expired"}
      BY <1>0, <1>3, <2>1 DEF WaiterStep, Expire, history, RouterOwnTypeOK
    <3> QED
      BY <3>1, ServiceStutters
  <2>2. CASE WakeResult(t) \/ WakeTimeout(t)
    BY <1>3, <2>2, WakeAnswers DEF WaiterStep, history, Service!ServiceNext
  <2> QED
    BY <1>3, <2>1, <2>2 DEF WaiterStep
<1>4. ASSUME NEW c \in Conns, Send(c) \/ Idle(c) \/ NoticeGone(c) \/ LinkDrop(c)
      PROVE  UNCHANGED Service!serviceVars
  BY <1>1, <1>4 DEF Send, Idle, NoticeGone, LinkDrop, vars, routerVars, history
<1>5. CASE PingAll
  BY <1>1, <1>5 DEF PingAll, routerVars, history
<1>6. CASE MasterRestart
  BY <1>6, RestartForgets DEF Service!ServiceNext
<1>7. ASSUME NEW n \in Nodes, NEW c \in Conns, OpenStream(n, c)
      PROVE  UNCHANGED Service!serviceVars
  BY <1>1, <1>7 DEF OpenStream, routerVars, history
<1>8. ASSUME NEW n \in Nodes, NEW o \in Outcomes, ExecDone(n, o) PROVE Service!ServiceNext
  BY <1>8, ExecDoneEnds DEF Service!ServiceNext
<1>9. ASSUME NEW n \in Nodes, Read(n) PROVE Service!ServiceNext
  BY <1>9, ReadStarts DEF Service!ServiceNext
<1>10. ASSUME NEW n \in Nodes,
              \/ WorkerStart(n) \/ ReportReturns(n)
              \/ StreamEnds(n) \/ ExecRaises(n) \/ ReportRaises(n) \/ WorkerCrash(n)
       PROVE  UNCHANGED Service!serviceVars
  BY <1>1, <1>10 DEF WorkerStart, ReportReturns, StreamEnds, ExecRaises, ReportRaises,
     WorkerCrash, LeaveStream, vars, routerVars, history
<1>11. ASSUME NEW r \in posts, Deliver(r) PROVE Service!ServiceNext
  BY <1>11, DeliverLearns DEF Service!ServiceNext
<1>12. ASSUME NEW r \in posts, LosePost(r) PROVE UNCHANGED Service!serviceVars
  BY <1>1, <1>12 DEF LosePost, vars, routerVars, history
<1>13. CASE UNCHANGED flowVars
  BY <1>1, <1>13 DEF flowVars, vars, routerVars, history
<1> QED
  BY <1>2, <1>3, <1>4, <1>5, <1>6, <1>7, <1>8, <1>9, <1>10, <1>11, <1>12, <1>13
  DEF TaskFlowNext

\* The composition implements the abstract service, for any number of tasks,
\* nodes, streams and faults: a task goes through its stages once, a client is
\* answered once, with the outcome or the timeout, and an outcome that can be
\* fetched never changes.
THEOREM TaskFlowImplementsService == TaskFlowSpec => ImplementsService
<1>1. TaskFlowInit => Service!ServiceInit
  <2> SUFFICES ASSUME TaskFlowInit PROVE Service!ServiceInit
    OBVIOUS
  <2>1. /\ \A t \in Tasks : call[t] = "idle" /\ results[t] = NoResult /\ reply[t] = NoResult
        /\ target = [t \in Tasks |-> NoNode] /\ produced = [t \in Tasks |-> NoOutcome]
    BY DEF TaskFlowInit, RouterInit
  <2>2. StageByCases
    BY FlowInitInv, StageIs
  <2>3. StageMap = [t \in Tasks |-> "new"]
    BY <2>1, <2>2 DEF StageByCases, StageMap
  <2>4. /\ KnownMap = [t \in Tasks |-> NoOutcome] /\ AnswerMap = [t \in Tasks |-> NoOutcome]
        /\ AskingSet = {}
    BY <2>1 DEF KnownMap, AnswerMap, AskingSet, OutcomeIn
  <2> QED
    BY <2>1, <2>3, <2>4 DEF Service!ServiceInit, StageMap, KnownMap, AnswerMap, AskingSet
<1> QED
  BY <1>1, FlowInvariance, FlowStepServes, PTL DEF TaskFlowSpec, ImplementsService,
     Service!ServiceSpec
-----------------------------------------------------------------------------
(***************************************************************************)
(* The order of starts.  A task is ahead of another one of the same node   *)
(* when it is started, or nearer to it on the same stream; only the stream *)
(* its daemon reads brings a task to a node.  No step but the acceptance   *)
(* of a task puts a task ahead of another, so that they stay in the order  *)
(* in which they were accepted.                                            *)
(***************************************************************************)

AcceptedAt(i, t) == i \in 1..Len(accepted) /\ accepted[i] = t

Earlier(t, u) == \A i, j \in Nat : AcceptedAt(i, t) /\ AcceptedAt(j, u) => i < j

Ahead(t, u) ==
  /\ target[t] = target[u]
  /\ \/ \E i, j \in Nat : StartedAt(i, t) /\ StartedAt(j, u) /\ i < j
     \/ /\ HasStarted(t)
        /\ \E n \in Nodes, c \in Conns : \E j \in Nat :
             n = target[t] /\ c = wconn[n] /\ (WireAt(c, j, u) \/ At(c, j, u))
     \/ \E c \in Conns : \E i, j \in Nat : WireAt(c, i, t) /\ At(c, j, u)
     \/ \E c \in Conns : \E i, j \in Nat : WireAt(c, i, t) /\ WireAt(c, j, u) /\ i < j
     \/ \E c \in Conns : \E i, j \in Nat : At(c, i, t) /\ At(c, j, u) /\ i < j

OrderInv ==
  /\ \A t \in Tasks : Accepted(t) => \E i \in Nat : AcceptedAt(i, t)
  /\ \A t \in Tasks : \A i \in Nat : AcceptedAt(i, t) => Accepted(t)
  /\ \A t \in Tasks : \A i, j \in Nat : AcceptedAt(i, t) /\ AcceptedAt(j, t) => i = j
  /\ \A t, u \in Tasks : Ahead(t, u) => Earlier(t, u)

\* A step that accepts nothing and puts no task ahead of another.
LEMMA NothingOvertakes ==
  ASSUME OrderInv, accepted' = accepted, \A t \in Tasks : Accepted(t)' <=> Accepted(t),
         \A t, u \in Tasks : Ahead(t, u)' => Ahead(t, u)
  PROVE  OrderInv'
<1>1. \A t \in Tasks : \A i \in Nat : AcceptedAt(i, t)' <=> AcceptedAt(i, t)
  BY DEF AcceptedAt
<1>2. \A t, u \in Tasks : Earlier(t, u) => Earlier(t, u)'
  BY <1>1 DEF Earlier
<1>3. \A t, u \in Tasks : Ahead(t, u)' => Earlier(t, u)'
  BY <1>2 DEF OrderInv
<1> QED
  BY <1>1, <1>3 DEF OrderInv

\* A step that moves no task forward.
LEMMA NothingForward ==
  ASSUME FlowInv, OrderInv, AcceptedStays, UNCHANGED <<accepted, started>>,
         \A t \in Tasks : Accepted(t)' => Accepted(t),
         \A c \in Conns, t \in Tasks : \A i \in Nat :
           /\ WireAt(c, i, t)' => WireAt(c, i, t)
           /\ At(c, i, t)' => At(c, i, t),
         \A n \in Nodes :
           \/ wconn'[n] = wconn[n] \/ wconn'[n] \notin Conns
           \/ \A t \in Tasks : \A i \in Nat : ~WireAt(wconn[n], i, t)' /\ ~At(wconn[n], i, t)'
  PROVE  OrderInv'
<1>1. \A t \in Tasks : \A i \in Nat : StartedAt(i, t)' <=> StartedAt(i, t)
  BY DEF StartedAt
<1>2. \A t \in Tasks : HasStarted(t)' <=> HasStarted(t)
  BY <1>1 DEF HasStarted
<1>3. \A t \in Tasks : HasStarted(t) => Accepted(t)
  BY DEF FlowInv, OnePlace
<1>4. \A t \in Tasks, c \in Conns : \A i \in Nat :
        WireAt(c, i, t) \/ At(c, i, t) => Accepted(t)
  BY DEF FlowInv, FullInv, QueuedInv, OnePlace
<1>5. \A t \in Tasks : Accepted(t) => target'[t] = target[t]
  BY DEF AcceptedStays
<1>6. ASSUME NEW t \in Tasks, NEW u \in Tasks, Ahead(t, u)' PROVE Ahead(t, u)
  <2>1. target'[t] = target[t] /\ target'[u] = target[u]
    BY <1>1, <1>2, <1>3, <1>4, <1>5, <1>6 DEF Ahead, HasStarted
  <2>2. CASE \E i, j \in Nat : StartedAt(i, t)' /\ StartedAt(j, u)' /\ i < j
    BY <1>1, <1>6, <2>1, <2>2 DEF Ahead
  <2>3. CASE /\ HasStarted(t)'
             /\ \E n \in Nodes, c \in Conns : \E j \in Nat :
                  n = target'[t] /\ c = wconn'[n] /\ (WireAt(c, j, u)' \/ At(c, j, u)')
    <3>1. PICK n \in Nodes, c \in Conns, j \in Nat :
            n = target'[t] /\ c = wconn'[n] /\ (WireAt(c, j, u)' \/ At(c, j, u)')
      BY <2>3
    <3>2. wconn[n] = c
      BY <3>1 DEF WireAt, At
    <3>3. WireAt(c, j, u) \/ At(c, j, u)
      BY <3>1
    <3> QED
      BY <1>2, <1>6, <2>1, <2>3, <3>1, <3>2, <3>3 DEF Ahead
  <2>4. CASE \E c \in Conns : \E i, j \in Nat : WireAt(c, i, t)' /\ At(c, j, u)'
    BY <1>6, <2>1, <2>4 DEF Ahead
  <2>5. CASE \E c \in Conns : \E i, j \in Nat : WireAt(c, i, t)' /\ WireAt(c, j, u)' /\ i < j
    BY <1>6, <2>1, <2>5 DEF Ahead
  <2>6. CASE \E c \in Conns : \E i, j \in Nat : At(c, i, t)' /\ At(c, j, u)' /\ i < j
    BY <1>6, <2>1, <2>6 DEF Ahead
  <2> QED
    BY <1>6, <2>2, <2>3, <2>4, <2>5, <2>6 DEF Ahead
<1> QED
  BY <1>6, NothingOvertakes DEF AcceptedStays

\* The generator moves a task from the front of its queue to the end of its
\* connection.
LEMMA SendOrder ==
  ASSUME FlowInv, OrderInv, NEW c \in Conns, Send(c)
  PROVE  OrderInv'
<1>0. PICK w : w = Head(buf[c])
  OBVIOUS
<1>1. /\ UNCHANGED <<target, call, wconn, accepted, started>> /\ Take(c)
      /\ buf[c] \in Seq(Events) /\ buf[c] # <<>> /\ wire \in [Conns -> Seq(Tasks)]
  BY DEF Send, Take, routerVars, history, FlowInv, FullInv, FlowOwnTypeOK, RouterInv, BrokerInv,
     BrokerTypeOK
<1>2. /\ \A t : \A i \in Nat : StartedAt(i, t)' <=> StartedAt(i, t)
      /\ \A t : HasStarted(t)' <=> HasStarted(t)
  BY <1>1 DEF StartedAt, HasStarted
<1>3. At(c, 1, w)
  BY <1>0, <1>1 DEF At
<1>4. ASSUME NEW t, NEW d \in Conns, NEW i \in Nat, At(d, i, t)'
      PROVE  i >= 1 /\ IF d = c THEN At(d, i + 1, t) ELSE At(d, i, t)
  <2>1. IF d = c THEN At(c, i + 1, t) ELSE At(d, i, t)
    BY <1>1, <1>4, TakeMovesUp DEF FlowInv, FullInv, RouterInv
  <2> QED
    BY <1>4, <2>1 DEF At
<1>5. ASSUME NEW t, NEW d \in Conns, NEW i \in Nat, WireAt(d, i, t)'
      PROVE  WireAt(d, i, t) \/ (d = c /\ t = w /\ \A j \in Nat : \A u : WireAt(c, j, u) => j < i)
  <2>1. CASE wire' = wire
    BY <1>5, <2>1 DEF WireAt
  <2>2. CASE w \in Tasks /\ wire' = [wire EXCEPT ![c] = Append(wire[c], w)]
    <3>1. /\ Len(wire[c]) \in Nat /\ Len(wire'[c]) = Len(wire[c]) + 1
          /\ wire'[c][Len(wire[c]) + 1] = w
          /\ \A m \in 1..Len(wire[c]) : wire'[c][m] = wire[c][m]
          /\ \A e \in Conns \ {c} : wire'[e] = wire[e]
      BY <1>1, <2>2
    <3>2. CASE d = c /\ i = Len(wire[c]) + 1
      BY <1>5, <3>1, <3>2 DEF WireAt
    <3>3. CASE ~(d = c /\ i = Len(wire[c]) + 1)
      BY <1>5, <3>1, <3>3 DEF WireAt
    <3> QED
      BY <3>2, <3>3
  <2> QED
    BY <1>0, <1>1, <2>1, <2>2 DEF Send
<1>6. ASSUME NEW t \in Tasks, NEW u \in Tasks, Ahead(t, u)' PROVE Ahead(t, u)
  <2>1. target[t] = target[u] /\ target' = target
    BY <1>1, <1>6 DEF Ahead
  <2>2. CASE \E i, j \in Nat : StartedAt(i, t)' /\ StartedAt(j, u)' /\ i < j
    BY <1>2, <2>1, <2>2 DEF Ahead
  <2>3. CASE /\ HasStarted(t)'
             /\ \E n \in Nodes, d \in Conns : \E j \in Nat :
                  n = target'[t] /\ d = wconn'[n] /\ (WireAt(d, j, u)' \/ At(d, j, u)')
    <3>1. PICK n \in Nodes, d \in Conns, j \in Nat :
            n = target'[t] /\ d = wconn'[n] /\ (WireAt(d, j, u)' \/ At(d, j, u)')
      BY <2>3
    <3>2. \E k \in Nat : WireAt(d, k, u) \/ At(d, k, u)
      <4>1. CASE WireAt(d, j, u)'
        BY <1>3, <1>5, <3>1, <4>1
      <4>2. CASE At(d, j, u)'
        BY <1>4, <3>1, <4>2
      <4> QED
        BY <3>1, <4>1, <4>2
    <3> QED
      BY <1>1, <1>2, <2>1, <2>3, <3>1, <3>2 DEF Ahead
  <2>4. CASE \E d \in Conns : \E i, j \in Nat : WireAt(d, i, t)' /\ At(d, j, u)'
    <3>1. PICK d \in Conns, i \in Nat, j \in Nat : WireAt(d, i, t)' /\ At(d, j, u)'
      BY <2>4
    <3>2. PICK k \in Nat : At(d, k, u) /\ (d = c => k > 1)
      BY <1>4, <3>1
    <3>3. CASE WireAt(d, i, t)
      BY <2>1, <3>2, <3>3 DEF Ahead
    <3>4. CASE d = c /\ t = w
      BY <1>3, <2>1, <3>2, <3>4 DEF Ahead
    <3> QED
      BY <1>5, <3>1, <3>3, <3>4
  <2>5. CASE \E d \in Conns : \E i, j \in Nat : WireAt(d, i, t)' /\ WireAt(d, j, u)' /\ i < j
    <3>1. PICK d \in Conns, i \in Nat, j \in Nat : WireAt(d, i, t)' /\ WireAt(d, j, u)' /\ i < j
      BY <2>5
    <3>2. CASE WireAt(d, i, t) /\ WireAt(d, j, u)
      BY <2>1, <3>1, <3>2 DEF Ahead
    <3>3. CASE WireAt(d, i, t) /\ d = c /\ u = w
      BY <1>3, <2>1, <3>3 DEF Ahead
    <3>4. CASE d = c /\ t = w /\ (\A k \in Nat : \A v : WireAt(c, k, v) => k < i) /\ ~WireAt(d, i, t)
      <4>1. ~WireAt(d, j, u)
        BY <3>1, <3>4
      <4>2. u = w
        BY <1>5, <3>1, <4>1
      <4>3. i = j
        <5>1. OnePlace'
          BY OnePlaceStep DEF TaskFlowNext
        <5> QED
          BY <3>1, <3>4, <4>2, <5>1 DEF OnePlace
      <4> QED
        BY <3>1, <4>3
    <3> QED
      BY <1>5, <3>1, <3>2, <3>3, <3>4
  <2>6. CASE \E d \in Conns : \E i, j \in Nat : At(d, i, t)' /\ At(d, j, u)' /\ i < j
    <3>1. PICK d \in Conns, i \in Nat, j \in Nat : At(d, i, t)' /\ At(d, j, u)' /\ i < j
      BY <2>6
    <3>2. \E k, m \in Nat : At(d, k, t) /\ At(d, m, u) /\ k < m
      BY <1>4, <3>1
    <3> QED
      BY <2>1, <3>2 DEF Ahead
  <2> QED
    BY <1>6, <2>2, <2>3, <2>4, <2>5, <2>6 DEF Ahead
<1> QED
  BY <1>1, <1>6, NothingOvertakes DEF Accepted

\* The daemon takes a task from the front of its connection; those it started
\* before were ahead of that task already.
LEMMA ReadOrder ==
  ASSUME FlowInv, OrderInv, NEW n \in Nodes, Read(n)
  PROVE  OrderInv'
<1>0. PICK q, w : q = wconn[n] /\ w = Head(wire[q])
  OBVIOUS
<1>1. /\ q \in Conns /\ wire[q] \in Seq(Tasks) /\ wire[q] # <<>>
      /\ wire \in [Conns -> Seq(Tasks)] /\ started \in Seq(Tasks)
  BY <1>0 DEF Read, FlowInv, FlowOwnTypeOK, Workers, AtWork
<1>2. /\ UNCHANGED <<target, call, buf, wconn, accepted>>
      /\ wire' = [wire EXCEPT ![q] = Tail(wire[q])] /\ started' = Append(started, w)
  BY <1>0, <1>1 DEF Read, vars, brokerVars, routerVars
<1>3. w \in Tasks /\ WireAt(q, 1, w) /\ target[w] = n
  <2>1. w \in Tasks /\ WireAt(q, 1, w)
    BY <1>0, <1>1 DEF WireAt
  <2>2. owner[q] = n
    BY <1>0, <1>1, BrokerAssumption DEF FlowInv, Workers, AtWork
  <2> QED
    BY <1>1, <2>1, <2>2 DEF FlowInv, OnePlace
<1>4. ASSUME NEW t, NEW i \in Nat, StartedAt(i, t)'
      PROVE  StartedAt(i, t) \/ (t = w /\ \A j \in Nat : \A u : StartedAt(j, u)' => j <= i)
  <2>1. /\ Len(started) \in Nat /\ Len(started') = Len(started) + 1
        /\ started'[Len(started) + 1] = w
        /\ \A m \in 1..Len(started) : started'[m] = started[m]
    BY <1>1, <1>2, <1>3
  <2>2. CASE i = Len(started) + 1
    BY <1>4, <2>1, <2>2 DEF StartedAt
  <2>3. CASE i # Len(started) + 1
    BY <1>4, <2>1, <2>3 DEF StartedAt
  <2> QED
    BY <2>2, <2>3
<1>5. \A t : HasStarted(t)' => HasStarted(t) \/ t = w
  BY <1>4 DEF HasStarted
<1>6. ASSUME NEW t, NEW d \in Conns, NEW i \in Nat, WireAt(d, i, t)'
      PROVE  i >= 1 /\ IF d = q THEN WireAt(d, i + 1, t) ELSE WireAt(d, i, t)
  <2>1. CASE d = q
    <3>1. /\ wire'[q] = Tail(wire[q]) /\ Len(wire'[q]) = Len(wire[q]) - 1
          /\ \A m \in 1..Len(wire'[q]) : wire'[q][m] = wire[q][m + 1]
          /\ Len(wire[q]) \in Nat
      BY <1>1, <1>2
    <3> QED
      BY <1>6, <2>1, <3>1 DEF WireAt
  <2>2. CASE d # q
    BY <1>1, <1>2, <1>6, <2>2 DEF WireAt
  <2> QED
    BY <2>1, <2>2
<1>7. \A t : \A d \in Conns, i \in Nat : At(d, i, t)' <=> At(d, i, t)
  BY <1>2 DEF At
<1>8. ASSUME NEW t \in Tasks, NEW u \in Tasks, Ahead(t, u)' PROVE Ahead(t, u)
  <2>1. target[t] = target[u] /\ target' = target
    BY <1>2, <1>8 DEF Ahead
  <2>2. CASE \E i, j \in Nat : StartedAt(i, t)' /\ StartedAt(j, u)' /\ i < j
    <3>1. PICK i \in Nat, j \in Nat : StartedAt(i, t)' /\ StartedAt(j, u)' /\ i < j
      BY <2>2
    <3>2. StartedAt(i, t)
      BY <1>4, <3>1
    <3>3. CASE StartedAt(j, u)
      BY <2>1, <3>1, <3>2, <3>3 DEF Ahead
    <3>4. CASE u = w
      BY <1>0, <1>1, <1>3, <2>1, <3>2, <3>4 DEF Ahead, HasStarted
    <3> QED
      BY <1>4, <3>1, <3>3, <3>4
  <2>3. CASE /\ HasStarted(t)'
             /\ \E m \in Nodes, d \in Conns : \E j \in Nat :
                  m = target'[t] /\ d = wconn'[m] /\ (WireAt(d, j, u)' \/ At(d, j, u)')
    <3>1. PICK m \in Nodes, d \in Conns, j \in Nat :
            m = target[t] /\ d = wconn[m] /\ (WireAt(d, j, u)' \/ At(d, j, u)')
      BY <1>2, <2>3
    <3>2. PICK k \in Nat : (WireAt(d, k, u) /\ (d = q => k > 1)) \/ At(d, k, u)
      BY <1>6, <1>7, <3>1
    <3>3. CASE HasStarted(t)
      BY <2>1, <3>1, <3>2, <3>3 DEF Ahead
    <3>4. CASE t = w
      <4>1. d = q
        BY <1>0, <1>3, <3>1, <3>4
      <4> QED
        BY <1>1, <1>3, <2>1, <3>2, <3>4, <4>1 DEF Ahead
    <3> QED
      BY <1>5, <2>3, <3>3, <3>4
  <2>4. CASE \E d \in Conns : \E i, j \in Nat : WireAt(d, i, t)' /\ At(d, j, u)'
    <3>1. PICK d \in Conns, i \in Nat, j \in Nat : WireAt(d, i, t)' /\ At(d, j, u)'
      BY <2>4
    <3>2. \E k \in Nat : WireAt(d, k, t)
      BY <1>6, <3>1
    <3> QED
      BY <1>7, <2>1, <3>1, <3>2 DEF Ahead
  <2>5. CASE \E d \in Conns : \E i, j \in Nat : WireAt(d, i, t)' /\ WireAt(d, j, u)' /\ i < j
    <3>1. PICK d \in Conns, i \in Nat, j \in Nat : WireAt(d, i, t)' /\ WireAt(d, j, u)' /\ i < j
      BY <2>5
    <3>2. \E k, m \in Nat : WireAt(d, k, t) /\ WireAt(d, m, u) /\ k < m
      BY <1>6, <3>1
    <3> QED
      BY <2>1, <3>2 DEF Ahead
  <2>6. CASE \E d \in Conns : \E i, j \in Nat : At(d, i, t)' /\ At(d, j, u)' /\ i < j
    BY <1>7, <2>1, <2>6 DEF Ahead
  <2> QED
    BY <1>8, <2>2, <2>3, <2>4, <2>5, <2>6 DEF Ahead
<1> QED
  BY <1>2, <1>8, NothingOvertakes DEF Accepted

\* A task is accepted: it is the last one, everywhere.
LEMMA DispatchOrder ==
  ASSUME FlowInv, FlowInv', OrderInv, NEW w \in Tasks, NEW n \in Nodes,
         NEW next \in {"async", "waiting"}, Dispatch(w, n, next),
         accepted' = Append(accepted, w), UNCHANGED <<wire, wconn, started>>
  PROVE  OrderInv'
<1>0. PICK q : q = queues[n]
  OBVIOUS
<1>1. /\ q \in Conns /\ buf \in [Conns -> Seq(Events)] /\ accepted \in Seq(Tasks)
      /\ buf' = [buf EXCEPT ![q] = Append(buf[q], w)]
  BY <1>0 DEF Dispatch, Put, IsConnected, FlowInv, FlowOwnTypeOK, FullInv, RouterInv,
     BrokerInv, BrokerTypeOK
<1>2. /\ ~Accepted(w) /\ Accepted(w)'
      /\ \A t \in Tasks \ {w} : (Accepted(t)' <=> Accepted(t)) /\ target'[t] = target[t]
  BY DEF Dispatch, Accepted, FlowInv, FullInv, RouterInv, RouterOwnTypeOK
<1>3. \A i \in Nat : ~AcceptedAt(i, w)
  BY <1>2 DEF OrderInv
<1>4. PICK last \in Nat : last = Len(accepted) + 1
  BY <1>1
<1>5. /\ AcceptedAt(last, w)'
      /\ \A i \in Nat : AcceptedAt(i, w)' => i = last
      /\ \A t \in Tasks \ {w} : \A i \in Nat :
           (AcceptedAt(i, t)' <=> AcceptedAt(i, t)) /\ (AcceptedAt(i, t)' => i < last)
  <2>1. /\ Len(accepted) \in Nat /\ Len(accepted') = Len(accepted) + 1
        /\ accepted'[Len(accepted) + 1] = w
        /\ \A m \in 1..Len(accepted) : accepted'[m] = accepted[m]
    BY <1>1
  <2> QED
    BY <1>3, <1>4, <2>1 DEF AcceptedAt
<1>6. ASSUME NEW t, NEW d \in Conns, NEW i \in Nat, At(d, i, t)'
      PROVE  At(d, i, t) \/ (d = q /\ t = w /\ \A j \in Nat : \A u : At(q, j, u)' => j <= i)
  <2>1. /\ Len(buf[q]) \in Nat /\ Len(buf'[q]) = Len(buf[q]) + 1
        /\ buf'[q][Len(buf[q]) + 1] = w
        /\ \A m \in 1..Len(buf[q]) : buf'[q][m] = buf[q][m]
        /\ \A e \in Conns \ {q} : buf'[e] = buf[e]
    BY <1>1
  <2>2. CASE d = q /\ i = Len(buf[q]) + 1
    BY <1>6, <2>1, <2>2 DEF At
  <2>3. CASE ~(d = q /\ i = Len(buf[q]) + 1)
    BY <1>6, <2>1, <2>3 DEF At
  <2> QED
    BY <2>2, <2>3
<1>7. /\ \A t : \A i \in Nat : StartedAt(i, t)' <=> StartedAt(i, t)
      /\ \A t : HasStarted(t)' <=> HasStarted(t)
      /\ \A t : \A d \in Conns, i \in Nat : WireAt(d, i, t)' <=> WireAt(d, i, t)
  BY DEF StartedAt, HasStarted, WireAt
<1>8. /\ ~HasStarted(w) /\ \A i \in Nat : ~StartedAt(i, w)
      /\ \A d \in Conns : \A i \in Nat : ~WireAt(d, i, w) /\ ~At(d, i, w)
  BY <1>2 DEF FlowInv, FullInv, QueuedInv, OnePlace, HasStarted
<1>9. ASSUME NEW u \in Tasks, Ahead(w, u)' PROVE FALSE
  <2>1. PICK d \in Conns, i \in Nat, j \in Nat : At(d, i, w)' /\ At(d, j, u)' /\ i < j
    BY <1>7, <1>8, <1>9 DEF Ahead
  <2>2. d = q /\ \A k \in Nat : \A v : At(q, k, v)' => k <= i
    BY <1>6, <1>8, <2>1
  <2> QED
    BY <2>1, <2>2
<1>10. ASSUME NEW t \in Tasks, NEW u \in Tasks, Ahead(t, u)' PROVE Earlier(t, u)'
  <2>1. t # w
    BY <1>9, <1>10
  <2>2. CASE u = w
    BY <1>5, <2>1, <2>2 DEF Earlier
  <2>3. CASE u # w
    <3>1. \A d \in Conns, i \in Nat : (At(d, i, t)' => At(d, i, t)) /\ (At(d, i, u)' => At(d, i, u))
      BY <1>6, <2>1, <2>3
    <3>2. Ahead(t, u)
      BY <1>2, <1>7, <1>10, <2>1, <2>3, <3>1 DEF Ahead
    <3>3. Earlier(t, u)
      BY <3>2 DEF OrderInv
    <3> QED
      BY <1>5, <2>1, <2>3, <3>3 DEF Earlier
  <2> QED
    BY <2>2, <2>3
<1>11. \A t \in Tasks : Accepted(t)' => \E i \in Nat : AcceptedAt(i, t)'
  BY <1>2, <1>5 DEF OrderInv
<1>12. \A t \in Tasks : \A i \in Nat : AcceptedAt(i, t)' => Accepted(t)'
  BY <1>2, <1>5 DEF OrderInv
<1>13. \A t \in Tasks : \A i, j \in Nat : AcceptedAt(i, t)' /\ AcceptedAt(j, t)' => i = j
  BY <1>5 DEF OrderInv
<1> QED
  BY <1>10, <1>11, <1>12, <1>13 DEF OrderInv

\* The initial states are in order.
LEMMA OrderInit == TaskFlowInit => OrderInv
<1> SUFFICES ASSUME TaskFlowInit PROVE OrderInv
  OBVIOUS
<1>1. /\ \A t : \A i \in Nat : ~AcceptedAt(i, t) /\ ~StartedAt(i, t)
      /\ \A t : ~HasStarted(t)
      /\ \A t : \A c \in Conns, i \in Nat : ~WireAt(c, i, t) /\ ~At(c, i, t)
      /\ \A t \in Tasks : ~Accepted(t)
  BY DEF TaskFlowInit, RouterInit, BrokerInit, AcceptedAt, StartedAt, HasStarted, WireAt, At,
     Accepted
<1>2. \A t, u \in Tasks : ~Ahead(t, u)
  BY <1>1 DEF Ahead
<1> QED
  BY <1>1, <1>2 DEF OrderInv

\* A step that leaves the connections, their readers and the histories alone
\* and queues nothing.
LEMMA QuietOrder ==
  ASSUME FlowInv, OrderInv, AcceptedStays, UNCHANGED <<accepted, started, wire, wconn>>,
         \A t \in Tasks : Accepted(t)' => Accepted(t),
         \A c \in Conns, t \in Tasks : \A i \in Nat : At(c, i, t)' => At(c, i, t)
  PROVE  OrderInv'
<1>1. \A c \in Conns, t \in Tasks : \A i \in Nat : WireAt(c, i, t)' => WireAt(c, i, t)
  BY DEF WireAt
<1> QED
  BY <1>1, NothingForward

\* A stream is left: nobody reads it any more, and it is empty.
LEMMA LeaveOrder ==
  ASSUME FlowInv, OrderInv, AcceptedStays, NEW n \in Nodes, NEW state, LeaveStream(n, state)
  PROVE  OrderInv'
<1>1. \A t \in Tasks, c \in Conns : \A i \in Nat : WireAt(c, i, t)' => WireAt(c, i, t)
  BY DEF LeaveStream, WireAt, FlowInv, FlowOwnTypeOK
<1>2. \A t \in Tasks, c \in Conns : \A i \in Nat : At(c, i, t)' => At(c, i, t)
  BY DEF LeaveStream, At, vars, brokerVars
<1>3. \A m \in Nodes : wconn'[m] = wconn[m] \/ wconn'[m] \notin Conns
  BY BrokerAssumption DEF LeaveStream, FlowInv, FlowOwnTypeOK
<1>4. UNCHANGED <<accepted, started>> /\ \A t \in Tasks : Accepted(t)' => Accepted(t)
  BY DEF LeaveStream, history, vars, routerVars, Accepted
<1> QED
  BY <1>1, <1>2, <1>3, <1>4, NothingForward

\* A connection fails: those on it that may still be read are the first.
LEMMA LinkDropOrder ==
  ASSUME FlowInv, OrderInv, AcceptedStays, NEW c \in Conns, LinkDrop(c)
  PROVE  OrderInv'
<1>1. PICK k \in 0..Len(wire[c]) : wire' = [wire EXCEPT ![c] = SubSeq(@, 1, k)]
  BY DEF LinkDrop
<1>2. ASSUME NEW t \in Tasks, NEW d \in Conns, NEW i \in Nat, WireAt(d, i, t)'
      PROVE  WireAt(d, i, t)
  <2>1. wire[c] \in Seq(Tasks) /\ wire \in [Conns -> Seq(Tasks)]
    BY DEF FlowInv, FlowOwnTypeOK
  <2>2. /\ Len(SubSeq(wire[c], 1, k)) = k
        /\ \A m \in 1..k : SubSeq(wire[c], 1, k)[m] = wire[c][m]
        /\ Len(wire[c]) \in Nat /\ k \in Nat /\ k <= Len(wire[c])
    BY <2>1
  <2> QED
    BY <1>1, <1>2, <2>1, <2>2 DEF WireAt
<1>3. \A t \in Tasks, d \in Conns : \A i \in Nat : At(d, i, t)' => At(d, i, t)
  BY DEF LinkDrop, At, vars, brokerVars
<1>4. UNCHANGED <<accepted, started, wconn>> /\ \A t \in Tasks : Accepted(t)' => Accepted(t)
  BY DEF LinkDrop, history, vars, routerVars, Accepted
<1> QED
  BY <1>2, <1>3, <1>4, NothingForward

\* The daemon opens a stream: nothing is on it or queued for it.
LEMMA OpenStreamOrder ==
  ASSUME FlowInv, OrderInv, AcceptedStays, NEW n \in Nodes, NEW c \in Conns, OpenStream(n, c)
  PROVE  OrderInv'
<1>1. /\ wire' = [wire EXCEPT ![c] = <<>>] /\ buf' = [buf EXCEPT ![c] = <<>>]
      /\ wconn' = [wconn EXCEPT ![n] = c] /\ UNCHANGED <<call, accepted, started>>
      /\ wire \in [Conns -> Seq(Tasks)] /\ buf \in [Conns -> Seq(Events)]
      /\ wconn \in [Nodes -> Conns \cup {NoConn}]
  BY DEF OpenStream, Connect, routerVars, history, FlowInv, FlowOwnTypeOK, FullInv, RouterInv,
     BrokerInv, BrokerTypeOK
<1>2. \A t \in Tasks, d \in Conns : \A i \in Nat :
        (WireAt(d, i, t)' => WireAt(d, i, t)) /\ (At(d, i, t)' => At(d, i, t))
  BY <1>1 DEF WireAt, At
<1>3. \A m \in Nodes :
        \/ wconn'[m] = wconn[m]
        \/ \A t \in Tasks : \A i \in Nat : ~WireAt(wconn[m], i, t)' /\ ~At(wconn[m], i, t)'
  BY <1>1 DEF WireAt, At
<1>4. \A t \in Tasks : Accepted(t)' => Accepted(t)
  BY <1>1 DEF Accepted
<1> QED
  BY <1>1, <1>2, <1>3, <1>4, NothingForward

\* A step of the pool that sends and starts nothing.
LEMMA PoolOrder ==
  ASSUME FlowInv, OrderInv, AcceptedStays,
         PingAll \/ \E c \in Conns : Idle(c) \/ NoticeGone(c)
  PROVE  OrderInv'
<1>1. UNCHANGED <<accepted, started, wire, wconn>> /\ \A t \in Tasks : Accepted(t)' => Accepted(t)
  BY DEF PingAll, Idle, NoticeGone, workerVars, history, routerVars, Accepted
<1>2. buf \in [Conns -> Seq(Events)]
  BY DEF FlowInv, FullInv, RouterInv, BrokerInv, BrokerTypeOK
<1>3. ASSUME NEW d \in Conns, NEW t \in Tasks, NEW i \in Nat, At(d, i, t)'
      PROVE  At(d, i, t)
  <2>1. buf'[d] = buf[d] \/ buf'[d] = <<>> \/ buf'[d] = Append(buf[d], Ping)
    BY <1>2 DEF PingAll, BroadcastPing, Idle, Block, Timeout, NoticeGone, Finish
  <2>2. t # Ping /\ buf[d] \in Seq(Events) /\ Ping \in Events
    BY <1>2, BrokerAssumption DEF Events
  <2>3. CASE buf'[d] = Append(buf[d], Ping)
    <3>1. /\ Len(buf[d]) \in Nat /\ Len(buf'[d]) = Len(buf[d]) + 1
          /\ buf'[d][Len(buf[d]) + 1] = Ping
          /\ \A m \in 1..Len(buf[d]) : buf'[d][m] = buf[d][m]
      BY <2>2, <2>3
    <3>2. i # Len(buf[d]) + 1
      BY <1>3, <2>2, <3>1 DEF At
    <3> QED
      BY <1>3, <3>1, <3>2 DEF At
  <2>4. CASE buf'[d] = buf[d] \/ buf'[d] = <<>>
    BY <1>3, <2>4 DEF At
  <2> QED
    BY <2>1, <2>3, <2>4
<1> QED
  BY <1>1, <1>3, QuietOrder

\* Every step keeps the order.
LEMMA OrderStep ==
  FlowInv /\ FlowInv' /\ OrderInv /\ [TaskFlowNext]_flowVars => OrderInv'
<1> SUFFICES ASSUME FlowInv, FlowInv', OrderInv, [TaskFlowNext]_flowVars PROVE OrderInv'
  OBVIOUS
<1>0. AcceptedStays
  BY FlowIsRouterStep, RouterKeepsAccepted DEF FlowInv, FullInv
<1>1. ASSUME UNCHANGED <<buf, wire, wconn, accepted, started>>,
             \A t \in Tasks : Accepted(t)' => Accepted(t)
      PROVE  OrderInv'
  <2>1. \A c \in Conns, t \in Tasks : \A i \in Nat : At(c, i, t)' => At(c, i, t)
    BY <1>1 DEF At
  <2> QED
    BY <1>0, <1>1, <2>1, QuietOrder
<1>2. ASSUME NEW t \in Tasks, NEW n \in Nodes, ClientCall(t, n) PROVE OrderInv'
  <2>1. CASE Reject(t, n) /\ UNCHANGED accepted
    <3>1. UNCHANGED <<buf, wire, wconn, started>>
      BY <1>2, <2>1 DEF ClientCall, Reject, workerVars, brokerVars
    <3>2. \A u \in Tasks : Accepted(u)' => Accepted(u)
      BY <2>1 DEF Reject, Accepted, FlowInv, FullInv, RouterInv, RouterOwnTypeOK
    <3> QED
      BY <1>1, <2>1, <3>1, <3>2
  <2>2. CASE (DispatchAsync(t, n) \/ DispatchSync(t, n)) /\ accepted' = Append(accepted, t)
    BY <1>2, <2>2, DispatchOrder DEF ClientCall, DispatchAsync, DispatchSync, workerVars
  <2> QED
    BY <1>2, <2>1, <2>2 DEF ClientCall
<1>3. ASSUME NEW t \in Tasks, WaiterStep(t) PROVE OrderInv'
  <2>1. UNCHANGED <<buf, wire, wconn, accepted, started>>
    BY <1>3 DEF WaiterStep, Expire, WakeResult, WakeTimeout, workerVars, brokerVars, history
  <2>2. \A u \in Tasks : Accepted(u)' => Accepted(u)
    BY <1>3 DEF WaiterStep, Expire, WakeResult, WakeTimeout, Accepted, FlowInv, FullInv,
       RouterInv, RouterOwnTypeOK
  <2> QED
    BY <1>1, <2>1, <2>2
<1>4. CASE PingAll \/ \E c \in Conns : Idle(c) \/ NoticeGone(c)
  BY <1>0, <1>4, PoolOrder
<1>5. ASSUME NEW c \in Conns, Send(c) PROVE OrderInv'
  BY <1>5, SendOrder
<1>6. ASSUME NEW r \in posts, Deliver(r) PROVE OrderInv'
  <2>1. UNCHANGED <<buf, wire, wconn, accepted, started, call>>
    BY <1>6 DEF Deliver, SubmitResult, brokerVars, history
  <2> QED
    BY <1>1, <2>1 DEF Accepted
<1>7. CASE MasterRestart
  <2>1. UNCHANGED <<wire, wconn, accepted, started>> /\ \A c \in Conns : buf'[c] = <<>>
    BY <1>7 DEF MasterRestart, Restart, history
  <2>2. \A t \in Tasks : Accepted(t)' => Accepted(t)
    BY <1>7 DEF MasterRestart, Restart, Accepted
  <2>3. \A c \in Conns, t \in Tasks : \A i \in Nat : At(c, i, t)' => At(c, i, t)
    BY <2>1 DEF At
  <2> QED
    BY <1>0, <2>1, <2>2, <2>3, QuietOrder
<1>8. ASSUME NEW n \in Nodes, NEW c \in Conns, OpenStream(n, c) PROVE OrderInv'
  BY <1>0, <1>8, OpenStreamOrder
<1>9. ASSUME NEW n \in Nodes,
             (\E o \in Outcomes : ExecDone(n, o)) \/ WorkerStart(n) \/ ReportReturns(n)
      PROVE  OrderInv'
  <2>1. UNCHANGED <<buf, wire, wconn, accepted, started, call>>
    BY <1>9 DEF ExecDone, WorkerStart, ReportReturns, vars, brokerVars, routerVars, history
  <2> QED
    BY <1>1, <2>1 DEF Accepted
<1>10. ASSUME NEW n \in Nodes, Read(n) PROVE OrderInv'
  BY <1>10, ReadOrder
<1>11. ASSUME NEW n \in Nodes,
              StreamEnds(n) \/ ExecRaises(n) \/ ReportRaises(n) \/ WorkerCrash(n)
       PROVE  OrderInv'
  BY <1>0, <1>11, LeaveOrder DEF StreamEnds, ExecRaises, ReportRaises, WorkerCrash
<1>12. ASSUME NEW c \in Conns, LinkDrop(c) PROVE OrderInv'
  BY <1>0, <1>12, LinkDropOrder
<1>13. ASSUME NEW r \in posts, LosePost(r) PROVE OrderInv'
  <2>1. UNCHANGED <<buf, wire, wconn, accepted, started, call>>
    BY <1>13 DEF LosePost, vars, brokerVars, routerVars, history
  <2> QED
    BY <1>1, <2>1 DEF Accepted
<1>14. CASE UNCHANGED flowVars
  <2>1. UNCHANGED <<buf, wire, wconn, accepted, started, call>>
    BY <1>14 DEF flowVars, vars, brokerVars, routerVars, workerVars, history
  <2> QED
    BY <1>1, <2>1 DEF Accepted
<1> QED
  BY <1>2, <1>3, <1>4, <1>5, <1>6, <1>7, <1>8, <1>9, <1>10, <1>11, <1>12, <1>13, <1>14
  DEF TaskFlowNext

\* A node starts its tasks in the order in which the master accepted them,
\* also those sent on different streams, whatever fails in between.
THEOREM TaskFlowStartedInOrder == TaskFlowSpec => []StartedInOrder
<1>1. FlowInv /\ OrderInv => StartedInOrder
  <2> SUFFICES ASSUME FlowInv, OrderInv,
                      NEW i \in 1..Len(started), NEW j \in 1..Len(started), i < j,
                      target[started[i]] = target[started[j]]
               PROVE  Position(started[i]) < Position(started[j])
    BY DEF StartedInOrder
  <2>1. PICK t \in Tasks, u \in Tasks : t = started[i] /\ u = started[j]
    BY DEF FlowInv, FlowOwnTypeOK
  <2>2. i \in Nat /\ j \in Nat /\ StartedAt(i, t) /\ StartedAt(j, u)
    BY <2>1 DEF StartedAt
  <2>3. Ahead(t, u)
    BY <2>1, <2>2 DEF Ahead
  <2>4. Earlier(t, u)
    BY <2>3 DEF OrderInv
  <2>5. Accepted(t) /\ Accepted(u)
    BY <2>2 DEF HasStarted, FlowInv, OnePlace
  <2>6. ASSUME NEW v \in Tasks, Accepted(v)
        PROVE  Position(v) \in Nat /\ AcceptedAt(Position(v), v)
    <3>1. PICK k \in Nat : AcceptedAt(k, v)
      BY <2>6 DEF OrderInv
    <3>2. k \in 1..Len(accepted) /\ accepted[k] = v
      BY <3>1 DEF AcceptedAt
    <3>3. Position(v) \in 1..Len(accepted) /\ accepted[Position(v)] = v
      BY <3>2 DEF Position
    <3> QED
      BY <3>3 DEF AcceptedAt
  <2> QED
    BY <2>1, <2>4, <2>5, <2>6 DEF Earlier
<1> QED
  BY <1>1, OrderInit, OrderStep, FlowInvariance, PTL DEF TaskFlowSpec
-----------------------------------------------------------------------------
(***************************************************************************)
(* Nothing is lost without a fault.  As long as nothing failed, the open   *)
(* streams are those that work and that their nodes' daemons read; so a    *)
(* task that is queued is queued where its daemon will read it.            *)
(***************************************************************************)

Connected ==
  /\ \A c \in Conns : Open(c) => c \in up
  /\ \A c \in up : Open(c) /\ \E n \in Nodes : owner[c] = n /\ wconn[n] = c
  /\ \A n \in Nodes : IF wpc[n] \in {"listen", "exec", "report"}
                      THEN wconn[n] \in up ELSE wconn[n] = NoConn

\* The places of UnderWay, by position.
InStream(t) ==
  /\ wconn[target[t]] \in up /\ Open(wconn[target[t]])
  /\ \E i \in Nat : At(wconn[target[t]], i, t) \/ WireAt(wconn[target[t]], i, t)

InHand(t) ==
  /\ wtask[target[t]] = t
  /\ \/ wpc[target[t]] = "exec"
     \/ wpc[target[t]] = "report" /\ \E r \in posts : r.task = t

Kept(t) == InStream(t) \/ InHand(t) \/ results[t] # NoResult

AllKept == Connected /\ \A t \in Tasks : Accepted(t) => Kept(t)

LossInv == faults = 0 => AllKept

\* Positions and places say the same.
LEMMA UnderWayIs ==
  ASSUME FlowInv, NEW t \in Tasks
  PROVE  UnderWay(t) <=> InStream(t) \/ InHand(t)
<1> DEFINE c == wconn[target[t]]
<1>1. ASSUME c \in up
      PROVE  (c \in Queued(t) \/ \E i \in 1..Len(wire[c]) : wire[c][i] = t)
               <=> \E i \in Nat : At(c, i, t) \/ WireAt(c, i, t)
  <2>1. c \in Conns /\ Len(buf[c]) \in Nat /\ Len(wire[c]) \in Nat
    BY <1>1 DEF FlowInv, FlowOwnTypeOK, FullInv, RouterInv, BrokerInv, BrokerTypeOK
  <2>2. c \in Queued(t) <=> \E i \in Nat : At(c, i, t)
    BY <2>1 DEF Queued, At
  <2>3. (\E i \in 1..Len(wire[c]) : wire[c][i] = t) <=> \E i \in Nat : WireAt(c, i, t)
    BY <2>1 DEF WireAt
  <2> QED
    BY <2>2, <2>3
<1> QED
  BY <1>1 DEF UnderWay, InStream, InHand

\* An accepted task has a target, and no step of the composition changes it.
LEMMA TargetStays ==
  ASSUME FlowInv, [TaskFlowNext]_flowVars
  PROVE  AcceptedStays
  BY FlowIsRouterStep, RouterKeepsAccepted DEF FlowInv, FullInv

\* A step that leaves streams and daemons alone and keeps what is on a stream
\* there keeps every task.
LEMMA StreamsKeep ==
  ASSUME AllKept,
         UNCHANGED <<up, wconn, wpc, wtask, owner, posts>>,
         \A c \in Conns : Open(c)' <=> Open(c),
         \A t \in Tasks : Accepted(t)' => Accepted(t) /\ target'[t] = target[t],
         \A t \in Tasks : results[t] # NoResult => results'[t] # NoResult,
         \A t \in Tasks, c \in up : \A i \in Nat :
           At(c, i, t) \/ WireAt(c, i, t) =>
             \E j \in Nat : At(c, j, t)' \/ WireAt(c, j, t)',
         up \in SUBSET Conns
  PROVE  AllKept'
<1>1. Connected'
  BY DEF AllKept, Connected
<1>2. ASSUME NEW t \in Tasks, Accepted(t)' PROVE Kept(t)'
  <2>1. Accepted(t) /\ target'[t] = target[t] /\ Kept(t)
    BY <1>2 DEF AllKept
  <2>2. CASE InStream(t)
    <3> DEFINE c == wconn[target[t]]
    <3>1. c \in up /\ Open(c)' /\ wconn'[target'[t]] = c /\ c \in up'
      BY <2>1, <2>2 DEF InStream
    <3>2. \E j \in Nat : At(c, j, t)' \/ WireAt(c, j, t)'
      BY <2>2, <3>1 DEF InStream
    <3>3. InStream(t)'
      BY <3>1, <3>2, <2>1 DEF InStream, At, WireAt, Open
    <3> QED
      BY <3>3 DEF Kept
  <2>3. CASE InHand(t)
    BY <2>1, <2>3 DEF InHand, Kept
  <2>4. CASE results[t] # NoResult
    BY <2>1, <2>4 DEF Kept
  <2> QED
    BY <2>1, <2>2, <2>3, <2>4 DEF Kept
<1> QED
  BY <1>1, <1>2 DEF AllKept

\* Calls, waiters, timers, results and pings leave tasks where they are.
LEMMA MasterKeeps ==
  ASSUME FlowInv, AllKept, AcceptedStays,
         \/ \E t \in Tasks, n \in Nodes : Reject(t, n) /\ UNCHANGED <<workerVars, faults>>
         \/ \E t \in Tasks : WaiterStep(t)
         \/ \E c \in Conns : Idle(c)
         \/ PingAll
  PROVE  AllKept'
<1>1. /\ UNCHANGED <<up, wire, wconn, wpc, wtask, owner, posts, results>>
      /\ up \in SUBSET Conns
  BY DEF Reject, WaiterStep, Expire, WakeResult, WakeTimeout, Idle, Block, Timeout, PingAll,
     BroadcastPing, workerVars, routerVars, brokerVars, FlowInv, FlowOwnTypeOK
<1>2. \A c \in Conns : Open(c)' <=> Open(c)
  BY DEF Open, Reject, WaiterStep, Expire, WakeResult, WakeTimeout, Idle, Block, Timeout,
     PingAll, BroadcastPing, brokerVars, FlowInv, FullInv, RouterInv, BrokerInv,
     BrokerTypeOK, GenStates
<1>3. ASSUME NEW t \in Tasks, Accepted(t)' PROVE Accepted(t) /\ target'[t] = target[t]
  <2>1. Accepted(t)
    BY <1>3 DEF Accepted, Reject, WaiterStep, Expire, WakeResult, WakeTimeout, Idle, PingAll,
       routerVars, FlowInv, FullInv, RouterInv, RouterOwnTypeOK
  <2> QED
    BY <2>1 DEF AcceptedStays
<1>4. ASSUME NEW t \in Tasks, NEW c \in Conns, NEW i \in Nat, At(c, i, t)
      PROVE  At(c, i, t)'
  <2>1. buf[c] \in Seq(Events)
    BY DEF FlowInv, FullInv, RouterInv, BrokerInv, BrokerTypeOK
  <2>2. buf'[c] = buf[c] \/ buf'[c] = Append(buf[c], Ping)
    BY DEF Reject, WaiterStep, Expire, WakeResult, WakeTimeout, Idle, Block, Timeout,
       PingAll, BroadcastPing, brokerVars
  <2>3. Ping \in Events
    BY DEF Events
  <2> QED
    BY <1>4, <2>1, <2>2, <2>3 DEF At
<1>5. \A t \in Tasks, c \in up : \A i \in Nat :
        At(c, i, t) \/ WireAt(c, i, t) => \E j \in Nat : At(c, j, t)' \/ WireAt(c, j, t)'
  <2> SUFFICES ASSUME NEW t \in Tasks, NEW c \in up, NEW i \in Nat,
                      At(c, i, t) \/ WireAt(c, i, t)
               PROVE  At(c, i, t)' \/ WireAt(c, i, t)'
    OBVIOUS
  <2>1. c \in Conns
    BY <1>1
  <2> QED
    BY <1>1, <1>4, <2>1 DEF WireAt
<1> QED
  BY <1>1, <1>2, <1>3, <1>5, StreamsKeep

\* An accepted task is queued for the stream its target's daemon reads.
LEMMA DispatchKeeps ==
  ASSUME FlowInv, AllKept, AcceptedStays, NEW t \in Tasks, NEW n \in Nodes,
         NEW next \in {"async", "waiting"}, Dispatch(t, n, next), UNCHANGED workerVars
  PROVE  AllKept'
<1> DEFINE q == queues[n]
<1>1. /\ q \in Conns /\ Open(q) /\ owner[q] = n
      /\ buf \in [Conns -> Seq(Events)] /\ t \in Events
  BY DEF Dispatch, IsConnected, Events, FlowInv, FullInv, RouterInv, BrokerInv, BrokerTypeOK,
     RegisteredQueueIsServed
<1>2. q \in up /\ wconn[n] = q
  BY <1>1 DEF AllKept, Connected
<1>3. /\ UNCHANGED <<up, wire, wconn, wpc, wtask, owner, posts, gen, results>>
      /\ up \in SUBSET Conns
  BY DEF Dispatch, workerVars, FlowInv, FlowOwnTypeOK
<1>4. /\ buf'[q] = Append(buf[q], t)
      /\ \A c \in Conns \ {q} : buf'[c] = buf[c]
  BY <1>1 DEF Dispatch, Put
<1>11. /\ Len(buf[q]) \in Nat /\ Len(buf'[q]) = Len(buf[q]) + 1
       /\ buf'[q][Len(buf[q]) + 1] = t
       /\ \A i \in 1..Len(buf[q]) : buf'[q][i] = buf[q][i]
  <2>1. buf[q] \in Seq(Events) /\ t \in Events
    BY <1>1
  <2> QED
    BY <1>4, <2>1
<1>5. ASSUME NEW u \in Tasks, NEW c \in Conns, NEW i \in Nat, At(c, i, u) PROVE At(c, i, u)'
  <2>1. CASE c = q
    <3>1. i \in 1..Len(buf'[q]) /\ buf'[q][i] = u
      BY <1>11, <1>5, <2>1 DEF At
    <3> QED
      BY <2>1, <3>1 DEF At
  <2>2. CASE c # q
    BY <1>4, <1>5, <2>2 DEF At
  <2> QED
    BY <2>1, <2>2
<1>6. PICK k \in Nat : \A c \in Conns : c = q => At(c, k, t)'
  <2>1. PICK k \in 1..Len(buf'[q]) : buf'[q][k] = t
    BY <1>11
  <2>2. k \in Nat
    OBVIOUS
  <2> QED
    BY <2>1, <2>2 DEF At
<1>7. target'[t] = n
  BY DEF Dispatch, FlowInv, FullInv, RouterInv, RouterOwnTypeOK
<1>8. Kept(t)'
  <2>1. (wconn[target[t]] \in up /\ Open(wconn[target[t]]))'
    BY <1>1, <1>2, <1>3, <1>7 DEF Open
  <2>2. wconn'[target'[t]] = q
    BY <1>2, <1>3, <1>7
  <2>3. At(wconn[target[t]], k, t)'
    BY <1>1, <1>6, <2>2 DEF At
  <2>4. InStream(t)'
    BY <1>6, <2>1, <2>3 DEF InStream
  <2> QED
    BY <2>4 DEF Kept
<1>9. ASSUME NEW u \in Tasks, Accepted(u)', u # t PROVE Kept(u)'
  <2>1. Accepted(u)
    BY <1>9 DEF Dispatch, Accepted, FlowInv, FullInv, RouterInv, RouterOwnTypeOK
  <2>2. Kept(u) /\ target'[u] = target[u]
    BY <2>1 DEF AllKept, AcceptedStays
  <2>3. CASE InStream(u)
    <3> DEFINE c == wconn[target[u]]
    <3>1. PICK i \in Nat : At(c, i, u) \/ WireAt(c, i, u)
      BY <2>3 DEF InStream
    <3>2. c \in up /\ c \in Conns /\ Open(c)' /\ wconn'[target'[u]] = c
      BY <1>3, <2>2, <2>3 DEF InStream, Open
    <3>3. At(c, i, u)' \/ WireAt(c, i, u)'
      BY <1>3, <1>5, <3>1, <3>2 DEF WireAt
    <3>4. InStream(u)'
      BY <1>3, <3>2, <3>3 DEF InStream, At, WireAt, Open
    <3> QED
      BY <3>4 DEF Kept
  <2>4. CASE InHand(u)
    BY <1>3, <2>2, <2>4 DEF InHand, Kept
  <2>5. CASE results[u] # NoResult
    BY <1>3, <2>5 DEF Kept
  <2> QED
    BY <2>2, <2>3, <2>4, <2>5 DEF Kept
<1>10. Connected'
  BY <1>3 DEF AllKept, Connected, Open
<1> QED
  BY <1>8, <1>9, <1>10 DEF AllKept

\* The generator moves a task from the queue to the wire of the same stream.
LEMMA SendKeeps ==
  ASSUME FlowInv, AllKept, AcceptedStays, NEW c \in Conns, Send(c)
  PROVE  AllKept'
<1> DEFINE e == Head(buf[c])
<1>1. /\ UNCHANGED <<up, wconn, wpc, wtask, owner, posts, results, call, target>>
      /\ Take(c) /\ Open(c)
      /\ up \in SUBSET Conns /\ wire \in [Conns -> Seq(Tasks)]
      /\ buf \in [Conns -> Seq(Events)] /\ gen \in [Conns -> GenStates]
  BY DEF Send, Take, routerVars, FlowInv, FullInv, FlowOwnTypeOK, RouterInv, BrokerInv,
     BrokerTypeOK
<1>2. \A d \in Conns : Open(d)' <=> Open(d)
  BY <1>1 DEF Take, Open, GenStates
<1>3. /\ c \in up
      /\ buf[c] \in Seq(Events) /\ buf[c] # <<>> /\ buf'[c] = Tail(buf[c])
      /\ wire[c] \in Seq(Tasks)
      /\ wire'[c] = IF e \in Tasks THEN Append(wire[c], e) ELSE wire[c]
      /\ \A d \in Conns \ {c} : buf'[d] = buf[d] /\ wire'[d] = wire[d]
  BY <1>1 DEF Send, Take, AllKept, Connected
<1>4. ASSUME NEW t \in Tasks, NEW i \in Nat, At(c, i, t)
      PROVE  \E j \in Nat : At(c, j, t)' \/ WireAt(c, j, t)'
  <2>1. CASE i = 1
    <3>1. e = t /\ wire'[c] = Append(wire[c], t)
      BY <1>3, <1>4, <2>1 DEF At
    <3>2. /\ Len(wire[c]) + 1 \in 1..Len(Append(wire[c], t))
          /\ Append(wire[c], t)[Len(wire[c]) + 1] = t
          /\ Len(wire[c]) + 1 \in Nat
      <4>1. wire[c] \in Seq(Tasks)
        BY <1>3
      <4> QED
        BY <4>1
    <3>3. PICK k \in Nat : k \in 1..Len(wire'[c]) /\ wire'[c][k] = t
      BY <3>1, <3>2
    <3>4. WireAt(c, k, t)'
      BY <3>3 DEF WireAt
    <3> QED
      BY <3>4
  <2>2. CASE i # 1
    <3>1. i - 1 \in 1..Len(Tail(buf[c])) /\ Tail(buf[c])[i - 1] = t
      BY <1>3, <1>4, <2>2 DEF At
    <3>2. At(c, i - 1, t)' /\ i - 1 \in Nat
      BY <1>3, <3>1 DEF At
    <3> QED
      BY <3>2
  <2> QED
    BY <2>1, <2>2
<1>5. ASSUME NEW t \in Tasks, NEW i \in Nat, WireAt(c, i, t) PROVE WireAt(c, i, t)'
  BY <1>3, <1>5 DEF WireAt
<1>6. ASSUME NEW t \in Tasks, NEW d \in up, NEW i \in Nat, At(d, i, t) \/ WireAt(d, i, t)
      PROVE  \E j \in Nat : At(d, j, t)' \/ WireAt(d, j, t)'
  <2>1. CASE d = c
    BY <1>4, <1>5, <1>6, <2>1
  <2>2. CASE d # c
    BY <1>1, <1>3, <1>6, <2>2 DEF At, WireAt
  <2> QED
    BY <2>1, <2>2
<1>7. \A t \in Tasks : Accepted(t)' => Accepted(t) /\ target'[t] = target[t]
  BY <1>1 DEF Accepted
<1>8. \A t \in Tasks : results[t] # NoResult => results'[t] # NoResult
  BY <1>1
<1> QED
  BY <1>1, <1>2, <1>6, <1>7, <1>8, StreamsKeep

\* A stream is opened only by a daemon that has none, where nothing can be.
LEMMA OpenStreamKeeps ==
  ASSUME FlowInv, AllKept, NEW n \in Nodes, NEW c \in Conns, OpenStream(n, c)
  PROVE  AllKept'
<1>1. /\ up' = up \cup {c} /\ up \in SUBSET Conns
      /\ wire' = [wire EXCEPT ![c] = <<>>] /\ wire \in [Conns -> Seq(Tasks)]
      /\ wconn' = [wconn EXCEPT ![n] = c] /\ wconn \in [Nodes -> Conns \cup {NoConn}]
      /\ wpc' = [wpc EXCEPT ![n] = "listen"] /\ wpc \in [Nodes -> WorkerStates]
      /\ wpc[n] = "offline" /\ \A m \in Nodes : wconn[m] # c
      /\ owner' = [owner EXCEPT ![c] = n] /\ owner \in [Conns -> Nodes \cup {NoNode}]
      /\ buf' = [buf EXCEPT ![c] = <<>>] /\ buf \in [Conns -> Seq(Events)]
      /\ gen' = [gen EXCEPT ![c] = "wait"] /\ gen \in [Conns -> GenStates]
      /\ UNCHANGED <<wtask, posts, results, call, target>>
  BY DEF OpenStream, Connect, routerVars, FlowInv, FullInv, FlowOwnTypeOK, RouterInv, BrokerInv,
     BrokerTypeOK
<1>2. Open(c)' /\ \A d \in Conns \ {c} : Open(d)' <=> Open(d)
  BY <1>1 DEF Open
<1>3. wconn[n] = NoConn /\ NoConn \notin Conns
  BY <1>1, BrokerAssumption DEF AllKept, Connected
<1>4. Connected'
  <2>1. \A d \in Conns : Open(d)' => d \in up'
    BY <1>1, <1>2 DEF AllKept, Connected
  <2>2. ASSUME NEW d \in up'
        PROVE  Open(d)' /\ \E m \in Nodes : owner'[d] = m /\ wconn'[m] = d
    <3>1. CASE d = c
      BY <1>1, <1>2, <3>1
    <3>2. CASE d # c
      <4>1. d \in up /\ d \in Conns /\ Open(d)
        BY <1>1, <3>2 DEF AllKept, Connected
      <4>2. PICK m \in Nodes : owner[d] = m /\ wconn[m] = d
        BY <4>1 DEF AllKept, Connected
      <4>3. m # n
        BY <1>3, <4>1, <4>2
      <4> QED
        BY <1>1, <1>2, <3>2, <4>1, <4>2, <4>3
    <3> QED
      BY <3>1, <3>2
  <2>3. \A m \in Nodes : IF wpc'[m] \in {"listen", "exec", "report"}
                         THEN wconn'[m] \in up' ELSE wconn'[m] = NoConn
    BY <1>1 DEF AllKept, Connected
  <2> QED
    BY <2>1, <2>2, <2>3 DEF Connected, Open
<1>5. ASSUME NEW t \in Tasks, Accepted(t)' PROVE Kept(t)'
  <2>1. Kept(t) /\ target'[t] = target[t]
    BY <1>1, <1>5 DEF AllKept, Accepted
  <2>2. target[t] \in Nodes \cup {NoNode}
    BY DEF FlowInv, FullInv, RouterInv, RouterOwnTypeOK
  <2>3. CASE InStream(t)
    <3> DEFINE d == wconn[target[t]]
    <3>1. PICK i \in Nat : At(d, i, t) \/ WireAt(d, i, t)
      BY <2>3 DEF InStream
    <3>2. d \in up /\ d \in Conns /\ Open(d)
      BY <1>1, <2>3 DEF InStream
    <3>3. /\ owner[d] = target[t]
      BY <3>1, <3>2 DEF FlowInv, FullInv, QueuedInv, OnePlace
    <3>4. target[t] \in Nodes
      BY <3>2, <3>3 DEF AllKept, Connected
    <3>5. d # c /\ target[t] # n
      BY <1>1, <1>3, <3>2, <3>4
    <3>6. wconn'[target'[t]] = d /\ d \in up' /\ Open(d)' /\ buf'[d] = buf[d] /\ wire'[d] = wire[d]
      BY <1>1, <1>2, <2>1, <3>2, <3>4, <3>5
    <3>7. InStream(t)'
      BY <3>1, <3>6 DEF InStream, At, WireAt, Open
    <3> QED
      BY <3>7 DEF Kept
  <2>4. CASE InHand(t)
    BY <1>1, <2>1, <2>2, <2>4 DEF InHand, Kept
  <2>5. CASE results[t] # NoResult
    BY <1>1, <2>5 DEF Kept
  <2> QED
    BY <2>1, <2>3, <2>4, <2>5 DEF Kept
<1> QED
  BY <1>4, <1>5 DEF AllKept

\* The daemon takes a task off its stream into its hand.
LEMMA ReadKeeps ==
  ASSUME FlowInv, AllKept, NEW n \in Nodes, Read(n)
  PROVE  AllKept'
<1> DEFINE q == wconn[n]  e == Head(wire[q])
<1>1. /\ UNCHANGED <<up, wconn, owner, gen, buf, posts, results, call, target>>
      /\ wpc[n] = "listen" /\ wpc' = [wpc EXCEPT ![n] = "exec"]
      /\ wtask' = [wtask EXCEPT ![n] = e] /\ wire' = [wire EXCEPT ![q] = Tail(@)]
      /\ wire[q] # <<>>
      /\ wpc \in [Nodes -> WorkerStates] /\ wtask \in [Nodes -> Tasks \cup {NoTask}]
      /\ wire \in [Conns -> Seq(Tasks)] /\ up \in SUBSET Conns
  BY DEF Read, vars, brokerVars, routerVars, FlowInv, FlowOwnTypeOK
<1>2. q \in up /\ q \in Conns /\ Open(q) /\ owner[q] = n
  <2>1. q \in up
    BY <1>1 DEF AllKept, Connected
  <2>2. q \in Conns /\ q # NoConn
    BY <1>1, <2>1, BrokerAssumption
  <2>3. owner[q] = n
    BY <2>2 DEF FlowInv, Workers, AtWork
  <2> QED
    BY <2>1, <2>2, <2>3 DEF AllKept, Connected
<1>3. Connected'
  BY <1>1 DEF AllKept, Connected, Open
<1>4. ASSUME NEW t \in Tasks, Accepted(t)' PROVE Kept(t)'
  <2>1. Kept(t) /\ Accepted(t) /\ target'[t] = target[t]
    BY <1>1, <1>4 DEF AllKept, Accepted
  <2>2. CASE InStream(t)
    <3>0. PICK c : c = wconn[target[t]]
      OBVIOUS
    <3>1. PICK i \in Nat : At(c, i, t) \/ WireAt(c, i, t)
      BY <2>2, <3>0 DEF InStream
    <3>2. c \in up /\ c \in Conns /\ Open(c) /\ wconn'[target'[t]] = c
      BY <1>1, <2>1, <2>2, <3>0 DEF InStream
    <3>3. owner[c] = target[t]
      BY <3>1, <3>2 DEF FlowInv, FullInv, QueuedInv, OnePlace
    <3>4. CASE c = q /\ WireAt(c, 1, t)
      <4>1. target[t] = n /\ e = t
        BY <1>2, <3>3, <3>4 DEF WireAt
      <4>2. InHand(t)'
        BY <1>1, <2>1, <4>1 DEF InHand
      <4> QED
        BY <4>2 DEF Kept
    <3>5. CASE ~(c = q /\ WireAt(c, 1, t))
      <4>1. PICK j \in Nat : At(c, j, t)' \/ WireAt(c, j, t)'
        <5>1. CASE At(c, i, t)
          BY <1>1, <5>1 DEF At
        <5>2. CASE WireAt(c, i, t) /\ c # q
          <6>1. wire'[c] = wire[c]
            BY <1>1, <3>2, <5>2
          <6> QED
            BY <5>2, <6>1 DEF WireAt
        <5>3. CASE WireAt(c, i, t) /\ c = q
          <6>1. i # 1 /\ i \in 1..Len(wire[q]) /\ wire[q][i] = t
            BY <3>5, <5>3 DEF WireAt
          <6>2. wire[q] \in Seq(Tasks) /\ wire'[q] = Tail(wire[q])
            BY <1>1, <1>2
          <6>3. i - 1 \in 1..Len(Tail(wire[q])) /\ Tail(wire[q])[i - 1] = t
            <7>1. PICK s \in Seq(Tasks) : s = wire[q]
              BY <6>2
            <7>2. s # <<>> /\ i # 1 /\ i \in 1..Len(s) /\ s[i] = t
              BY <1>1, <6>1, <7>1
            <7>3. /\ Len(Tail(s)) = Len(s) - 1 /\ Len(s) \in Nat
                  /\ \A m \in 1..Len(Tail(s)) : Tail(s)[m] = s[m + 1]
              BY <7>2
            <7> QED
              BY <7>1, <7>2, <7>3
          <6>4. PICK j \in Nat : j \in 1..Len(wire'[c]) /\ wire'[c][j] = t
            <7>1. wire'[c] = Tail(wire[q]) /\ i - 1 \in Nat
              BY <5>3, <6>1, <6>2
            <7> QED
              BY <6>3, <7>1
          <6> QED
            BY <6>4 DEF WireAt
        <5> QED
          BY <3>1, <5>1, <5>2, <5>3
      <4>2. InStream(t)'
        BY <1>1, <3>2, <4>1 DEF InStream, At, WireAt, Open
      <4> QED
        BY <4>2 DEF Kept
    <3> QED
      BY <3>4, <3>5
  <2>3. CASE InHand(t)
    <3>1. target[t] # n
      BY <1>1, <2>3 DEF InHand
    <3>2. InHand(t)'
      BY <1>1, <2>1, <2>3, <3>1 DEF InHand
    <3> QED
      BY <3>2 DEF Kept
  <2>4. CASE results[t] # NoResult
    BY <1>1, <2>4 DEF Kept
  <2> QED
    BY <2>1, <2>2, <2>3, <2>4 DEF Kept
<1> QED
  BY <1>3, <1>4 DEF AllKept

\* Without a fault, what a daemon has in hand is executed, posted, and let go
\* once the master has handled the post.
LEMMA DaemonKeeps ==
  ASSUME FlowInv, AllKept, NEW n \in Nodes,
         (\E o \in Outcomes : ExecDone(n, o)) \/ WorkerStart(n) \/ ReportReturns(n),
         \A kind : ~Fault(kind)
  PROVE  AllKept'
<1>1. /\ UNCHANGED <<up, wire, wconn, owner, gen, buf, results, call, target>>
      /\ wpc \in [Nodes -> WorkerStates] /\ wtask \in [Nodes -> Tasks \cup {NoTask}]
  BY DEF ExecDone, WorkerStart, ReportReturns, vars, brokerVars, routerVars, FlowInv,
     FlowOwnTypeOK
<1>2. Connected'
  <2>1. \A m \in Nodes :
          /\ wpc'[m] \in {"listen", "exec", "report"} <=> wpc[m] \in {"listen", "exec", "report"}
          /\ wconn'[m] = wconn[m]
    BY <1>1 DEF ExecDone, WorkerStart, ReportReturns
  <2> QED
    BY <1>1, <2>1 DEF AllKept, Connected, Open
<1>3. ASSUME NEW t \in Tasks, InHand(t) PROVE InHand(t)'
  <2>1. CASE \E o \in Outcomes : ExecDone(n, o)
    <3>1. PICK o \in Outcomes : ExecDone(n, o)
      BY <2>1
    <3>2. /\ wpc[n] = "exec" /\ wpc' = [wpc EXCEPT ![n] = "report"] /\ wtask' = wtask
          /\ posts' = posts \cup {ResultOf(n, o)} /\ ResultOf(n, o).task = wtask[n]
      BY <3>1 DEF ExecDone, ResultOf
    <3>3. CASE target[t] = n
      BY <1>1, <1>3, <3>2, <3>3 DEF InHand
    <3>4. CASE target[t] # n
      BY <1>1, <1>3, <3>2, <3>4 DEF InHand
    <3> QED
      BY <3>3, <3>4
  <2>2. CASE WorkerStart(n)
    <3>1. wpc[n] = "down" /\ wpc' = [wpc EXCEPT ![n] = "offline"] /\ UNCHANGED <<wtask, posts>>
      BY <2>2 DEF WorkerStart
    <3> QED
      BY <1>1, <1>3, <3>1 DEF InHand
  <2>3. CASE ReportReturns(n)
    <3>1. /\ wpc[n] = "report" /\ \A r \in posts : r.task # wtask[n]
          /\ wpc' = [wpc EXCEPT ![n] = "listen"] /\ wtask' = [wtask EXCEPT ![n] = NoTask]
          /\ posts' = posts
      BY <2>3 DEF ReportReturns
    <3>2. target[t] # n
      BY <1>3, <3>1 DEF InHand
    <3> QED
      BY <1>1, <1>3, <3>1, <3>2 DEF InHand
  <2> QED
    BY <2>1, <2>2, <2>3
<1>4. ASSUME NEW t \in Tasks, InStream(t) PROVE InStream(t)'
  BY <1>1, <1>4 DEF InStream, At, WireAt, Open
<1>5. \A t \in Tasks : Accepted(t)' => Accepted(t)
  BY <1>1 DEF Accepted
<1> QED
  BY <1>1, <1>2, <1>3, <1>4, <1>5 DEF AllKept, Kept

\* A post the master handles ends in a result that can be fetched.
LEMMA DeliverKeeps ==
  ASSUME FlowInv, AllKept, NEW r \in posts, Deliver(r)
  PROVE  AllKept'
<1>1. /\ UNCHANGED <<up, wire, wpc, wconn, wtask, owner, gen, buf, call, target>>
      /\ posts' = posts \ {r} /\ results' = [results EXCEPT ![r.task] = r]
  BY DEF Deliver, SubmitResult, Store, brokerVars
<1>2. /\ r \in TaskResults /\ r.task \in Tasks /\ r # NoResult
      /\ results \in [Tasks -> TaskResults \cup {NoResult}]
  BY ValuesDistinct DEF FlowInv, FullInv, FlowOwnTypeOK, RouterInv, RouterOwnTypeOK, TaskResults
<1>3. Connected'
  BY <1>1 DEF AllKept, Connected, Open
<1>4. ASSUME NEW t \in Tasks, Kept(t) PROVE Kept(t)'
  <2>1. CASE t = r.task
    BY <1>1, <1>2, <2>1 DEF Kept
  <2>2. CASE t # r.task /\ InStream(t)
    <3>1. InStream(t)'
      BY <1>1, <2>2 DEF InStream, At, WireAt, Open
    <3> QED
      BY <3>1 DEF Kept
  <2>3. CASE t # r.task /\ InHand(t)
    <3>1. InHand(t)'
      BY <1>1, <2>3 DEF InHand
    <3> QED
      BY <3>1 DEF Kept
  <2>4. CASE t # r.task /\ results[t] # NoResult
    BY <1>1, <1>2, <2>4 DEF Kept
  <2> QED
    BY <1>4, <2>1, <2>2, <2>3, <2>4 DEF Kept
<1>5. \A t \in Tasks : Accepted(t)' => Accepted(t)
  BY <1>1 DEF Accepted
<1> QED
  BY <1>3, <1>4, <1>5 DEF AllKept

\* A step that is no fault loses nothing; a fault ends the claim for good.
LEMMA LossStep == FlowInv /\ LossInv /\ [TaskFlowNext]_flowVars => LossInv'
<1> SUFFICES ASSUME FlowInv, LossInv, [TaskFlowNext]_flowVars, faults' = 0
             PROVE  AllKept'
  BY DEF LossInv
<1>1. faults \in Nat
  BY TaskFlowAssumption DEF FlowInv, FlowOwnTypeOK
<1>2. \A kind : ~Fault(kind)
  BY <1>1 DEF Fault
<1>3. ~MasterRestart /\ \A c \in Conns : ~LinkDrop(c)
  BY <1>2 DEF MasterRestart, LinkDrop
<1>4. \A n \in Nodes : ~ExecRaises(n) /\ ~ReportRaises(n) /\ ~WorkerCrash(n)
  BY <1>2 DEF ExecRaises, ReportRaises, WorkerCrash
<1>5. \A r \in posts : ~LosePost(r)
  BY <1>2 DEF LosePost
<1>6. faults = 0
  BY <1>2, <1>3, <1>4, <1>5 DEF TaskFlowNext, ClientCall, WaiterStep, Send, Idle, NoticeGone, PingAll,
     OpenStream, ExecDone, WorkerStart, Read, ReportReturns, StreamEnds, Deliver, flowVars
<1>7. AllKept
  BY <1>6 DEF LossInv
<1>8. AcceptedStays
  BY TargetStays
<1>9. ASSUME NEW t \in Tasks, NEW n \in Nodes, ClientCall(t, n) PROVE AllKept'
  <2>1. CASE Reject(t, n) /\ UNCHANGED <<workerVars, faults>>
    BY <1>7, <1>8, <2>1, MasterKeeps
  <2>2. CASE (DispatchAsync(t, n) \/ DispatchSync(t, n)) /\ UNCHANGED workerVars
    BY <1>7, <1>8, <2>2, DispatchKeeps DEF DispatchAsync, DispatchSync
  <2> QED
    BY <1>9, <2>1, <2>2 DEF ClientCall
<1>10. ASSUME NEW t \in Tasks, WaiterStep(t) PROVE AllKept'
  BY <1>7, <1>8, <1>10, MasterKeeps
<1>11. ASSUME NEW c \in Conns, Send(c) PROVE AllKept'
  BY <1>7, <1>8, <1>11, SendKeeps
<1>12. ASSUME NEW c \in Conns, Idle(c) PROVE AllKept'
  BY <1>7, <1>8, <1>12, MasterKeeps
<1>13. \A c \in Conns : ~NoticeGone(c)
  BY <1>7 DEF NoticeGone, Finish, AllKept, Connected
<1>14. CASE PingAll
  BY <1>7, <1>8, <1>14, MasterKeeps
<1>15. ASSUME NEW n \in Nodes, NEW c \in Conns, OpenStream(n, c) PROVE AllKept'
  BY <1>7, <1>15, OpenStreamKeeps
<1>16. ASSUME NEW n \in Nodes, \/ \E o \in Outcomes : ExecDone(n, o)
                               \/ WorkerStart(n) \/ ReportReturns(n)
       PROVE  AllKept'
  BY <1>2, <1>7, <1>16, DaemonKeeps
<1>17. ASSUME NEW n \in Nodes, Read(n) PROVE AllKept'
  BY <1>7, <1>17, ReadKeeps
<1>18. \A n \in Nodes : ~StreamEnds(n)
  BY <1>7 DEF StreamEnds, AllKept, Connected
<1>19. ASSUME NEW r \in posts, Deliver(r) PROVE AllKept'
  BY <1>7, <1>19, DeliverKeeps
<1>20. CASE UNCHANGED flowVars
  BY <1>7, <1>20 DEF flowVars, vars, brokerVars, routerVars, workerVars, AllKept, Connected,
     Kept, InStream, InHand, At, WireAt, Open, Accepted
<1> QED
  BY <1>3, <1>4, <1>5, <1>9, <1>10, <1>11, <1>12, <1>13, <1>14, <1>15, <1>16, <1>17, <1>18,
     <1>19, <1>20 DEF TaskFlowNext

\* In the initial states nothing is accepted and nothing is open.
LEMMA LossInit == TaskFlowInit => LossInv
  BY DEF TaskFlowInit, RouterInit, BrokerInit, LossInv, AllKept, Connected, Open, Accepted

\* Without a fault no accepted task is lost, whatever the order of the steps
\* of clients, timers, streams and daemons.
THEOREM TaskFlowNothingLost == TaskFlowSpec => []NothingLost
<1>1. FlowInv /\ LossInv => NothingLost
  BY UnderWayIs DEF LossInv, AllKept, Kept, NothingLost
<1> QED
  BY <1>1, FlowInvariance, LossInit, LossStep, PTL DEF TaskFlowSpec

=============================================================================
