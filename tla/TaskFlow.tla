------------------------------ MODULE TaskFlow ------------------------------
(***************************************************************************)
(* The path of a task from POST /api/tasks/dispatch to its result: the     *)
(* master (module Router) composed with the worker daemons                 *)
(* (worker/daemon.py, worker/reporter.py) and the network between them.    *)
(*                                                                         *)
(* The daemon is sequential: it reads one event, executes it, posts the    *)
(* result, and only then reads on.  Nothing is retried.  Pings are not put *)
(* on the wire, since _process_sse_event() drops them at once.             *)
(***************************************************************************)
EXTENDS Router

CONSTANTS
  NoTask,      \* the daemon executes nothing
  NoOutcome,   \* no execution of the task has ended
  Faults,      \* the kinds of fault that may occur
  MaxFaults    \* bound: how many of them may occur

FaultKinds == {"link", "post", "crash", "restart", "exec", "reply"}

ASSUME TaskFlowAssumption ==
  /\ NoTask \notin Tasks
  /\ NoOutcome \notin Outcomes
  /\ Faults \subseteq FaultKinds
  /\ MaxFaults \in Nat

VARIABLES
  up,        \* the connections whose transport works
  wire,      \* task events sent on a connection and not yet read
  wpc,       \* what the daemon of a node is doing
  wconn,     \* the stream the daemon reads
  wtask,     \* the task the daemon handles
  posts,     \* results posted and not yet handled by the master
  faults,    \* number of faults so far
  accepted,  \* history: tasks in the order dispatch() accepted them
  started,   \* history: tasks in the order daemons started them
  produced   \* history: what the execution of a task gave

workerVars == <<up, wire, wpc, wconn, wtask, posts>>
history == <<accepted, started, produced>>
flowVars == <<vars, workerVars, faults, history>>

(***************************************************************************)
(* "down": not running;  "offline": in run(), without a stream;            *)
(* "listen": in aiter_bytes();  "exec": in an executor;  "report": in      *)
(* Reporter.report().                                                      *)
(***************************************************************************)
WorkerStates == {"down", "offline", "listen", "exec", "report"}

TaskFlowTypeOK ==
  /\ RouterTypeOK
  /\ up \in SUBSET Conns
  /\ wire \in [Conns -> Seq(Tasks)]
  /\ wpc \in [Nodes -> WorkerStates]
  /\ wconn \in [Nodes -> Conns \cup {NoConn}]
  /\ wtask \in [Nodes -> Tasks \cup {NoTask}]
  /\ posts \in SUBSET TaskResults
  /\ faults \in 0..MaxFaults
  /\ accepted \in Seq(Tasks) /\ started \in Seq(Tasks)
  /\ produced \in [Tasks -> Outcomes \cup {NoOutcome}]

TaskFlowInit ==
  /\ RouterInit
  /\ up = {}
  /\ wire = [c \in Conns |-> <<>>]
  /\ wpc = [n \in Nodes |-> "down"]
  /\ wconn = [n \in Nodes |-> NoConn]
  /\ wtask = [n \in Nodes |-> NoTask]
  /\ posts = {}
  /\ faults = 0
  /\ accepted = <<>> /\ started = <<>>
  /\ produced = [t \in Tasks |-> NoOutcome]

Fault(kind) ==
  /\ kind \in Faults
  /\ faults < MaxFaults
  /\ faults' = faults + 1

-----------------------------------------------------------------------------
\* The master's side.

\* A call of the client; dispatch_sync and dispatch differ in the next state.
ClientCall(t, n) ==
  /\ \/ Reject(t, n) /\ UNCHANGED accepted
     \/ (DispatchAsync(t, n) \/ DispatchSync(t, n))
        /\ accepted' = Append(accepted, t)
  /\ UNCHANGED <<workerVars, faults, started, produced>>

\* The generator takes an event, and a task goes out on the transport, if
\* that still works.
Send(c) ==
  /\ Take(c)
  /\ wire' = [wire EXCEPT ![c] =
                IF c \in up /\ Head(buf[c]) \in Tasks
                THEN Append(@, Head(buf[c])) ELSE @]
  /\ UNCHANGED <<routerVars, up, wpc, wconn, wtask, posts, faults, history>>

Idle(c) ==
  /\ Block(c) \/ Timeout(c)
  /\ UNCHANGED <<routerVars, workerVars, faults, history>>

\* The server notices that the client is gone and ends the generator; a new
\* stream of the same node may have been opened long before.
NoticeGone(c) ==
  /\ c \notin up
  /\ Finish(c)
  /\ UNCHANGED <<routerVars, workerVars, faults, history>>

PingAll ==
  /\ BroadcastPing
  /\ UNCHANGED <<routerVars, workerVars, faults, history>>

\* A waiter's timer fires, or a waiter resumes.
WaiterStep(t) ==
  /\ Expire(t) \/ WakeResult(t) \/ WakeTimeout(t)
  /\ UNCHANGED <<workerVars, faults, history>>

\* The master handles a POST /api/tasks/result.
Deliver(r) ==
  /\ r \in posts
  /\ SubmitResult(r)
  /\ posts' = posts \ {r}
  /\ UNCHANGED <<up, wire, wpc, wconn, wtask, faults, history>>

MasterRestart ==
  /\ Fault("restart")
  /\ Restart
  /\ up' = {}
  /\ UNCHANGED <<wire, wpc, wconn, wtask, posts, history>>

-----------------------------------------------------------------------------
\* The worker's side.

\* The supervisor starts the daemon, which registers.  Whether the master
\* accepted the registration is not looked at.
WorkerStart(n) ==
  /\ wpc[n] = "down"
  /\ wpc' = [wpc EXCEPT ![n] = "offline"]
  /\ UNCHANGED <<vars, up, wire, wconn, wtask, posts, faults, history>>

\* Mutant: a new stream starts with a task the master still waits for.
MutOpenStream(n, c) ==
  /\ wpc[n] = "offline"
  /\ \A m \in Nodes : wconn[m] # c
  /\ Connect(n, c)
  /\ up' = up \cup {c}
  /\ \E s \in {<<>>} \cup {<<t>> : t \in {u \in pending : target[u] = n}} :
       wire' = [wire EXCEPT ![c] = s]
  /\ wconn' = [wconn EXCEPT ![n] = c]
  /\ wpc' = [wpc EXCEPT ![n] = "listen"]
  /\ UNCHANGED <<routerVars, wtask, posts, faults, history>>

\* _listen_sse() opens a stream, at the start or after reconnect_interval.
OpenStream(n, c) ==
  /\ wpc[n] = "offline"
  /\ \A m \in Nodes : wconn[m] # c
  /\ Connect(n, c)
  /\ up' = up \cup {c}
  /\ wire' = [wire EXCEPT ![c] = <<>>]
  /\ wconn' = [wconn EXCEPT ![n] = c]
  /\ wpc' = [wpc EXCEPT ![n] = "listen"]
  /\ UNCHANGED <<routerVars, wtask, posts, faults, history>>

\* Mutant: the two parts of the split buffer are swapped.
MutRead(n) ==
  /\ wpc[n] = "listen"
  /\ wire[wconn[n]] # <<>>
  /\ LET t == Tail(wire[wconn[n]]) IN
       /\ wtask' = [wtask EXCEPT ![n] = t]
       /\ started' = Append(started, t)
  /\ wire' = [wire EXCEPT ![wconn[n]] = <<Head(@)>>]
  /\ wpc' = [wpc EXCEPT ![n] = "exec"]
  /\ UNCHANGED <<vars, up, wconn, posts, faults, accepted, produced>>

\* The next event is a task: its executor is called.
Read(n) ==
  /\ wpc[n] = "listen"
  /\ wire[wconn[n]] # <<>>
  /\ LET t == Head(wire[wconn[n]]) IN
       /\ wtask' = [wtask EXCEPT ![n] = t]
       /\ started' = Append(started, t)
  /\ wire' = [wire EXCEPT ![wconn[n]] = Tail(@)]
  /\ wpc' = [wpc EXCEPT ![n] = "exec"]
  /\ UNCHANGED <<vars, up, wconn, posts, faults, accepted, produced>>

ResultOf(n, o) == [task |-> wtask[n], node |-> n, outcome |-> o]

\* The executor returns and the result is posted.
ExecDone(n, o) ==
  /\ wpc[n] = "exec"
  /\ produced' = [produced EXCEPT ![wtask[n]] = o]
  /\ posts' = posts \cup {ResultOf(n, o)}
  /\ wpc' = [wpc EXCEPT ![n] = "report"]
  /\ UNCHANGED <<vars, up, wire, wconn, wtask, faults, accepted, started>>

\* Mutant: the daemon waits until the master has the result.
MutReportReturns(n) ==
  /\ wpc[n] = "report"
  /\ results[wtask[n]] # NoResult
  /\ wpc' = [wpc EXCEPT ![n] = "listen"]
  /\ wtask' = [wtask EXCEPT ![n] = NoTask]
  /\ UNCHANGED <<vars, up, wire, wconn, posts, faults, history>>

\* The daemon is back in aiter_bytes(), with the response or with a URLError
\* report() swallowed.  Something between the two may answer with an error
\* before the master has the result.
ReportReturns(n) ==
  /\ wpc[n] = "report"
  /\ \/ (\A r \in posts : r.task # wtask[n]) /\ UNCHANGED faults
     \/ Fault("reply")
  /\ wpc' = [wpc EXCEPT ![n] = "listen"]
  /\ wtask' = [wtask EXCEPT ![n] = NoTask]
  /\ UNCHANGED <<vars, up, wire, wconn, posts, history>>

\* run() is back in its loop: the stream is closed, and what was sent on it
\* and not read is gone.
LeaveStream(n, state) ==
  /\ up' = up \ {wconn[n]}
  /\ wire' = [c \in Conns |-> IF c = wconn[n] THEN <<>> ELSE wire[c]]
  /\ wconn' = [wconn EXCEPT ![n] = NoConn]
  /\ wtask' = [wtask EXCEPT ![n] = NoTask]
  /\ wpc' = [wpc EXCEPT ![n] = state]
  /\ UNCHANGED <<vars, posts, history>>

\* The stream ends or fails under the daemon.
StreamEnds(n) ==
  /\ wpc[n] = "listen"
  /\ wconn[n] \notin up
  /\ LeaveStream(n, "offline")
  /\ UNCHANGED faults

\* An executor raises; _handle_task(), _process_sse_event() (which catches
\* JSONDecodeError only) and _listen_sse() all propagate it.
ExecRaises(n) ==
  /\ Fault("exec")
  /\ wpc[n] = "exec"
  /\ LeaveStream(n, "offline")

\* The POST was sent and its response does not come in time: urlopen()
\* raises TimeoutError or ConnectionError, which are not URLError.
ReportRaises(n) ==
  /\ Fault("reply")
  /\ wpc[n] = "report"
  /\ LeaveStream(n, "offline")

WorkerCrash(n) ==
  /\ Fault("crash")
  /\ wpc[n] # "down"
  /\ LeaveStream(n, "down")

-----------------------------------------------------------------------------
\* The network.

\* A connection fails; the worker may still read a prefix of what was sent.
LinkDrop(c) ==
  /\ Fault("link")
  /\ c \in up
  /\ up' = up \ {c}
  /\ \E k \in 0..Len(wire[c]) :
       wire' = [wire EXCEPT ![c] = SubSeq(@, 1, k)]
  /\ UNCHANGED <<vars, wpc, wconn, wtask, posts, history>>

\* A posted result never reaches the master.
LosePost(r) ==
  /\ Fault("post")
  /\ r \in posts
  /\ posts' = posts \ {r}
  /\ UNCHANGED <<vars, up, wire, wpc, wconn, wtask, history>>

-----------------------------------------------------------------------------
TaskFlowNext ==
  \/ \E t \in Tasks, n \in Nodes : ClientCall(t, n)
  \/ \E t \in Tasks : WaiterStep(t)
  \/ \E c \in Conns : Send(c) \/ Idle(c) \/ NoticeGone(c) \/ LinkDrop(c)
  \/ PingAll
  \/ MasterRestart
  \/ \E n \in Nodes, c \in Conns : OpenStream(n, c)
  \/ \E n \in Nodes, o \in Outcomes : ExecDone(n, o)
  \/ \E n \in Nodes :
       \/ WorkerStart(n) \/ Read(n) \/ ReportReturns(n) \/ StreamEnds(n)
       \/ ExecRaises(n) \/ ReportRaises(n) \/ WorkerCrash(n)
  \/ \E r \in posts : Deliver(r) \/ LosePost(r)

\* The event loop runs what is ready, the server notices dead clients (every
\* stream is written to at least every 30 s), the supervisor restarts the
\* daemon, executors end (shell commands have a timeout) and the network
\* delivers what it does not lose.
TaskFlowFairness ==
  /\ \A c \in Conns : WF_flowVars(Send(c)) /\ WF_flowVars(NoticeGone(c))
  /\ \A t \in Tasks : WF_flowVars(WaiterStep(t))
  /\ \A n \in Nodes :
       /\ WF_flowVars(WorkerStart(n))
       /\ WF_flowVars(\E c \in Conns : OpenStream(n, c))
       /\ WF_flowVars(Read(n))
       /\ WF_flowVars(\E o \in Outcomes : ExecDone(n, o))
       /\ WF_flowVars(ReportReturns(n))
       /\ WF_flowVars(StreamEnds(n))
  /\ WF_flowVars(\E r \in posts : Deliver(r))

TaskFlowSpec ==
  TaskFlowInit /\ [][TaskFlowNext]_flowVars /\ TaskFlowFairness

-----------------------------------------------------------------------------
\* At-most-once execution: however streams are dropped, replaced and raced,
\* and whichever process restarts, no task is started twice.
AtMostOnce ==
  \A i, j \in 1..Len(started) : started[i] = started[j] => i = j

Position(t) == CHOOSE i \in 1..Len(accepted) : accepted[i] = t

\* A node starts its tasks in the order the master accepted them, also those
\* sent on different streams; some may be missing.
StartedInOrder ==
  \A i, j \in 1..Len(started) :
    (i < j /\ target[started[i]] = target[started[j]])
      => Position(started[i]) < Position(started[j])

\* What the master keeps for a task, and what it answered a waiting client,
\* is what the execution of that task on its target gave, or the timeout.
AnswersAreTrue ==
  \A t \in Tasks : \A r \in {results[t], reply[t]} :
    r \in TaskResults =>
      r = [task |-> t, node |-> target[t], outcome |-> produced[t]]

\* Where the target of a task still gets it from or has not yet reported it:
\* the queue and the wire of the stream its daemon reads, the daemon itself,
\* the POST whose response the daemon waits for.
UnderWay(t) ==
  LET n == target[t]
      c == wconn[n]
  IN  \/ /\ c \in up /\ Open(c)
         /\ c \in Queued(t) \/ \E i \in 1..Len(wire[c]) : wire[c][i] = t
      \/ wpc[n] = "exec" /\ wtask[n] = t
      \/ wpc[n] = "report" /\ wtask[n] = t /\ \E r \in posts : r.task = t

\* A task is lost by a fault only: as long as nothing failed, every accepted
\* task is on its way to the daemon that will execute it, or its result can be
\* fetched.  The order of steps alone (keep-alive timers against events,
\* streams being opened, results of tasks nobody waits for any more) loses none.
NothingLost ==
  faults = 0 =>
    \A t \in Tasks : Accepted(t) => UnderWay(t) \/ results[t] # NoResult

\* How far a task has come, to an observer of all processes.
Stage(t) ==
  CASE call[t] = "idle" -> "new"
    [] call[t] = "rejected" -> "refused"
    [] produced[t] # NoOutcome -> "ended"
    [] Accepted(t) /\ produced[t] = NoOutcome ->
         IF \E i \in 1..Len(started) : started[i] = t THEN "started" ELSE "accepted"

OutcomeIn(r) == IF r = NoResult THEN NoOutcome ELSE r.outcome

Service == INSTANCE TaskService WITH
  TimedOut <- TimeoutOutcome,
  stage <- [t \in Tasks |-> Stage(t)],
  place <- target,
  gave <- produced,
  known <- [t \in Tasks |-> OutcomeIn(results[t])],
  asking <- {t \in Tasks : call[t] \in {"waiting", "expired"}},
  answer <- [t \in Tasks |-> OutcomeIn(reply[t])]

\* The composition implements the abstract service: a task goes through its
\* stages once, a client is answered once, with the outcome or the timeout,
\* and an outcome that can be fetched never changes: late and timed-out
\* results, retried streams and restarts are invisible but for forgetting.
ImplementsService == Service!ServiceSpec

\* As long as nothing fails, a task accepted by dispatch ends with a result
\* that can be fetched.
AsyncDelivered ==
  \A t \in Tasks : (call[t] = "async") ~> (results[t] # NoResult \/ faults > 0)

\* After any of the faults the daemon comes back to reading a stream that
\* works: no failure wedges it in its loop.
WorkerListensAgain ==
  \A n \in Nodes : []<>(wpc[n] = "listen" /\ wconn[n] \in up)

\* user_guide.md: node_offline means "Target worker is not connected to
\* Master".
OfflineMeansNotConnected ==
  [][\A t \in Tasks, n \in Nodes :
       Reject(t, n) => ~(wconn[n] \in up /\ gen[wconn[n]] # "closed")]_flowVars

\* README.md: the worker "executes tasks, reports results".
StartedIsReported ==
  \A t \in Tasks :
    (\E i \in 1..Len(started) : started[i] = t) ~> (results[t] # NoResult)
=============================================================================
