------------------------------- MODULE Router -------------------------------
(***************************************************************************)
(* The task router of the master (master/router.py) with the handlers that *)
(* call it (dispatch, dispatch_sync, report_result in master/api/tasks.py) *)
(* on top of the stream pool of module Broker.                             *)
(*                                                                         *)
(* Every task id stands for one client call: Task() draws a fresh uuid4.   *)
(* dispatch() awaits only put() on an unbounded queue, which does not      *)
(* suspend, and wait_result() finds the future dispatch() just stored, so  *)
(* a call runs in one action up to asyncio.wait_for.  wait_for is modelled *)
(* as Python 3.12 (master/Dockerfile) runs it: a timer may fire after the  *)
(* future was resolved and before the waiter resumed, and a result may be  *)
(* submitted after the timer fired and before the waiter resumed.          *)
(***************************************************************************)
EXTENDS Broker, FiniteSets

CONSTANTS
  Outcomes,   \* [status, code] pairs a worker may report
  NoResult,   \* dict.get() of an absent task id; no reply yet
  NoFuture,   \* no future was created
  Pending,    \* a future that is not done
  Cancelled   \* a future wait_for cancelled

TimeoutOutcome == [status |-> "timeout", code |-> "none"]

TaskResults == [task : Tasks, node : Nodes, outcome : Outcomes]

\* What wait_result() makes up when its timer fires: node_id is "" and
\* error_code keeps its default None.
TimeoutResult(t) == [task |-> t, node |-> NoNode, outcome |-> TimeoutOutcome]

\* The bodies a dispatch_sync may answer with, and none.
Replies ==
  TaskResults \cup {NoResult} \cup {TimeoutResult(t) : t \in Tasks}

ASSUME RouterAssumption ==
  /\ NoResult \notin TaskResults
  /\ \A t \in Tasks : NoResult # TimeoutResult(t)
  /\ {NoFuture, Pending, Cancelled} \cap TaskResults = {}
  /\ Cardinality({NoFuture, Pending, Cancelled}) = 3

VARIABLES
  target,    \* Task.target_node
  pending,   \* the keys of Router._pending
  fut,       \* the future made for a task
  results,   \* Router._results
  call,      \* how far the client's call has come
  reply      \* the body dispatch_sync answered with

routerVars == <<target, pending, fut, results, call, reply>>

vars == <<brokerVars, routerVars>>

(***************************************************************************)
(* "async": answered "dispatched";  "rejected": answered 503;              *)
(* "waiting": suspended in wait_for;  "expired": its timer fired, not yet  *)
(* resumed;  "answered": dispatch_sync returned;  "lost": the master went  *)
(* down before the call's outcome could be fetched.                        *)
(***************************************************************************)
CallStates ==
  {"idle", "async", "rejected", "waiting", "expired", "answered", "lost"}

Accepted(t) == call[t] \notin {"idle", "rejected"}

RouterTypeOK ==
  /\ BrokerTypeOK
  /\ target \in [Tasks -> Nodes \cup {NoNode}]
  /\ pending \in SUBSET Tasks
  /\ fut \in [Tasks -> TaskResults \cup {NoFuture, Pending, Cancelled}]
  /\ results \in [Tasks -> TaskResults \cup {NoResult}]
  /\ call \in [Tasks -> CallStates]
  /\ reply \in [Tasks -> Replies]

RouterInit ==
  /\ BrokerInit
  /\ target = [t \in Tasks |-> NoNode]
  /\ pending = {}
  /\ fut = [t \in Tasks |-> NoFuture]
  /\ results = [t \in Tasks |-> NoResult]
  /\ call = [t \in Tasks |-> "idle"]
  /\ reply = [t \in Tasks |-> NoResult]

-----------------------------------------------------------------------------
\* dispatch() returns False: the handler answers 503 node_offline.
Reject(t, n) ==
  /\ call[t] = "idle"
  /\ ~IsConnected(n)
  /\ target' = [target EXCEPT ![t] = n]
  /\ call' = [call EXCEPT ![t] = "rejected"]
  /\ UNCHANGED <<brokerVars, pending, fut, results, reply>>

\* dispatch() returns True; the handler answers, or waits for the result.
Dispatch(t, n, next) ==
  /\ call[t] = "idle"
  /\ IsConnected(n)
  /\ Put(n, t)
  /\ target' = [target EXCEPT ![t] = n]
  /\ pending' = pending \cup {t}
  /\ fut' = [fut EXCEPT ![t] = Pending]
  /\ call' = [call EXCEPT ![t] = next]
  /\ UNCHANGED <<queues, owner, gen, results, reply>>

DispatchAsync(t, n) == Dispatch(t, n, "async")

DispatchSync(t, n) == Dispatch(t, n, "waiting")

\* The timer of wait_for fires: task.cancel() cancels the future unless it
\* is done; either way the waiter will resume with TimeoutError.
Expire(t) ==
  /\ call[t] = "waiting"
  /\ call' = [call EXCEPT ![t] = "expired"]
  /\ fut' = [fut EXCEPT ![t] = IF @ = Pending THEN Cancelled ELSE @]
  /\ UNCHANGED <<brokerVars, target, pending, results, reply>>

\* The waiter resumes with the future's result.
WakeResult(t) ==
  /\ call[t] = "waiting"
  /\ fut[t] \in TaskResults
  /\ call' = [call EXCEPT ![t] = "answered"]
  /\ reply' = [reply EXCEPT ![t] = fut[t]]
  /\ UNCHANGED <<brokerVars, target, pending, fut, results>>

\* Mutant: the TimeoutError branch answers only if it pops an entry.
MutWakeTimeoutNeedsEntry(t) ==
  /\ call[t] = "expired"
  /\ t \in pending
  /\ pending' = pending \ {t}
  /\ call' = [call EXCEPT ![t] = "answered"]
  /\ reply' = [reply EXCEPT ![t] = TimeoutResult(t)]
  /\ UNCHANGED <<brokerVars, target, fut, results>>

\* Mutant: the TimeoutError branch does not pop the entry.
MutWakeTimeoutLeaks(t) ==
  /\ call[t] = "expired"
  /\ call' = [call EXCEPT ![t] = "answered"]
  /\ reply' = [reply EXCEPT ![t] = TimeoutResult(t)]
  /\ UNCHANGED <<brokerVars, target, pending, fut, results>>

\* Mutant: the timeout is recorded as the task's result.
MutWakeTimeoutRecords(t) ==
  /\ call[t] = "expired"
  /\ pending' = pending \ {t}
  /\ call' = [call EXCEPT ![t] = "answered"]
  /\ reply' = [reply EXCEPT ![t] = TimeoutResult(t)]
  /\ results' = [results EXCEPT ![t] = TimeoutResult(t)]
  /\ UNCHANGED <<brokerVars, target, fut>>

\* The waiter resumes with TimeoutError.
WakeTimeout(t) ==
  /\ call[t] = "expired"
  /\ pending' = pending \ {t}
  /\ call' = [call EXCEPT ![t] = "answered"]
  /\ reply' = [reply EXCEPT ![t] = TimeoutResult(t)]
  /\ UNCHANGED <<brokerVars, target, fut, results>>

\* Mutant: a popped future is not resolved.
MutStoreNoWake(r) ==
  /\ results' = [results EXCEPT ![r.task] = r]
  /\ pending' = pending \ {r.task}
  /\ UNCHANGED fut

\* Mutant: the result goes to the waiter only and is not kept.
MutStoreWaiterOnly(r) ==
  /\ pending' = pending \ {r.task}
  /\ fut' = [fut EXCEPT ![r.task] =
               IF r.task \in pending /\ @ = Pending THEN r ELSE @]
  /\ UNCHANGED results

\* submit_result(): the result is kept, its entry popped, and the future
\* resolved unless it is done.
Store(r) ==
  /\ results' = [results EXCEPT ![r.task] = r]
  /\ pending' = pending \ {r.task}
  /\ fut' = [fut EXCEPT ![r.task] =
               IF r.task \in pending /\ @ = Pending THEN r ELSE @]

\* POST /api/tasks/result.
SubmitResult(r) == Store(r) /\ UNCHANGED <<brokerVars, target, call, reply>>

\* A worker reports, under the node id it opened its stream with, a task it
\* was sent; nothing in the master stops it from reporting it again.
WorkerReports(r) ==
  /\ Accepted(r.task)
  /\ Queued(r.task) = {}
  /\ r.node = target[r.task]
  /\ SubmitResult(r)

\* The master process dies and a new one starts (restart: unless-stopped):
\* streams, queues, futures and results were only in memory.
Restart ==
  /\ queues' = [n \in Nodes |-> NoConn]
  /\ gen' = [c \in Conns |-> "closed"]
  /\ buf' = [c \in Conns |-> <<>>]
  /\ pending' = {}
  /\ fut' = [t \in Tasks |-> NoFuture]
  /\ results' = [t \in Tasks |-> NoResult]
  /\ call' = [t \in Tasks |-> IF call[t] \in {"async", "waiting", "expired"}
                              THEN "lost" ELSE call[t]]
  /\ UNCHANGED <<owner, target, reply>>

-----------------------------------------------------------------------------
StreamStep(c) == (Take(c) \/ Block(c) \/ Timeout(c)) /\ UNCHANGED routerVars

RouterNext ==
  \/ \E n \in Nodes, c \in Conns : Connect(n, c) /\ UNCHANGED routerVars
  \/ BroadcastPing /\ UNCHANGED routerVars
  \/ \E c \in Conns : StreamStep(c) \/ (Finish(c) /\ UNCHANGED routerVars)
  \/ \E t \in Tasks, n \in Nodes :
       Reject(t, n) \/ DispatchAsync(t, n) \/ DispatchSync(t, n)
  \/ \E t \in Tasks : Expire(t) \/ WakeResult(t) \/ WakeTimeout(t)
  \/ \E r \in TaskResults : WorkerReports(r)
  \/ Restart

RouterSpec == RouterInit /\ [][RouterNext]_vars

-----------------------------------------------------------------------------
\* No lost wakeup: a waiting dispatch_sync either has a future a result can
\* still find, or one already resolved with the result of its own task, and
\* that result is also kept for get_result().  This is what the order of
\* create, store, push, pop and set_result in Router has to guarantee.
WaiterReachable ==
  \A t \in Tasks : call[t] = "waiting" =>
    \/ t \in pending /\ fut[t] = Pending
    \/ fut[t] \in TaskResults /\ fut[t].task = t /\ results[t] # NoResult

\* A dispatch_sync that was answered leaves no entry in _pending, whichever
\* of the timer, the result and the wakeup came first.
NoEntryAfterAnswer == \A t \in Tasks : call[t] = "answered" => t \notin pending

\* A task an asynchronous dispatch accepted is either still expected or its
\* result can be fetched: polling GET /api/tasks/{id} cannot miss it.
AcceptedAccounted ==
  \A t \in Tasks : call[t] = "async" => t \in pending \/ results[t] # NoResult

\* A task is in at most one queue, once, and only in a queue made for its
\* target: replacing and dropping streams never duplicates or misroutes it.
QueuedOnce ==
  \A t \in Tasks :
    \A c, d \in Queued(t) :
      /\ c = d
      /\ owner[c] = target[t]
      /\ \A i, j \in 1..Len(buf[c]) : buf[c][i] = t /\ buf[c][j] = t => i = j

\* Every dispatch_sync is answered, with a result or with a timeout, whatever
\* becomes of the worker, unless the master itself goes down.
SyncAnswered ==
  \A t \in Tasks : (call[t] = "waiting") ~> (call[t] \in {"answered", "lost"})
=============================================================================
