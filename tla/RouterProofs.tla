---------------------------- MODULE RouterProofs ----------------------------
(***************************************************************************)
(* Proofs about the task router: type correctness, no lost wakeup, no      *)
(* entry left behind by an answered call, no accepted task unaccounted     *)
(* for, for any sets of nodes, streams, tasks and outcomes.                *)
(*                                                                         *)
(* NoEntryAfterAnswer is not inductive: a waiter that resumes with a       *)
(* result pops nothing.  ResolvedIsPopped says why it need not.            *)
(***************************************************************************)
EXTENDS Router, BrokerProofs

\* A future that holds a result has no entry any more.
ResolvedIsPopped == \A t \in Tasks : fut[t] \in TaskResults => t \notin pending

\* The part of the router's state in its type.
RouterOwnTypeOK ==
  /\ target \in [Tasks -> Nodes \cup {NoNode}]
  /\ pending \in SUBSET Tasks
  /\ fut \in [Tasks -> TaskResults \cup {NoFuture, Pending, Cancelled}]
  /\ results \in [Tasks -> TaskResults \cup {NoResult}]
  /\ call \in [Tasks -> CallStates]
  /\ reply \in [Tasks -> Replies]

RouterInv ==
  /\ BrokerInv
  /\ RouterOwnTypeOK
  /\ WaiterReachable
  /\ NoEntryAfterAnswer
  /\ AcceptedAccounted
  /\ ResolvedIsPopped

CallInv ==
  WaiterReachable /\ NoEntryAfterAnswer /\ AcceptedAccounted /\ ResolvedIsPopped

\* The model values are not results.
LEMMA ValuesDistinct ==
  /\ NoResult \notin TaskResults
  /\ Pending \notin TaskResults
  /\ Cancelled \notin TaskResults
  /\ NoFuture \notin TaskResults
  BY RouterAssumption

LEMMA RouterInitInv == RouterInit => RouterInv
<1> SUFFICES ASSUME RouterInit PROVE RouterInv
  OBVIOUS
<1>1. BrokerInv
  BY BrokerInitInv DEF RouterInit
<1>2. RouterOwnTypeOK
  BY DEF RouterInit, RouterOwnTypeOK, CallStates, Replies
<1>3. CallInv
  BY ValuesDistinct DEF RouterInit, CallInv, WaiterReachable,
     NoEntryAfterAnswer, AcceptedAccounted, ResolvedIsPopped
<1> QED
  BY <1>1, <1>2, <1>3 DEF RouterInv, CallInv

\* A step of the pool alone.
LEMMA PoolStepInv ==
  ASSUME RouterInv, BrokerInv', UNCHANGED routerVars
  PROVE  RouterInv'
<1>1. RouterOwnTypeOK'
  BY DEF RouterInv, RouterOwnTypeOK, routerVars
<1>2. CallInv'
  BY DEF RouterInv, CallInv, WaiterReachable, NoEntryAfterAnswer,
     AcceptedAccounted, ResolvedIsPopped, routerVars
<1> QED
  BY <1>1, <1>2 DEF RouterInv, CallInv

\* 503: only the call's state and target are written.
LEMMA RejectInv ==
  ASSUME RouterInv, NEW t \in Tasks, NEW n \in Nodes, Reject(t, n)
  PROVE  RouterInv'
<1>1. BrokerInv'
  BY QueueStepInv DEF RouterInv, BrokerInv, BrokerTypeOK, Reject, brokerVars
<1>2. RouterOwnTypeOK'
  BY DEF RouterInv, RouterOwnTypeOK, Reject, CallStates
<1>3. CallInv'
  BY DEF RouterInv, RouterOwnTypeOK, CallInv, WaiterReachable,
     NoEntryAfterAnswer, AcceptedAccounted, ResolvedIsPopped, Reject
<1> QED
  BY <1>1, <1>2, <1>3 DEF RouterInv, CallInv

\* dispatch(): the fresh future is pending and its entry is there before
\* anybody can ask for it.
LEMMA DispatchInv ==
  ASSUME RouterInv, NEW t \in Tasks, NEW n \in Nodes,
         NEW next \in {"async", "waiting"}, Dispatch(t, n, next)
  PROVE  RouterInv'
<1>1. BrokerInv'
  BY PutInv DEF RouterInv, Dispatch, Events
<1>2. RouterOwnTypeOK'
  BY DEF RouterInv, RouterOwnTypeOK, Dispatch, CallStates
<1>3. CallInv'
  <2>1. WaiterReachable'
    BY DEF RouterInv, RouterOwnTypeOK, WaiterReachable, Dispatch
  <2>2. NoEntryAfterAnswer'
    BY DEF RouterInv, RouterOwnTypeOK, NoEntryAfterAnswer, Dispatch
  <2>3. AcceptedAccounted'
    BY DEF RouterInv, RouterOwnTypeOK, AcceptedAccounted, Dispatch
  <2>4. ResolvedIsPopped'
    BY ValuesDistinct DEF RouterInv, RouterOwnTypeOK, ResolvedIsPopped, Dispatch
  <2> QED
    BY <2>1, <2>2, <2>3, <2>4 DEF CallInv
<1> QED
  BY <1>1, <1>2, <1>3 DEF RouterInv, CallInv

\* The timer of wait_for fires.
LEMMA ExpireInv ==
  ASSUME RouterInv, NEW t \in Tasks, Expire(t)
  PROVE  RouterInv'
<1>1. BrokerInv'
  BY QueueStepInv DEF RouterInv, BrokerInv, BrokerTypeOK, Expire, brokerVars
<1>2. RouterOwnTypeOK'
  BY DEF RouterInv, RouterOwnTypeOK, Expire, CallStates
<1>3. CallInv'
  BY ValuesDistinct DEF RouterInv, RouterOwnTypeOK, CallInv, WaiterReachable,
     NoEntryAfterAnswer, AcceptedAccounted, ResolvedIsPopped, Expire
<1> QED
  BY <1>1, <1>2, <1>3 DEF RouterInv, CallInv

\* The waiter resumes with a result: its entry is gone already.
LEMMA WakeResultInv ==
  ASSUME RouterInv, NEW t \in Tasks, WakeResult(t)
  PROVE  RouterInv'
<1>1. BrokerInv'
  BY QueueStepInv DEF RouterInv, BrokerInv, BrokerTypeOK, WakeResult, brokerVars
<1>2. RouterOwnTypeOK'
  BY DEF RouterInv, RouterOwnTypeOK, WakeResult, CallStates, Replies
<1>3. CallInv'
  BY DEF RouterInv, RouterOwnTypeOK, CallInv, WaiterReachable,
     NoEntryAfterAnswer, AcceptedAccounted, ResolvedIsPopped, WakeResult
<1> QED
  BY <1>1, <1>2, <1>3 DEF RouterInv, CallInv

\* The waiter resumes with TimeoutError.
LEMMA WakeTimeoutInv ==
  ASSUME RouterInv, NEW t \in Tasks, WakeTimeout(t)
  PROVE  RouterInv'
<1>1. BrokerInv'
  BY QueueStepInv DEF RouterInv, BrokerInv, BrokerTypeOK, WakeTimeout, brokerVars
<1>2. RouterOwnTypeOK'
  BY DEF RouterInv, RouterOwnTypeOK, WakeTimeout, CallStates, Replies
<1>3. CallInv'
  BY DEF RouterInv, RouterOwnTypeOK, CallInv, WaiterReachable,
     NoEntryAfterAnswer, AcceptedAccounted, ResolvedIsPopped, WakeTimeout
<1> QED
  BY <1>1, <1>2, <1>3 DEF RouterInv, CallInv

\* A result comes in, first or again, in time or late.
LEMMA SubmitResultInv ==
  ASSUME RouterInv, NEW r \in TaskResults, SubmitResult(r)
  PROVE  RouterInv'
<1> DEFINE t == r.task
<1>0. t \in Tasks
  BY DEF TaskResults
<1>1. BrokerInv'
  BY QueueStepInv DEF RouterInv, BrokerInv, BrokerTypeOK, SubmitResult, brokerVars
<1>2. RouterOwnTypeOK'
  BY <1>0 DEF RouterInv, RouterOwnTypeOK, SubmitResult, Store
<1>3. results'[t] = r /\ \A u \in Tasks \ {t} : results'[u] = results[u]
  BY <1>0 DEF RouterInv, RouterOwnTypeOK, SubmitResult, Store
<1>4. /\ fut'[t] = IF t \in pending /\ fut[t] = Pending THEN r ELSE fut[t]
      /\ \A u \in Tasks \ {t} : fut'[u] = fut[u]
  BY <1>0 DEF RouterInv, RouterOwnTypeOK, SubmitResult, Store
<1>5. pending' = pending \ {t} /\ UNCHANGED call
  BY DEF SubmitResult, Store
<1> HIDE DEF t
<1>6. CallInv'
  <2>1. WaiterReachable'
    BY <1>0, <1>3, <1>4, <1>5, ValuesDistinct DEF RouterInv, WaiterReachable, t
  <2>2. NoEntryAfterAnswer'
    BY <1>5 DEF RouterInv, NoEntryAfterAnswer
  <2>3. AcceptedAccounted'
    BY <1>3, <1>5, ValuesDistinct DEF RouterInv, AcceptedAccounted
  <2>4. ResolvedIsPopped'
    BY <1>4, <1>5 DEF RouterInv, ResolvedIsPopped
  <2> QED
    BY <2>1, <2>2, <2>3, <2>4 DEF CallInv
<1> QED
  BY <1>1, <1>2, <1>6 DEF RouterInv, CallInv

\* The master is replaced: nobody waits and nothing is expected any more.
LEMMA RestartInv ==
  ASSUME RouterInv, Restart
  PROVE  RouterInv'
<1>1. BrokerInv'
  <2>1. BrokerTypeOK'
    BY DEF RouterInv, BrokerInv, BrokerTypeOK, Restart, GenStates
  <2>2. RegisteredQueueIsServed'
    BY DEF Restart, RegisteredQueueIsServed, IsConnected
  <2> QED
    BY <2>1, <2>2 DEF BrokerInv
<1>2. RouterOwnTypeOK'
  BY DEF RouterInv, RouterOwnTypeOK, Restart, CallStates
<1>3. CallInv'
  BY ValuesDistinct DEF RouterInv, RouterOwnTypeOK, CallStates, CallInv,
     WaiterReachable, NoEntryAfterAnswer, AcceptedAccounted, ResolvedIsPopped,
     Restart
<1> QED
  BY <1>1, <1>2, <1>3 DEF RouterInv, CallInv

\* Every step of the router keeps the invariant.
LEMMA RouterStepInv == RouterInv /\ [RouterNext]_vars => RouterInv'
<1> SUFFICES ASSUME RouterInv, [RouterNext]_vars PROVE RouterInv'
  OBVIOUS
<1>0. BrokerInv
  BY DEF RouterInv
<1>1. ASSUME NEW n \in Nodes, NEW c \in Conns,
             Connect(n, c), UNCHANGED routerVars
      PROVE  RouterInv'
  BY <1>0, <1>1, ConnectInv, PoolStepInv
<1>2. ASSUME BroadcastPing, UNCHANGED routerVars PROVE RouterInv'
  BY <1>0, <1>2, BroadcastInv, PoolStepInv
<1>3. ASSUME NEW c \in Conns, StreamStep(c) PROVE RouterInv'
  BY <1>0, <1>3, LoopInv, PoolStepInv DEF StreamStep
<1>4. ASSUME NEW c \in Conns, Finish(c), UNCHANGED routerVars PROVE RouterInv'
  BY <1>0, <1>4, FinishInv, PoolStepInv
<1>5. ASSUME NEW t \in Tasks, NEW n \in Nodes, Reject(t, n) PROVE RouterInv'
  BY <1>5, RejectInv
<1>6. ASSUME NEW t \in Tasks, NEW n \in Nodes,
             DispatchAsync(t, n) \/ DispatchSync(t, n)
      PROVE  RouterInv'
  BY <1>6, DispatchInv DEF DispatchAsync, DispatchSync
<1>7. ASSUME NEW t \in Tasks, Expire(t) PROVE RouterInv'
  BY <1>7, ExpireInv
<1>8. ASSUME NEW t \in Tasks, WakeResult(t) PROVE RouterInv'
  BY <1>8, WakeResultInv
<1>9. ASSUME NEW t \in Tasks, WakeTimeout(t) PROVE RouterInv'
  BY <1>9, WakeTimeoutInv
<1>10. ASSUME NEW r \in TaskResults, WorkerReports(r) PROVE RouterInv'
  BY <1>10, SubmitResultInv DEF WorkerReports
<1>11. CASE Restart
  BY <1>11, RestartInv
<1>12. CASE UNCHANGED vars
  <2>1. BrokerInv'
    BY <1>0, <1>12, BrokerStepInv DEF vars
  <2> QED
    BY <1>12, <2>1, PoolStepInv DEF vars
<1> QED
  BY <1>1, <1>2, <1>3, <1>4, <1>5, <1>6, <1>7, <1>8, <1>9, <1>10, <1>11, <1>12
  DEF RouterNext

THEOREM RouterInvariance == RouterSpec => []RouterInv
  BY RouterInitInv, RouterStepInv, PTL DEF RouterSpec

\* Type correctness of the router and the pool below it.
THEOREM RouterTypeCorrect == RouterSpec => []RouterTypeOK
<1>1. RouterInv => RouterTypeOK
  BY DEF RouterInv, BrokerInv, RouterOwnTypeOK, RouterTypeOK
<1> QED
  BY <1>1, RouterInvariance, PTL

\* No lost wakeup: whatever the order of timers, results, duplicates,
\* wakeups and restarts, a waiting dispatch_sync can still be resolved or is.
THEOREM RouterWaiterReachable == RouterSpec => []WaiterReachable
<1>1. RouterInv => WaiterReachable
  BY DEF RouterInv
<1> QED
  BY <1>1, RouterInvariance, PTL

\* An answered dispatch_sync never leaves an entry in _pending.
THEOREM RouterNoEntryAfterAnswer == RouterSpec => []NoEntryAfterAnswer
<1>1. RouterInv => NoEntryAfterAnswer
  BY DEF RouterInv
<1> QED
  BY <1>1, RouterInvariance, PTL

\* Polling for an accepted task cannot miss its result.
THEOREM RouterAcceptedAccounted == RouterSpec => []AcceptedAccounted
<1>1. RouterInv => AcceptedAccounted
  BY DEF RouterInv
<1> QED
  BY <1>1, RouterInvariance, PTL

-----------------------------------------------------------------------------
(***************************************************************************)
(* A task is queued at most once, for its target only.  The invariant adds *)
(* that only accepted tasks are queued: dispatch() then finds the task it  *)
(* queues in no queue.                                                     *)
(***************************************************************************)

At(c, i, t) == i \in 1..Len(buf[c]) /\ buf[c][i] = t

QueuedInv ==
  /\ \A t \in Tasks, c \in Conns : \A i \in Nat :
       At(c, i, t) => Accepted(t) /\ owner[c] = target[t]
  /\ \A t \in Tasks, c, d \in Conns : \A i, j \in Nat :
       At(c, i, t) /\ At(d, j, t) => c = d /\ i = j

FullInv == RouterInv /\ QueuedInv

\* A step that queues nothing: what is queued after it was queued before,
\* as far from the front of its queue or k places farther.
LEMMA ShrinkInv ==
  ASSUME QueuedInv, NEW k \in [Conns -> Nat],
         \A c \in Conns, t \in Tasks : \A i \in Nat :
           At(c, i, t)' => At(c, i + k[c], t) /\ owner'[c] = owner[c],
         \A t \in Tasks :
           Accepted(t) => Accepted(t)' /\ target'[t] = target[t]
  PROVE  QueuedInv'
<1>1. ASSUME NEW t \in Tasks, NEW c \in Conns, NEW i \in Nat, At(c, i, t)'
      PROVE  Accepted(t)' /\ (owner[c] = target[t])'
  <2>1. i + k[c] \in Nat
    OBVIOUS
  <2>2. At(c, i + k[c], t) /\ owner'[c] = owner[c]
    BY <1>1
  <2>3. Accepted(t) /\ owner[c] = target[t]
    BY <2>1, <2>2 DEF QueuedInv
  <2> QED
    BY <2>2, <2>3
<1>2. ASSUME NEW t \in Tasks, NEW c \in Conns, NEW d \in Conns,
             NEW i \in Nat, NEW j \in Nat, At(c, i, t)', At(d, j, t)'
      PROVE  c = d /\ i = j
  <2>1. i + k[c] \in Nat /\ j + k[d] \in Nat
    OBVIOUS
  <2>2. At(c, i + k[c], t) /\ At(d, j + k[d], t)
    BY <1>2
  <2>3. c = d /\ i + k[c] = j + k[d]
    BY <2>1, <2>2 DEF QueuedInv
  <2> QED
    BY <2>3
<1> QED
  BY <1>1, <1>2 DEF QueuedInv

\* A step that leaves the queues alone and forgets no accepted task.
LEMMA SameQueuesInv ==
  ASSUME QueuedInv, UNCHANGED <<owner, buf>>,
         \A t \in Tasks :
           Accepted(t) => Accepted(t)' /\ target'[t] = target[t]
  PROVE  QueuedInv'
<1> DEFINE k == [c \in Conns |-> 0]
<1>1. k \in [Conns -> Nat]
  OBVIOUS
<1>2. \A c \in Conns, t \in Tasks : \A i \in Nat :
        At(c, i, t)' => At(c, i + k[c], t) /\ owner'[c] = owner[c]
  BY DEF At
<1> HIDE DEF k
<1> QED
  BY <1>1, <1>2, ShrinkInv

\* The new stream's queue is empty.
LEMMA ConnectQueued ==
  ASSUME FullInv, NEW n \in Nodes, NEW c \in Conns, Connect(n, c),
         UNCHANGED routerVars
  PROVE  QueuedInv'
<1> DEFINE k == [d \in Conns |-> 0]
<1>1. k \in [Conns -> Nat]
  OBVIOUS
<1>2. ASSUME NEW d \in Conns, NEW t \in Tasks, NEW i \in Nat, At(d, i, t)'
      PROVE  At(d, i + k[d], t) /\ owner'[d] = owner[d]
  <2>1. d # c
    BY <1>2 DEF At, Connect, FullInv, RouterInv, BrokerInv, BrokerTypeOK
  <2>2. buf'[d] = buf[d] /\ owner'[d] = owner[d]
    BY <2>1 DEF Connect, FullInv, RouterInv, BrokerInv, BrokerTypeOK
  <2> QED
    BY <1>2, <2>2 DEF At
<1>3. \A t \in Tasks : Accepted(t) => Accepted(t)' /\ target'[t] = target[t]
  BY DEF routerVars, Accepted
<1> HIDE DEF k
<1> QED
  BY <1>1, <1>2, <1>3, ShrinkInv DEF FullInv

\* Pings are not tasks.
LEMMA BroadcastQueued ==
  ASSUME FullInv, BroadcastPing, UNCHANGED routerVars
  PROVE  QueuedInv'
<1> DEFINE k == [c \in Conns |-> 0]
<1>1. k \in [Conns -> Nat]
  OBVIOUS
<1>2. ASSUME NEW c \in Conns, NEW t \in Tasks, NEW i \in Nat, At(c, i, t)'
      PROVE  At(c, i + k[c], t) /\ owner'[c] = owner[c]
  <2>1. buf[c] \in Seq(Events) /\ t # Ping
    BY BrokerAssumption DEF FullInv, RouterInv, BrokerInv, BrokerTypeOK
  <2>2. buf'[c] = buf[c] \/ buf'[c] = Append(buf[c], Ping)
    BY DEF BroadcastPing
  <2>3. At(c, i, t)
    BY <1>2, <2>1, <2>2 DEF At
  <2> QED
    BY <2>3 DEF BroadcastPing
<1>3. \A t \in Tasks : Accepted(t) => Accepted(t)' /\ target'[t] = target[t]
  BY DEF routerVars, Accepted
<1> HIDE DEF k
<1> QED
  BY <1>1, <1>2, <1>3, ShrinkInv DEF FullInv

\* What remains behind the event taken moves up one place.
LEMMA TakeQueued ==
  ASSUME FullInv, NEW c \in Conns, Take(c), UNCHANGED routerVars
  PROVE  QueuedInv'
<1> DEFINE k == [d \in Conns |-> IF d = c THEN 1 ELSE 0]
<1>1. k \in [Conns -> Nat]
  OBVIOUS
<1>2. ASSUME NEW d \in Conns, NEW t \in Tasks, NEW i \in Nat, At(d, i, t)'
      PROVE  At(d, i + k[d], t) /\ owner'[d] = owner[d]
  <2>1. CASE d = c
    <3>1. buf[c] \in Seq(Events) /\ buf[c] # <<>> /\ buf'[c] = Tail(buf[c])
      BY DEF Take, FullInv, RouterInv, BrokerInv, BrokerTypeOK
    <3>2. /\ Len(buf'[c]) = Len(buf[c]) - 1
          /\ \A m \in 1..Len(buf'[c]) : buf'[c][m] = buf[c][m + 1]
          /\ Len(buf[c]) \in Nat
      BY <3>1
    <3> HIDE DEF k
    <3>3. k[d] = 1
      BY <2>1 DEF k
    <3> QED
      BY <1>2, <2>1, <3>2, <3>3 DEF At, Take
  <2>2. CASE d # c
    BY <1>2, <2>2 DEF At, Take, FullInv, RouterInv, BrokerInv, BrokerTypeOK
  <2> QED
    BY <2>1, <2>2
<1>3. \A t \in Tasks : Accepted(t) => Accepted(t)' /\ target'[t] = target[t]
  BY DEF routerVars, Accepted
<1> HIDE DEF k
<1> QED
  BY <1>1, <1>2, <1>3, ShrinkInv DEF FullInv

\* The queue of an ended stream is dropped.
LEMMA FinishQueued ==
  ASSUME FullInv, NEW c \in Conns, Finish(c), UNCHANGED routerVars
  PROVE  QueuedInv'
<1> DEFINE k == [d \in Conns |-> 0]
<1>1. k \in [Conns -> Nat]
  OBVIOUS
<1>2. ASSUME NEW d \in Conns, NEW t \in Tasks, NEW i \in Nat, At(d, i, t)'
      PROVE  At(d, i + k[d], t) /\ owner'[d] = owner[d]
  <2>1. d # c
    BY <1>2 DEF At, Finish, FullInv, RouterInv, BrokerInv, BrokerTypeOK
  <2>2. buf'[d] = buf[d] /\ owner'[d] = owner[d]
    BY <2>1 DEF Finish, FullInv, RouterInv, BrokerInv, BrokerTypeOK
  <2> QED
    BY <1>2, <2>2 DEF At
<1>3. \A t \in Tasks : Accepted(t) => Accepted(t)' /\ target'[t] = target[t]
  BY DEF routerVars, Accepted
<1> HIDE DEF k
<1> QED
  BY <1>1, <1>2, <1>3, ShrinkInv DEF FullInv

\* dispatch(): the fresh task goes to the end of its target's queue and was
\* in no queue before.
LEMMA DispatchQueued ==
  ASSUME FullInv, NEW t \in Tasks, NEW n \in Nodes,
         NEW next \in {"async", "waiting"}, Dispatch(t, n, next)
  PROVE  QueuedInv'
<1> DEFINE q == queues[n]
<1>1. /\ q \in Conns /\ owner[q] = n
      /\ buf \in [Conns -> Seq(Events)]
  BY DEF Dispatch, FullInv, RouterInv, BrokerInv, BrokerTypeOK, IsConnected,
     RegisteredQueueIsServed
<1>2. /\ buf'[q] = Append(buf[q], t)
      /\ \A c \in Conns \ {q} : buf'[c] = buf[c]
      /\ UNCHANGED owner
  BY <1>1 DEF Dispatch, Put
<1>3. /\ Accepted(t)' /\ target'[t] = n
      /\ \A u \in Tasks \ {t} :
           Accepted(u) => Accepted(u)' /\ target'[u] = target[u]
  BY DEF Dispatch, Accepted, FullInv, RouterInv, RouterOwnTypeOK
<1>4. \A c \in Conns, i \in Nat : ~At(c, i, t)
  BY DEF FullInv, QueuedInv, Accepted, Dispatch
<1> HIDE DEF q
<1>5. ASSUME NEW c \in Conns, NEW i \in Nat, NEW u \in Tasks, At(c, i, u)'
      PROVE  \/ u # t /\ At(c, i, u)
             \/ u = t /\ c = q /\ i = Len(buf[q]) + 1
  <2>1. CASE c = q
    <3>1. /\ buf[q] \in Seq(Events) /\ Len(buf[q]) \in Nat
          /\ Len(buf'[q]) = Len(buf[q]) + 1
          /\ buf'[q][Len(buf[q]) + 1] = t
          /\ \A m \in 1..Len(buf[q]) : buf'[q][m] = buf[q][m]
      BY <1>1, <1>2
    <3>2. CASE i = Len(buf[q]) + 1
      BY <1>5, <2>1, <3>1, <3>2 DEF At
    <3>3. CASE i # Len(buf[q]) + 1
      <4>1. i \in 1..Len(buf[q]) /\ buf'[q][i] = u
        BY <1>5, <2>1, <3>1, <3>3 DEF At
      <4>2. At(c, i, u)
        BY <2>1, <3>1, <4>1 DEF At
      <4> QED
        BY <1>4, <4>2
    <3> QED
      BY <3>2, <3>3
  <2>2. CASE c # q
    <3>1. At(c, i, u)
      BY <1>2, <1>5, <2>2 DEF At
    <3> QED
      BY <1>4, <3>1
  <2> QED
    BY <2>1, <2>2
<1>6. ASSUME NEW u \in Tasks, NEW c \in Conns, NEW i \in Nat, At(c, i, u)'
      PROVE  Accepted(u)' /\ (owner[c] = target[u])'
  <2>1. CASE u = t
    BY <1>1, <1>2, <1>3, <1>5, <1>6, <2>1 DEF q
  <2>2. CASE u # t
    <3>1. At(c, i, u)
      BY <1>5, <1>6, <2>2
    <3>2. Accepted(u) /\ owner[c] = target[u]
      BY <3>1 DEF FullInv, QueuedInv
    <3> QED
      BY <1>2, <1>3, <2>2, <3>2
  <2> QED
    BY <2>1, <2>2
<1>7. ASSUME NEW u \in Tasks, NEW c \in Conns, NEW d \in Conns,
             NEW i \in Nat, NEW j \in Nat, At(c, i, u)', At(d, j, u)'
      PROVE  c = d /\ i = j
  <2>1. CASE u = t
    BY <1>5, <1>7, <2>1
  <2>2. CASE u # t
    <3>1. At(c, i, u) /\ At(d, j, u)
      BY <1>5, <1>7, <2>2
    <3> QED
      BY <3>1 DEF FullInv, QueuedInv
  <2> QED
    BY <2>1, <2>2
<1> QED
  BY <1>6, <1>7 DEF QueuedInv

LEMMA QueuedInitInv == RouterInit => QueuedInv
  BY DEF RouterInit, BrokerInit, QueuedInv, At

\* Every step keeps tasks queued at most once.
LEMMA QueuedStepInv == FullInv /\ [RouterNext]_vars => QueuedInv'
<1> SUFFICES ASSUME FullInv, [RouterNext]_vars PROVE QueuedInv'
  OBVIOUS
<1>0. QueuedInv /\ RouterOwnTypeOK
  BY DEF FullInv, RouterInv
<1>1. ASSUME NEW n \in Nodes, NEW c \in Conns,
             Connect(n, c), UNCHANGED routerVars
      PROVE  QueuedInv'
  BY <1>1, ConnectQueued
<1>2. ASSUME BroadcastPing, UNCHANGED routerVars PROVE QueuedInv'
  BY <1>2, BroadcastQueued
<1>3. ASSUME NEW c \in Conns, StreamStep(c) PROVE QueuedInv'
  <2>1. CASE Take(c)
    BY <1>3, <2>1, TakeQueued DEF StreamStep
  <2>2. CASE Block(c) \/ Timeout(c)
    BY <1>0, <1>3, <2>2, SameQueuesInv
    DEF StreamStep, Block, Timeout, routerVars, Accepted
  <2> QED
    BY <1>3, <2>1, <2>2 DEF StreamStep
<1>4. ASSUME NEW c \in Conns, Finish(c), UNCHANGED routerVars PROVE QueuedInv'
  BY <1>4, FinishQueued
<1>5. ASSUME NEW t \in Tasks, NEW n \in Nodes, Reject(t, n) PROVE QueuedInv'
  BY <1>0, <1>5, SameQueuesInv
  DEF Reject, brokerVars, Accepted, RouterOwnTypeOK
<1>6. ASSUME NEW t \in Tasks, NEW n \in Nodes,
             DispatchAsync(t, n) \/ DispatchSync(t, n)
      PROVE  QueuedInv'
  BY <1>6, DispatchQueued DEF DispatchAsync, DispatchSync
<1>7. ASSUME NEW t \in Tasks, Expire(t) \/ WakeResult(t) \/ WakeTimeout(t)
      PROVE  QueuedInv'
  BY <1>0, <1>7, SameQueuesInv
  DEF Expire, WakeResult, WakeTimeout, brokerVars, Accepted, RouterOwnTypeOK
<1>8. ASSUME NEW r \in TaskResults, WorkerReports(r) PROVE QueuedInv'
  BY <1>0, <1>8, SameQueuesInv
  DEF WorkerReports, SubmitResult, brokerVars, Accepted
<1>9. CASE Restart
  BY <1>9 DEF Restart, QueuedInv, At
<1>10. CASE UNCHANGED vars
  BY <1>0, <1>10, SameQueuesInv DEF vars, brokerVars, routerVars, Accepted
<1> QED
  BY <1>1, <1>2, <1>3, <1>4, <1>5, <1>6, <1>7, <1>8, <1>9, <1>10
  DEF RouterNext

\* Replacing, dropping and racing streams never duplicates a queued task nor
\* puts it in a queue of another node than its target.
THEOREM RouterQueuedOnce == RouterSpec => []QueuedOnce
<1>1. RouterInit => FullInv
  BY RouterInitInv, QueuedInitInv DEF FullInv
<1>2. FullInv /\ [RouterNext]_vars => FullInv'
  BY RouterStepInv, QueuedStepInv DEF FullInv
<1>3. FullInv => QueuedOnce
  <2> SUFFICES ASSUME FullInv, NEW t \in Tasks,
                      NEW c \in Queued(t), NEW d \in Queued(t)
               PROVE  /\ c = d
                      /\ owner[c] = target[t]
                      /\ \A i, j \in 1..Len(buf[c]) :
                           buf[c][i] = t /\ buf[c][j] = t => i = j
    BY DEF QueuedOnce
  <2>1. PICK i \in 1..Len(buf[c]) : buf[c][i] = t
    BY DEF Queued
  <2>2. PICK j \in 1..Len(buf[d]) : buf[d][j] = t
    BY DEF Queued
  <2>3. c \in Conns /\ d \in Conns
    BY DEF Queued
  <2>4. At(c, i, t) /\ At(d, j, t)
    BY <2>1, <2>2 DEF At
  <2>5. c = d /\ owner[c] = target[t]
    BY <2>3, <2>4 DEF FullInv, QueuedInv
  <2>6. \A k, m \in 1..Len(buf[c]) : buf[c][k] = t /\ buf[c][m] = t => k = m
    BY <2>3 DEF FullInv, QueuedInv, At
  <2> QED
    BY <2>5, <2>6
<1> QED
  BY <1>1, <1>2, <1>3, PTL DEF RouterSpec
=============================================================================
