------------------------------- MODULE Broker -------------------------------
(***************************************************************************)
(* The SSE connection pool of the master (master/broker.py) together with  *)
(* the generator that serves one GET /api/events request                   *)
(* (event_generator in master/api/nodes.py).                               *)
(*                                                                         *)
(* The master runs on one asyncio loop: code between two suspensions is    *)
(* one action.  An asyncio.Queue is identified with the connection it was  *)
(* created for.  asyncio.Queue() has no maximum size, so put() never       *)
(* suspends and a push is atomic.                                          *)
(***************************************************************************)
EXTENDS Naturals, Sequences

CONSTANTS
  Nodes,     \* node ids
  Conns,     \* identities of event streams; one is reused once it is closed
  Tasks,     \* the "task" events
  Ping,      \* the "ping" event
  NoConn,    \* dict.get() of an absent key
  NoNode,    \* the owner of a connection that was never opened
  MaxQueue   \* bound: a queue is not pushed to beyond this length

ASSUME BrokerAssumption ==
  /\ NoConn \notin Conns
  /\ NoNode \notin Nodes
  /\ Ping \notin Tasks
  /\ MaxQueue \in Nat

VARIABLES
  queues,    \* Broker._queues: the queue events for a node go to, or NoConn
  owner,     \* the node_id query parameter of a connection
  buf,       \* the contents of the queue made for a connection
  gen        \* where the connection's event_generator is suspended

brokerVars == <<queues, owner, buf, gen>>

Events == Tasks \cup {Ping}

(***************************************************************************)
(* "wait": in wait_for(queue.get(), 30), with nothing to send;             *)
(* "msg":  at the yield of an event;  "ping": at the yield of the keep-    *)
(* alive;  "closed": not started or finished.                              *)
(***************************************************************************)
GenStates == {"closed", "wait", "msg", "ping"}

Open(c) == gen[c] # "closed"

IsConnected(n) == queues[n] # NoConn

Queued(t) == {c \in Conns : \E i \in 1..Len(buf[c]) : buf[c][i] = t}

BrokerTypeOK ==
  /\ queues \in [Nodes -> Conns \cup {NoConn}]
  /\ owner \in [Conns -> Nodes \cup {NoNode}]
  /\ buf \in [Conns -> Seq(Events)]
  /\ gen \in [Conns -> GenStates]

BrokerInit ==
  /\ queues = [n \in Nodes |-> NoConn]
  /\ owner = [c \in Conns |-> NoNode]
  /\ buf = [c \in Conns |-> <<>>]
  /\ gen = [c \in Conns |-> "closed"]

-----------------------------------------------------------------------------
\* Mutant: the new queue takes over what is still in the one it replaces.
MutConnectCarries(n, c) ==
  /\ gen[c] = "closed"
  /\ queues' = [queues EXCEPT ![n] = c]
  /\ owner' = [owner EXCEPT ![c] = n]
  /\ buf' = [buf EXCEPT ![c] = IF IsConnected(n) THEN buf[queues[n]] ELSE <<>>]
  /\ gen' = [gen EXCEPT ![c] = "wait"]

\* GET /api/events: a new queue replaces the one registered for the node.
Connect(n, c) ==
  /\ gen[c] = "closed"
  /\ queues' = [queues EXCEPT ![n] = c]
  /\ owner' = [owner EXCEPT ![c] = n]
  /\ buf' = [buf EXCEPT ![c] = <<>>]
  /\ gen' = [gen EXCEPT ![c] = "wait"]

\* Mutant: the newest event is served first.
MutPutFirst(n, e) == buf' = [buf EXCEPT ![queues[n]] = <<e>> \o @]

\* Mutant: the queue of some connected node is used.
MutPutAnyNode(n, e) ==
  \E m \in Nodes :
    IsConnected(m) /\ buf' = [buf EXCEPT ![queues[m]] = Append(@, e)]

\* The effect of push() when the node has a queue; without one push()
\* returns False and changes nothing.
Put(n, e) == buf' = [buf EXCEPT ![queues[n]] = Append(@, e)]

Push(n, e) ==
  /\ IsConnected(n)
  /\ Len(buf[queues[n]]) < MaxQueue
  /\ Put(n, e)
  /\ UNCHANGED <<queues, owner, gen>>

\* broadcast_ping(): the loop over the registered queues never suspends.
BroadcastPing ==
  /\ \A n \in Nodes : IsConnected(n) => Len(buf[queues[n]]) < MaxQueue
  /\ buf' = [c \in Conns |-> IF \E n \in Nodes : queues[n] = c
                             THEN Append(buf[c], Ping)
                             ELSE buf[c]]
  /\ UNCHANGED <<queues, owner, gen>>

\* Mutant: the generator looks its queue up in the pool instead of keeping
\* the one connect() returned.
MutTakeFromPool(c) ==
  /\ Open(c)
  /\ queues[owner[c]] = c
  /\ buf[c] # <<>>
  /\ buf' = [buf EXCEPT ![c] = Tail(@)]
  /\ gen' = [gen EXCEPT ![c] = "msg"]
  /\ UNCHANGED <<queues, owner>>

\* get() returns an event and the generator yields it.  A resumed generator
\* that finds the queue nonempty takes the event without suspending.
Take(c) ==
  /\ Open(c)
  /\ buf[c] # <<>>
  /\ buf' = [buf EXCEPT ![c] = Tail(@)]
  /\ gen' = [gen EXCEPT ![c] = "msg"]
  /\ UNCHANGED <<queues, owner>>

\* A resumed generator that finds the queue empty suspends in get().
Block(c) ==
  /\ gen[c] \in {"msg", "ping"}
  /\ buf[c] = <<>>
  /\ gen' = [gen EXCEPT ![c] = "wait"]
  /\ UNCHANGED <<queues, owner, buf>>

\* Mutant: a get() the timer of wait_for cancels has taken the event with it.
MutTimeoutDrops(c) ==
  /\ gen[c] = "wait"
  /\ gen' = [gen EXCEPT ![c] = "ping"]
  /\ buf' = [buf EXCEPT ![c] = IF @ = <<>> THEN @ ELSE Tail(@)]
  /\ UNCHANGED <<queues, owner>>

\* 30 s without an event: the keep-alive is yielded.  The timer may beat an
\* event put in the same loop iteration, which then stays in the queue.
Timeout(c) ==
  /\ gen[c] = "wait"
  /\ gen' = [gen EXCEPT ![c] = "ping"]
  /\ UNCHANGED <<queues, owner, buf>>

\* Mutant: the finally clause forgets to disconnect.
MutFinishKeepsQueue(c) ==
  /\ Open(c)
  /\ gen' = [gen EXCEPT ![c] = "closed"]
  /\ buf' = [buf EXCEPT ![c] = <<>>]
  /\ UNCHANGED <<queues, owner>>

\* The generator is cancelled or closed: its finally clause runs
\* disconnect(node_id), which pops whatever queue the node has by now.
Finish(c) ==
  /\ Open(c)
  /\ queues' = [queues EXCEPT ![owner[c]] = NoConn]
  /\ gen' = [gen EXCEPT ![c] = "closed"]
  /\ buf' = [buf EXCEPT ![c] = <<>>]
  /\ UNCHANGED owner

BrokerNext ==
  \/ \E n \in Nodes, c \in Conns : Connect(n, c)
  \/ \E n \in Nodes, t \in Tasks : Push(n, t)
  \/ BroadcastPing
  \/ \E c \in Conns : Take(c) \/ Block(c) \/ Timeout(c) \/ Finish(c)

BrokerSpec == BrokerInit /\ [][BrokerNext]_brokerVars

-----------------------------------------------------------------------------
\* The queue dispatch would put a task in has a live generator draining it,
\* and that generator serves the node the task is for: although disconnect()
\* pops by node id and connections of one node overlap, no task is ever put
\* in a queue nobody reads or in another node's stream.
RegisteredQueueIsServed ==
  \A n \in Nodes : IsConnected(n) => Open(queues[n]) /\ owner[queues[n]] = n

\* An event put in the queue of a live stream does not stay there: the
\* generator hands it to the transport or the stream ends, also when the
\* stream was replaced by a newer connection of the node.  (Stated for users
\* of this module that push a task once.)
QueueDrains ==
  \A c \in Conns, t \in Tasks : (c \in Queued(t)) ~> (c \notin Queued(t))
=============================================================================
