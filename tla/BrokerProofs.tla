---------------------------- MODULE BrokerProofs ----------------------------
(***************************************************************************)
(* Proofs about the stream pool: for any sets of nodes and connections a   *)
(* registered queue has a live generator that serves the right node.  The  *)
(* step lemmas are stated per action so that modules built on Broker can   *)
(* cite them.                                                              *)
(***************************************************************************)
EXTENDS Broker, TLAPS

BrokerInv == BrokerTypeOK /\ RegisteredQueueIsServed

\* The empty pool satisfies the invariant.
LEMMA BrokerInitInv == BrokerInit => BrokerInv
<1> SUFFICES ASSUME BrokerInit PROVE BrokerInv
  OBVIOUS
<1>1. BrokerTypeOK
  BY DEF BrokerInit, BrokerTypeOK, GenStates
<1>2. RegisteredQueueIsServed
  BY DEF BrokerInit, RegisteredQueueIsServed, IsConnected
<1> QED
  BY <1>1, <1>2 DEF BrokerInv

\* GET /api/events: the connection it registers was closed, so no node had
\* it registered.
LEMMA ConnectInv ==
  ASSUME BrokerInv, NEW n \in Nodes, NEW c \in Conns, Connect(n, c)
  PROVE  BrokerInv'
<1>1. BrokerTypeOK'
  <2>1. queues' \in [Nodes -> Conns \cup {NoConn}]
    BY DEF BrokerInv, BrokerTypeOK, Connect
  <2>2. owner' \in [Conns -> Nodes \cup {NoNode}]
    BY DEF BrokerInv, BrokerTypeOK, Connect
  <2>3. buf' \in [Conns -> Seq(Events)]
    BY DEF BrokerInv, BrokerTypeOK, Connect
  <2>4. gen' \in [Conns -> GenStates]
    BY DEF BrokerInv, BrokerTypeOK, Connect, GenStates
  <2> QED
    BY <2>1, <2>2, <2>3, <2>4 DEF BrokerTypeOK
<1>2. RegisteredQueueIsServed'
  BY BrokerAssumption DEF BrokerInv, BrokerTypeOK, RegisteredQueueIsServed,
     IsConnected, Open, Connect
<1> QED
  BY <1>1, <1>2 DEF BrokerInv

\* A step that leaves the pool and the generators alone, and keeps the queues
\* typed, keeps the invariant.
LEMMA QueueStepInv ==
  ASSUME BrokerInv, buf' \in [Conns -> Seq(Events)],
         UNCHANGED <<queues, owner, gen>>
  PROVE  BrokerInv'
<1>1. BrokerTypeOK'
  BY DEF BrokerInv, BrokerTypeOK
<1>2. RegisteredQueueIsServed'
  BY DEF BrokerInv, RegisteredQueueIsServed, IsConnected, Open
<1> QED
  BY <1>1, <1>2 DEF BrokerInv

\* push() to a node that has a queue.
LEMMA PutInv ==
  ASSUME BrokerInv, NEW n \in Nodes, NEW e \in Events, IsConnected(n),
         Put(n, e), UNCHANGED <<queues, owner, gen>>
  PROVE  BrokerInv'
<1>1. queues[n] \in Conns
  BY DEF BrokerInv, BrokerTypeOK, IsConnected
<1>2. buf' \in [Conns -> Seq(Events)]
  BY <1>1 DEF BrokerInv, BrokerTypeOK, Put
<1> QED
  BY <1>2, QueueStepInv

\* broadcast_ping().
LEMMA BroadcastInv ==
  ASSUME BrokerInv, BroadcastPing
  PROVE  BrokerInv'
<1>1. buf' \in [Conns -> Seq(Events)]
  BY DEF BrokerInv, BrokerTypeOK, BroadcastPing, Events
<1> QED
  BY <1>1, QueueStepInv DEF BroadcastPing

\* The generator's loop: it stays live.
LEMMA LoopInv ==
  ASSUME BrokerInv, NEW c \in Conns, Take(c) \/ Block(c) \/ Timeout(c)
  PROVE  BrokerInv'
<1>1. /\ UNCHANGED <<queues, owner>>
      /\ \E s \in GenStates \ {"closed"} : gen' = [gen EXCEPT ![c] = s]
      /\ buf' \in [Conns -> Seq(Events)]
  <2>1. CASE Take(c)
    <3>1. buf[c] \in Seq(Events) /\ buf[c] # <<>>
      BY <2>1 DEF BrokerInv, BrokerTypeOK, Take
    <3>2. Tail(buf[c]) \in Seq(Events)
      BY <3>1
    <3> QED
      BY <2>1, <3>2 DEF BrokerInv, BrokerTypeOK, Take, GenStates
  <2>2. CASE Block(c)
    BY <2>2 DEF BrokerInv, BrokerTypeOK, Block, GenStates
  <2>3. CASE Timeout(c)
    BY <2>3 DEF BrokerInv, BrokerTypeOK, Timeout, GenStates
  <2> QED
    BY <2>1, <2>2, <2>3
<1>2. BrokerTypeOK'
  BY <1>1 DEF BrokerInv, BrokerTypeOK
<1>3. RegisteredQueueIsServed'
  BY <1>1 DEF BrokerInv, BrokerTypeOK, RegisteredQueueIsServed, IsConnected, Open
<1> QED
  BY <1>2, <1>3 DEF BrokerInv

\* The finally clause: it pops the queue of its node, and another node's
\* queue is another connection, since that connection serves the other node.
LEMMA FinishInv ==
  ASSUME BrokerInv, NEW c \in Conns, Finish(c)
  PROVE  BrokerInv'
<1>1. BrokerTypeOK'
  <2>1. queues' \in [Nodes -> Conns \cup {NoConn}]
    BY DEF BrokerInv, BrokerTypeOK, Finish
  <2>2. owner' \in [Conns -> Nodes \cup {NoNode}]
    BY DEF BrokerInv, BrokerTypeOK, Finish
  <2>3. buf' \in [Conns -> Seq(Events)]
    BY DEF BrokerInv, BrokerTypeOK, Finish
  <2>4. gen' \in [Conns -> GenStates]
    BY DEF BrokerInv, BrokerTypeOK, Finish, GenStates
  <2> QED
    BY <2>1, <2>2, <2>3, <2>4 DEF BrokerTypeOK
<1>2. RegisteredQueueIsServed'
  <2> SUFFICES ASSUME NEW n \in Nodes, IsConnected(n)'
               PROVE  Open(queues[n])' /\ (owner[queues[n]] = n)'
    BY DEF RegisteredQueueIsServed
  <2>1. n # owner[c] /\ queues'[n] = queues[n]
    BY DEF BrokerInv, BrokerTypeOK, IsConnected, Finish
  <2>2. Open(queues[n]) /\ owner[queues[n]] = n
    BY <2>1 DEF BrokerInv, RegisteredQueueIsServed, IsConnected
  <2>3. queues[n] # c
    BY <2>1, <2>2
  <2>4. gen'[queues[n]] = gen[queues[n]]
    BY <2>3 DEF BrokerInv, BrokerTypeOK, Finish
  <2> QED
    BY <2>1, <2>2, <2>4 DEF Open, Finish
<1> QED
  BY <1>1, <1>2 DEF BrokerInv

\* Every step of the pool keeps the invariant.
LEMMA BrokerStepInv == BrokerInv /\ [BrokerNext]_brokerVars => BrokerInv'
<1> SUFFICES ASSUME BrokerInv, [BrokerNext]_brokerVars PROVE BrokerInv'
  OBVIOUS
<1>1. ASSUME NEW n \in Nodes, NEW c \in Conns, Connect(n, c) PROVE BrokerInv'
  BY <1>1, ConnectInv
<1>2. ASSUME NEW n \in Nodes, NEW t \in Tasks, Push(n, t) PROVE BrokerInv'
  BY <1>2, PutInv DEF Push, Events
<1>3. ASSUME BroadcastPing PROVE BrokerInv'
  BY <1>3, BroadcastInv
<1>4. ASSUME NEW c \in Conns, Take(c) \/ Block(c) \/ Timeout(c) PROVE BrokerInv'
  BY <1>4, LoopInv
<1>5. ASSUME NEW c \in Conns, Finish(c) PROVE BrokerInv'
  BY <1>5, FinishInv
<1>6. CASE UNCHANGED brokerVars
  BY <1>6, QueueStepInv DEF brokerVars, BrokerInv, BrokerTypeOK
<1> QED
  BY <1>1, <1>2, <1>3, <1>4, <1>5, <1>6 DEF BrokerNext

\* Type correctness of the pool, for any number of nodes and streams.
THEOREM BrokerTypeCorrect == BrokerSpec => []BrokerTypeOK
<1>1. BrokerInv => BrokerTypeOK
  BY DEF BrokerInv
<1> QED
  BY <1>1, BrokerInitInv, BrokerStepInv, PTL DEF BrokerSpec

\* Whatever the order in which streams of a node are opened, replaced and
\* closed, dispatch never puts a task in a queue nobody drains, nor in one of
\* another node.
THEOREM BrokerServes == BrokerSpec => []RegisteredQueueIsServed
<1>1. BrokerInv => RegisteredQueueIsServed
  BY DEF BrokerInv
<1> QED
  BY <1>1, BrokerInitInv, BrokerStepInv, PTL DEF BrokerSpec
=============================================================================
