------------------------------ MODULE Channel ------------------------------
(***************************************************************************)
(* What the event stream between master and worker promises (abstract): a  *)
(* queue of tasks that are taken in the order they were put, each at most  *)
(* once, of which a tail may be lost.                                      *)
(***************************************************************************)
EXTENDS Naturals, Sequences

CONSTANT Tasks

VARIABLES
  sent,    \* the tasks that were put
  queue,   \* those that can still be taken
  taken    \* those that were taken

channelVars == <<sent, queue, taken>>

ChannelInit == sent = <<>> /\ queue = <<>> /\ taken = <<>>

Enqueue(t) ==
  /\ sent' = Append(sent, t)
  /\ queue' = Append(queue, t)
  /\ UNCHANGED taken

Dequeue ==
  /\ queue # <<>>
  /\ queue' = Tail(queue)
  /\ taken' = Append(taken, Head(queue))
  /\ UNCHANGED sent

Lose ==
  /\ \E k \in 0..Len(queue) : queue' = SubSeq(queue, 1, k)
  /\ UNCHANGED <<sent, taken>>

ChannelNext == (\E t \in Tasks : Enqueue(t)) \/ Dequeue \/ Lose

ChannelSpec == ChannelInit /\ [][ChannelNext]_channelVars
=============================================================================
