--------------------------- MODULE PresenceProofs ---------------------------
(***************************************************************************)
(* Proofs about presence, for any timeouts, nodes and streams: type        *)
(* correctness, how long an "online" can be out of date, and under which   *)
(* timeouts the keep-alive keeps a connected node online.                  *)
(***************************************************************************)
EXTENDS Presence, BrokerProofs

PresenceOwnTypeOK ==
  /\ status \in [Nodes -> {"absent", "online", "offline"}]
  /\ age \in [Nodes -> 0..MaxAge]
  /\ idle \in [Conns -> 0..KeepAlive]
  /\ sweepAge \in 0..SweepPeriod
  /\ uptime \in 0..SweepPeriod + 1
  /\ tasked \in SUBSET Nodes

\* The master waits for its first sweep since it started.
BeforeFirstSweep == uptime <= SweepPeriod /\ sweepAge = uptime

\* From the first sweep on, what is online has been refreshed at most Stale
\* before the last sweep.
Fresh ==
  \/ BeforeFirstSweep
  \/ \A n \in Nodes : status[n] = "online" => age[n] <= Stale + sweepAge

\* Between two sweeps there is time for a keep-alive, and a node that got it
\* in time is not swept.
WellTimed == KeepAlive < SweepPeriod /\ KeepAlive <= Stale

\* A generator that has just sent an event has not waited yet.
JustSent == \A c \in Conns : gen[c] = "msg" => idle[c] = 0

\* The stream of a connected node to which no task was sent: either the
\* keep-alive timer has run since the last heartbeat, or it was restarted by
\* the last ping of the sweeper.  Only at the instants of a heartbeat or of a
\* sweep is there something in the queue.
Kept(n) ==
  LET c == queues[n] IN
  /\ status[n] = "online"
  /\ age[n] <= idle[c] \/ idle[c] = sweepAge
  /\ buf[c] # <<>> => age[n] = 0 \/ sweepAge = 0

Quiet ==
  \A n \in Nodes \ tasked : IsConnected(n) /\ status[n] # "absent" => Kept(n)

PresenceInv ==
  /\ BrokerInv
  /\ PresenceOwnTypeOK
  /\ Fresh
  /\ JustSent
  /\ WellTimed => Quiet

Timing == Fresh /\ JustSent /\ (WellTimed => Quiet)

\* The initial states satisfy the invariant.
LEMMA PresenceInitInv == PresenceInit => PresenceInv
<1> SUFFICES ASSUME PresenceInit PROVE PresenceInv
  OBVIOUS
<1>1. BrokerInv
  BY BrokerInitInv DEF PresenceInit
<1>2. PresenceOwnTypeOK
  BY PresenceAssumption DEF PresenceInit, RegistryInit, PresenceOwnTypeOK
<1>3. Timing
  BY PresenceAssumption DEF PresenceInit, BrokerInit, RegistryInit, Timing, Fresh,
     JustSent, Quiet, BeforeFirstSweep, IsConnected
<1> QED
  BY <1>1, <1>2, <1>3 DEF PresenceInv, Timing

\* Two nodes do not share a stream.
LEMMA OwnStream ==
  ASSUME BrokerInv, NEW m \in Nodes, IsConnected(m)
  PROVE  queues[m] \in Conns /\ Open(queues[m]) /\ owner[queues[m]] = m
  BY DEF BrokerInv, BrokerTypeOK, RegisteredQueueIsServed, IsConnected

\* A heartbeat, whoever it comes from.
LEMMA BeatInv ==
  ASSUME PresenceOwnTypeOK, NEW n, Beat(n)
  PROVE  /\ status' \in [Nodes -> {"absent", "online", "offline"}]
         /\ age' \in [Nodes -> 0..MaxAge]
         /\ tasked' = tasked \ {n}
         /\ \A m \in Nodes : m # n => status'[m] = status[m] /\ age'[m] = age[m]
         /\ n \in Nodes /\ status'[n] # "absent" => status'[n] = "online" /\ age'[n] = 0
         /\ \A m \in Nodes : (status'[m] = "absent") <=> (status[m] = "absent")
         /\ Fresh /\ UNCHANGED <<sweepAge, uptime>> => Fresh'
  BY PresenceAssumption DEF PresenceOwnTypeOK, Beat, Heartbeat, Register, Fresh,
     BeforeFirstSweep

\* POST /api/nodes/register and /api/nodes/heartbeat.
LEMMA RefreshInv ==
  ASSUME PresenceInv, NEW n \in Nodes, RegisterNode(n) \/ PostHeartbeat(n)
  PROVE  PresenceInv'
<1>1. BrokerInv'
  BY QueueStepInv DEF PresenceInv, BrokerInv, BrokerTypeOK, RegisterNode,
     PostHeartbeat, brokerVars
<1>2. /\ UNCHANGED <<brokerVars, idle, sweepAge, uptime>>
      /\ tasked' = tasked \ {n}
      /\ status' \in [Nodes -> {"absent", "online", "offline"}]
      /\ age' \in [Nodes -> 0..MaxAge]
      /\ \A m \in Nodes : m # n => status'[m] = status[m] /\ age'[m] = age[m]
      /\ status'[n] # "absent" => status'[n] = "online" /\ age'[n] = 0
      /\ Fresh'
  <2>1. CASE RegisterNode(n)
    BY <2>1, PresenceAssumption DEF PresenceInv, PresenceOwnTypeOK, RegisterNode,
       Register, Fresh, BeforeFirstSweep
  <2>2. CASE PostHeartbeat(n)
    BY <2>2, BeatInv DEF PresenceInv, PostHeartbeat
  <2> QED
    BY <2>1, <2>2
<1>3. PresenceOwnTypeOK'
  BY <1>2 DEF PresenceInv, PresenceOwnTypeOK
<1>4. JustSent'
  BY <1>2 DEF PresenceInv, JustSent, brokerVars
<1>5. ASSUME WellTimed PROVE Quiet'
  <2> SUFFICES ASSUME NEW m \in Nodes \ tasked', IsConnected(m)', status'[m] # "absent"
               PROVE  Kept(m)'
    BY DEF Quiet
  <2>1. IsConnected(m) /\ queues[m] \in Conns
    BY <1>2, OwnStream DEF PresenceInv, IsConnected, brokerVars
  <2>2. CASE m = n
    BY <1>2, <2>1, <2>2 DEF PresenceInv, PresenceOwnTypeOK, Kept, brokerVars
  <2>3. CASE m # n
    BY <1>2, <1>5, <2>1, <2>3 DEF PresenceInv, Quiet, Kept, brokerVars
  <2> QED
    BY <2>2, <2>3
<1> QED
  BY <1>1, <1>2, <1>3, <1>4, <1>5 DEF PresenceInv, WellTimed

\* GET /api/events: the new stream has waited as long as its heartbeat is old.
LEMMA OpenEventsInv ==
  ASSUME PresenceInv, NEW n \in Nodes, NEW c \in Conns, OpenEvents(n, c)
  PROVE  PresenceInv'
<1>1. BrokerInv'
  BY ConnectInv DEF PresenceInv, OpenEvents
<1>2. PresenceOwnTypeOK'
  BY BeatInv, PresenceAssumption DEF PresenceInv, PresenceOwnTypeOK, OpenEvents
<1>3. Fresh'
  BY BeatInv DEF PresenceInv, OpenEvents
<1>4. JustSent'
  BY DEF PresenceInv, PresenceOwnTypeOK, BrokerInv, BrokerTypeOK, JustSent, OpenEvents, Connect
<1>5. ASSUME WellTimed PROVE Quiet'
  <2> SUFFICES ASSUME NEW m \in Nodes \ tasked', IsConnected(m)', status'[m] # "absent"
               PROVE  Kept(m)'
    BY DEF Quiet
  <2>1. CASE m = n
    <3>1. queues'[n] = c /\ buf'[c] = <<>> /\ idle'[c] = 0
      BY DEF PresenceInv, PresenceOwnTypeOK, BrokerInv, BrokerTypeOK, OpenEvents, Connect
    <3>2. status'[n] = "online" /\ age'[n] = 0
      BY <2>1, BeatInv DEF PresenceInv, OpenEvents
    <3> QED
      BY <2>1, <3>1, <3>2 DEF Kept
  <2>2. CASE m # n
    <3>1. queues'[m] = queues[m] /\ IsConnected(m)
      BY <2>2 DEF PresenceInv, BrokerInv, BrokerTypeOK, OpenEvents, Connect, IsConnected
    <3>2. queues[m] \in Conns /\ queues[m] # c
      BY <3>1, OwnStream DEF PresenceInv, OpenEvents, Connect, Open
    <3>3. buf'[queues[m]] = buf[queues[m]] /\ idle'[queues[m]] = idle[queues[m]]
      BY <3>2 DEF PresenceInv, PresenceOwnTypeOK, BrokerInv, BrokerTypeOK, OpenEvents, Connect
    <3>4. status'[m] = status[m] /\ age'[m] = age[m] /\ m \notin tasked /\ sweepAge' = sweepAge
      BY <2>2, BeatInv DEF PresenceInv, OpenEvents
    <3>5. Kept(m)
      BY <1>5, <3>1, <3>4 DEF PresenceInv, Quiet
    <3> QED
      BY <3>1, <3>3, <3>4, <3>5 DEF Kept
  <2> QED
    BY <2>1, <2>2
<1> QED
  BY <1>1, <1>2, <1>3, <1>4, <1>5 DEF PresenceInv, WellTimed

\* A task is pushed: its node is not quiet any more.
LEMMA PushTaskInv ==
  ASSUME PresenceInv, NEW n \in Nodes, NEW t \in Tasks, PushTask(n, t)
  PROVE  PresenceInv'
<1>1. BrokerInv'
  BY PutInv DEF PresenceInv, PushTask, Push, Events
<1>2. PresenceOwnTypeOK' /\ Fresh' /\ JustSent'
  BY DEF PresenceInv, PresenceOwnTypeOK, Fresh, BeforeFirstSweep, JustSent, PushTask, Push
<1>3. ASSUME WellTimed PROVE Quiet'
  <2> SUFFICES ASSUME NEW m \in Nodes \ tasked', IsConnected(m)', status'[m] # "absent"
               PROVE  Kept(m)'
    BY DEF Quiet
  <2>1. m # n /\ m \notin tasked /\ IsConnected(m) /\ IsConnected(n)
    BY DEF PresenceInv, PresenceOwnTypeOK, PushTask, Push, IsConnected
  <2>2. queues[m] \in Conns /\ queues[m] # queues[n]
    BY <2>1, OwnStream DEF PresenceInv
  <2>3. buf'[queues[m]] = buf[queues[m]]
    BY <2>2 DEF PresenceInv, BrokerInv, BrokerTypeOK, PushTask, Push, Put
  <2>4. Kept(m)
    BY <1>3, <2>1 DEF PresenceInv, Quiet, PushTask
  <2> QED
    BY <2>3, <2>4 DEF Kept, PushTask, Push
<1> QED
  BY <1>1, <1>2, <1>3 DEF PresenceInv, WellTimed

\* What a resumed generator does to its node, if it serves one.
LEMMA ResumeBeatInv ==
  ASSUME PresenceInv, NEW c \in Conns, ResumeBeat(c), UNCHANGED <<sweepAge, uptime>>
  PROVE  /\ status' \in [Nodes -> {"absent", "online", "offline"}]
         /\ age' \in [Nodes -> 0..MaxAge]
         /\ tasked' \in SUBSET tasked
         /\ \A m \in Nodes :
              /\ status'[m] # "absent" => status[m] # "absent"
              /\ m # owner[c] \/ gen[c] # "ping" =>
                   /\ status'[m] = status[m] /\ age'[m] = age[m]
                   /\ m \in tasked => m \in tasked'
              /\ m = owner[c] /\ gen[c] = "ping" /\ status'[m] # "absent" =>
                   status'[m] = "online" /\ age'[m] = 0
         /\ Fresh'
<1>1. CASE gen[c] = "ping"
  <2>1. Beat(owner[c])
    BY <1>1 DEF ResumeBeat
  <2> QED
    BY <1>1, <2>1, BeatInv DEF PresenceInv, PresenceOwnTypeOK
<1>2. CASE gen[c] # "ping"
  BY <1>2 DEF PresenceInv, PresenceOwnTypeOK, ResumeBeat, Fresh, BeforeFirstSweep
<1> QED
  BY <1>1, <1>2

\* The generator goes on with the next event or back to waiting.  An event it
\* takes was put there by the last sweep, at this instant.
LEMMA GeneratorLoopInv ==
  ASSUME PresenceInv, NEW c \in Conns, Loop(c)
  PROVE  PresenceInv'
<1>1. BrokerInv'
  BY LoopInv DEF PresenceInv, Loop
<1>2. /\ queues' = queues /\ owner' = owner
      /\ idle' = [idle EXCEPT ![c] = 0]
      /\ sweepAge' = sweepAge /\ uptime' = uptime
      /\ ResumeBeat(c)
      /\ \A d \in Conns \ {c} : buf'[d] = buf[d] /\ gen'[d] = gen[d]
  BY DEF PresenceInv, BrokerInv, BrokerTypeOK, Loop, Take, Block
<1>3. PresenceOwnTypeOK'
  BY <1>2, ResumeBeatInv, PresenceAssumption DEF PresenceInv, PresenceOwnTypeOK
<1>4. Fresh'
  BY <1>2, ResumeBeatInv
<1>5. JustSent'
  BY <1>2 DEF PresenceInv, PresenceOwnTypeOK, JustSent
<1>6. ASSUME WellTimed PROVE Quiet'
  <2> SUFFICES ASSUME NEW m \in Nodes \ tasked', IsConnected(m)', status'[m] # "absent"
               PROVE  Kept(m)'
    BY DEF Quiet
  <2>1. IsConnected(m) /\ queues[m] \in Conns /\ owner[queues[m]] = m
    BY <1>2, OwnStream DEF PresenceInv, IsConnected
  <2>2. CASE gen[c] = "ping" /\ m = owner[c]
    <3>1. status'[m] = "online" /\ age'[m] = 0
      BY <1>2, <2>2, ResumeBeatInv
    <3>2. idle'[queues[m]] \in 0..KeepAlive
      BY <1>2, <1>3, <2>1 DEF PresenceOwnTypeOK
    <3> QED
      BY <1>2, <3>1, <3>2, PresenceAssumption DEF Kept
  <2>3. CASE gen[c] # "ping" \/ m # owner[c]
    <3>1. status'[m] = status[m] /\ age'[m] = age[m] /\ m \notin tasked
      BY <1>2, <2>3, ResumeBeatInv
    <3>2. Kept(m)
      BY <1>6, <2>1, <3>1 DEF PresenceInv, Quiet
    <3>3. CASE queues[m] # c
      BY <1>2, <2>1, <3>1, <3>2, <3>3 DEF PresenceInv, PresenceOwnTypeOK, Kept
    <3>4. CASE queues[m] = c
      <4>1. gen[c] # "ping" /\ idle'[c] = 0
        BY <1>2, <2>1, <2>3, <3>4 DEF PresenceInv, PresenceOwnTypeOK
      <4>2. CASE Take(c)
        BY <1>2, <3>1, <3>2, <3>4, <4>1, <4>2 DEF Take, Kept
      <4>3. CASE Block(c)
        <5>1. buf'[c] = <<>> /\ idle[c] = 0
          BY <4>1, <4>3 DEF PresenceInv, JustSent, Block
        <5> QED
          BY <1>2, <3>1, <3>2, <3>4, <4>1, <5>1 DEF Kept
      <4> QED
        BY <4>2, <4>3 DEF Loop
    <3> QED
      BY <3>3, <3>4
  <2> QED
    BY <2>2, <2>3
<1> QED
  BY <1>1, <1>3, <1>4, <1>5, <1>6 DEF PresenceInv, WellTimed

\* The keep-alive timer goes off.
LEMMA KeepAliveInv ==
  ASSUME PresenceInv, NEW c \in Conns, KeepAliveDue(c)
  PROVE  PresenceInv'
<1>1. BrokerInv'
  BY LoopInv DEF PresenceInv, KeepAliveDue
<1>2. PresenceOwnTypeOK' /\ Fresh'
  BY DEF PresenceInv, PresenceOwnTypeOK, Fresh, BeforeFirstSweep, KeepAliveDue
<1>3. JustSent'
  BY DEF PresenceInv, BrokerInv, BrokerTypeOK, JustSent, KeepAliveDue, Timeout
<1>4. Quiet => Quiet'
  BY DEF Quiet, Kept, IsConnected, KeepAliveDue, Timeout
<1> QED
  BY <1>1, <1>2, <1>3, <1>4 DEF PresenceInv, WellTimed

\* A stream ends: its node is not connected any more.
LEMMA CloseEventsInv ==
  ASSUME PresenceInv, NEW c \in Conns, CloseEvents(c)
  PROVE  PresenceInv'
<1>1. BrokerInv'
  BY FinishInv DEF PresenceInv, CloseEvents
<1>2. PresenceOwnTypeOK'
  <2>1. status' \in [Nodes -> {"absent", "online", "offline"}]
    <3>1. CASE owner[c] \in Nodes
      <4>1. status[owner[c]] \in {"absent", "online", "offline"}
        BY <3>1 DEF PresenceInv, PresenceOwnTypeOK
      <4> QED
        BY <4>1 DEF PresenceInv, PresenceOwnTypeOK, CloseEvents, MarkOffline
    <3>2. CASE owner[c] \notin Nodes
      BY <3>2 DEF PresenceInv, PresenceOwnTypeOK, CloseEvents, MarkOffline
    <3> QED
      BY <3>1, <3>2
  <2>2. idle' \in [Conns -> 0..KeepAlive]
    BY PresenceAssumption DEF PresenceInv, PresenceOwnTypeOK, CloseEvents
  <2> QED
    BY <2>1, <2>2 DEF PresenceInv, PresenceOwnTypeOK, CloseEvents, MarkOffline
<1>3. Fresh'
  BY DEF PresenceInv, PresenceOwnTypeOK, Fresh, BeforeFirstSweep, CloseEvents, MarkOffline
<1>4. JustSent'
  BY DEF PresenceInv, PresenceOwnTypeOK, BrokerInv, BrokerTypeOK, JustSent, CloseEvents, Finish
<1>5. ASSUME WellTimed PROVE Quiet'
  <2> SUFFICES ASSUME NEW m \in Nodes \ tasked', IsConnected(m)', status'[m] # "absent"
               PROVE  Kept(m)'
    BY DEF Quiet
  <2>1. m # owner[c] /\ queues'[m] = queues[m]
    BY DEF PresenceInv, BrokerInv, BrokerTypeOK, IsConnected, CloseEvents, Finish
  <2>2. queues[m] \in Conns \ {c}
    BY <2>1, OwnStream DEF PresenceInv, IsConnected
  <2>3. /\ buf'[queues[m]] = buf[queues[m]] /\ idle'[queues[m]] = idle[queues[m]]
        /\ status'[m] = status[m] /\ UNCHANGED <<age, sweepAge, tasked>>
    BY <2>1, <2>2 DEF PresenceInv, PresenceOwnTypeOK, BrokerInv, BrokerTypeOK,
       CloseEvents, MarkOffline, Finish
  <2>4. Kept(m)
    BY <1>5, <2>1, <2>3 DEF PresenceInv, Quiet, IsConnected
  <2> QED
    BY <2>1, <2>3, <2>4 DEF Kept
<1> QED
  BY <1>1, <1>2, <1>3, <1>4, <1>5 DEF PresenceInv, WellTimed

\* The sweeper: a stream that has waited for the whole period would have been
\* refreshed by its keep-alive, which is due earlier.
LEMMA SweepInv ==
  ASSUME PresenceInv, Sweep
  PROVE  PresenceInv'
<1>1. BrokerInv'
  BY BroadcastInv DEF PresenceInv, Sweep
<1>2. PresenceOwnTypeOK'
  BY PresenceAssumption DEF PresenceInv, PresenceOwnTypeOK, Sweep, SweepStale
<1>3. \A n \in Nodes : status'[n] = "online" => age'[n] <= Stale
  BY PresenceAssumption DEF PresenceInv, PresenceOwnTypeOK, Sweep, SweepStale
<1>4. Fresh'
  BY <1>2, <1>3, PresenceAssumption DEF Fresh, Sweep, PresenceOwnTypeOK
<1>5. JustSent'
  BY DEF PresenceInv, JustSent, Sweep, BroadcastPing
<1>6. ASSUME WellTimed PROVE Quiet'
  <2> SUFFICES ASSUME NEW m \in Nodes \ tasked', IsConnected(m)', status'[m] # "absent"
               PROVE  Kept(m)'
    BY DEF Quiet
  <2>1. /\ queues[m] \in Conns /\ queues' = queues /\ idle' = idle /\ age' = age
        /\ sweepAge = SweepPeriod /\ sweepAge' = 0 /\ m \notin tasked
    BY OwnStream DEF PresenceInv, IsConnected, Sweep, SweepStale, BroadcastPing
  <2>2. idle[queues[m]] \in 0..KeepAlive /\ age[m] \in 0..MaxAge
    BY <2>1 DEF PresenceInv, PresenceOwnTypeOK
  <2>3. Kept(m)
    BY <1>6, <2>1 DEF PresenceInv, PresenceOwnTypeOK, Quiet, IsConnected, Sweep, SweepStale
  <2>4. age[m] <= idle[queues[m]]
    BY <1>6, <2>1, <2>2, <2>3, PresenceAssumption DEF Kept, WellTimed
  <2>5. ~(age[m] > Stale)
    BY <1>6, <2>2, <2>4, PresenceAssumption DEF WellTimed
  <2>6. status'[m] = "online"
    BY <2>3, <2>5 DEF Kept, Sweep, SweepStale
  <2> QED
    BY <2>1, <2>4, <2>6 DEF Kept
<1> QED
  BY <1>1, <1>2, <1>4, <1>5, <1>6 DEF PresenceInv, WellTimed

\* A new process has no streams, and waits for its first sweep.
LEMMA RestartInv ==
  ASSUME PresenceInv, RestartMaster
  PROVE  PresenceInv'
<1>1. BrokerInv'
  BY DEF PresenceInv, BrokerInv, BrokerTypeOK, RegisteredQueueIsServed, IsConnected,
     GenStates, RestartMaster
<1>2. PresenceOwnTypeOK'
  BY PresenceAssumption DEF PresenceInv, PresenceOwnTypeOK, RestartMaster
<1>3. Timing'
  BY PresenceAssumption DEF Timing, Fresh, BeforeFirstSweep, JustSent, Quiet, IsConnected,
     RestartMaster
<1> QED
  BY <1>1, <1>2, <1>3 DEF PresenceInv, Timing

\* Time passes: a node, its stream and the sweeper grow older together.
LEMMA TickInv ==
  ASSUME PresenceInv, Tick
  PROVE  PresenceInv'
<1>1. BrokerInv'
  BY QueueStepInv DEF PresenceInv, BrokerInv, BrokerTypeOK, Tick, brokerVars
<1>2. PresenceOwnTypeOK'
  BY PresenceAssumption DEF PresenceInv, PresenceOwnTypeOK, Tick, GrowOlder, Settled, Open
<1>3. \A n \in Nodes : age'[n] \in 0..MaxAge /\ age'[n] <= age[n] + 1
  BY PresenceAssumption DEF PresenceInv, PresenceOwnTypeOK, Tick, GrowOlder
<1>4. Fresh'
  <2>1. /\ uptime \in Nat /\ sweepAge \in Nat /\ sweepAge < SweepPeriod
        /\ sweepAge' = sweepAge + 1
    BY PresenceAssumption DEF PresenceInv, PresenceOwnTypeOK, Tick, Settled
  <2>2. CASE BeforeFirstSweep
    BY <2>1, <2>2, PresenceAssumption DEF Tick, Fresh, BeforeFirstSweep
  <2>3. CASE ~BeforeFirstSweep
    BY <1>3, <2>1, <2>3, PresenceAssumption DEF PresenceInv, PresenceOwnTypeOK, Tick,
       GrowOlder, Fresh
  <2> QED
    BY <2>2, <2>3
<1>5. JustSent'
  BY DEF PresenceInv, JustSent, Tick, Settled, Open, brokerVars
<1>6. ASSUME WellTimed PROVE Quiet'
  <2> SUFFICES ASSUME NEW m \in Nodes \ tasked', IsConnected(m)', status'[m] # "absent"
               PROVE  Kept(m)'
    BY DEF Quiet
  <2>1. /\ IsConnected(m) /\ m \notin tasked
        /\ UNCHANGED <<queues, gen, buf, status>>
    BY DEF IsConnected, Tick, GrowOlder, brokerVars
  <2>2. queues[m] \in Conns /\ Open(queues[m])
    BY <2>1, OwnStream DEF PresenceInv
  <2>3. /\ idle'[queues[m]] = idle[queues[m]] + 1 /\ sweepAge' = sweepAge + 1
        /\ buf[queues[m]] = <<>>
    BY <2>2 DEF Tick, Settled
  <2>4. Kept(m)
    BY <1>6, <2>1 DEF PresenceInv, Quiet
  <2>5. idle[queues[m]] \in Nat /\ age[m] \in Nat
    BY <2>2 DEF PresenceInv, PresenceOwnTypeOK
  <2> QED
    BY <1>3, <2>1, <2>3, <2>4, <2>5 DEF Kept
<1> QED
  BY <1>1, <1>2, <1>4, <1>5, <1>6 DEF PresenceInv, WellTimed

\* Every step keeps the invariant.
LEMMA PresenceStepInv == PresenceInv /\ [PresenceNext]_presenceVars => PresenceInv'
<1> SUFFICES ASSUME PresenceInv, [PresenceNext]_presenceVars PROVE PresenceInv'
  OBVIOUS
<1>1. ASSUME NEW n \in Nodes, RegisterNode(n) \/ PostHeartbeat(n) PROVE PresenceInv'
  BY <1>1, RefreshInv
<1>2. ASSUME NEW n \in Nodes, NEW c \in Conns, OpenEvents(n, c) PROVE PresenceInv'
  BY <1>2, OpenEventsInv
<1>3. ASSUME NEW n \in Nodes, NEW t \in Tasks, PushTask(n, t) PROVE PresenceInv'
  BY <1>3, PushTaskInv
<1>4. ASSUME NEW c \in Conns, Loop(c) \/ KeepAliveDue(c) \/ CloseEvents(c) PROVE PresenceInv'
  BY <1>4, GeneratorLoopInv, KeepAliveInv, CloseEventsInv
<1>5. CASE Sweep \/ RestartMaster \/ Tick
  BY <1>5, SweepInv, RestartInv, TickInv
<1>6. CASE UNCHANGED presenceVars
  <2>1. BrokerInv'
    BY <1>6, QueueStepInv DEF PresenceInv, BrokerInv, BrokerTypeOK, presenceVars, brokerVars
  <2>2. PresenceOwnTypeOK' /\ Fresh' /\ JustSent'
    BY <1>6 DEF PresenceInv, PresenceOwnTypeOK, Fresh, BeforeFirstSweep, JustSent,
       presenceVars, brokerVars
  <2>3. Quiet => Quiet'
    BY <1>6 DEF Quiet, Kept, IsConnected, presenceVars, brokerVars
  <2> QED
    BY <2>1, <2>2, <2>3 DEF PresenceInv, WellTimed
<1> QED
  BY <1>1, <1>2, <1>3, <1>4, <1>5, <1>6 DEF PresenceNext

\* Type correctness of the pool, the registry and the timers.
THEOREM PresenceTypeCorrect == PresenceSpec => []PresenceTypeOK
<1>1. PresenceInv => PresenceTypeOK
  BY DEF PresenceInv, BrokerInv, PresenceOwnTypeOK, PresenceTypeOK, RegistryTypeOK
<1> QED
  BY <1>1, PresenceInitInv, PresenceStepInv, PTL DEF PresenceSpec

\* Whatever the timeouts, once a master has made its first sweep no row says
\* "online" for longer than heartbeat_timeout and a sweep period.
THEOREM PresenceOnlineIsFresh == PresenceSpec => []OnlineIsFresh
<1>1. PresenceInv => OnlineIsFresh
  <2> SUFFICES ASSUME PresenceInv, NEW n \in Nodes, status[n] = "online", uptime > SweepPeriod
               PROVE  age[n] <= Stale + SweepPeriod
    BY DEF OnlineIsFresh
  <2>1. /\ age[n] \in Nat /\ sweepAge \in Nat /\ sweepAge <= SweepPeriod
        /\ uptime \in Nat
    BY PresenceAssumption DEF PresenceInv, PresenceOwnTypeOK
  <2>2. age[n] <= Stale + sweepAge
    BY <2>1, PresenceAssumption DEF PresenceInv, Fresh, BeforeFirstSweep
  <2> QED
    BY <2>1, <2>2, PresenceAssumption
<1> QED
  BY <1>1, PresenceInitInv, PresenceStepInv, PTL DEF PresenceSpec

\* When the keep-alive timer fits between two sweeps and into
\* heartbeat_timeout, an idle worker whose stream is open is never shown
\* offline, however its streams are replaced and whenever the master restarts.
THEOREM PresenceQuietIsOnline == WellTimed => (PresenceSpec => []QuietIsOnline)
<1> SUFFICES ASSUME WellTimed PROVE PresenceSpec => []QuietIsOnline
  OBVIOUS
<1>1. PresenceInv => QuietIsOnline
  BY DEF PresenceInv, Quiet, Kept, QuietIsOnline
<1> QED
  BY <1>1, PresenceInitInv, PresenceStepInv, PTL DEF PresenceSpec
=============================================================================
