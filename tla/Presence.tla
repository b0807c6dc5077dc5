------------------------------ MODULE Presence ------------------------------
(***************************************************************************)
(* What GET /api/nodes says of a node: the registry together with all that *)
(* writes to it - the handlers and the event generators of                 *)
(* master/api/nodes.py and the sweeper task of master/app.py.              *)
(*                                                                         *)
(* Time is discrete.  The event loop is assumed to be timely: time passes  *)
(* only when every generator waits and no timer is due.  Timers due at the *)
(* same instant fire in any order.                                         *)
(***************************************************************************)
EXTENDS Broker

CONSTANTS
  Stale,       \* heartbeat_timeout
  MaxAge,      \* bound: ages are not counted beyond this one
  KeepAlive,   \* 30 s: the timeout of queue.get()
  SweepPeriod  \* heartbeat_timeout // 2

\* A timeout of 0 or 1 s makes the period 0: the sweeper then spins.
ASSUME PresenceAssumption ==
  /\ KeepAlive \in Nat \ {0}
  /\ SweepPeriod \in Nat \ {0}
  /\ Stale \in Nat
  /\ MaxAge \in Nat /\ MaxAge > Stale + SweepPeriod

VARIABLES
  status, age, \* of module Registry
  idle,       \* how long a connection has been in queue.get()
  sweepAge,   \* how long the sweeper has slept
  uptime,     \* how long the process runs, counted up to SweepPeriod + 1
  tasked      \* history: nodes sent a task since their last heartbeat

INSTANCE Registry

presenceVars == <<brokerVars, status, age, idle, sweepAge, uptime,
                  tasked>>

PresenceTypeOK ==
  /\ BrokerTypeOK
  /\ RegistryTypeOK
  /\ idle \in [Conns -> 0..KeepAlive]
  /\ sweepAge \in 0..SweepPeriod
  /\ uptime \in 0..SweepPeriod + 1
  /\ tasked \in SUBSET Nodes

PresenceInit ==
  /\ BrokerInit
  /\ RegistryInit
  /\ idle = [c \in Conns |-> 0]
  /\ sweepAge = 0
  /\ uptime = 0
  /\ tasked = {}

-----------------------------------------------------------------------------
\* POST /api/nodes/register; the daemon sends it once, when it starts.
RegisterNode(n) ==
  /\ Register(n)
  /\ tasked' = tasked \ {n}
  /\ UNCHANGED <<brokerVars, idle, sweepAge, uptime>>

\* registry.heartbeat(), whoever calls it.
Beat(n) == Heartbeat(n) /\ tasked' = tasked \ {n}

\* POST /api/nodes/heartbeat; the daemon never sends it.
PostHeartbeat(n) == Beat(n) /\ UNCHANGED <<brokerVars, idle, sweepAge, uptime>>

\* GET /api/events.
OpenEvents(n, c) ==
  /\ Connect(n, c)
  /\ Beat(n)
  /\ idle' = [idle EXCEPT ![c] = 0]
  /\ UNCHANGED <<sweepAge, uptime>>

PushTask(n, t) ==
  /\ Push(n, t)
  /\ tasked' = tasked \cup {n}
  /\ UNCHANGED <<status, age, idle, sweepAge, uptime>>

\* Mutant: the keep-alive branch does not refresh the node.
MutResumeBeat(c) == UNCHANGED <<status, age, tasked>>

\* Resumed after the keep-alive was sent, the generator refreshes its node.
ResumeBeat(c) ==
  IF gen[c] = "ping" THEN Beat(owner[c]) ELSE UNCHANGED <<status, age, tasked>>

\* The generator's loop: on with the next event, or back to waiting.
Loop(c) ==
  /\ Take(c) \/ Block(c)
  /\ ResumeBeat(c)
  /\ idle' = [idle EXCEPT ![c] = 0]
  /\ UNCHANGED <<sweepAge, uptime>>

KeepAliveDue(c) ==
  /\ idle[c] = KeepAlive
  /\ Timeout(c)
  /\ UNCHANGED <<status, age, idle, sweepAge, uptime, tasked>>

\* The generator ends; its finally clause disconnects and marks offline.
CloseEvents(c) ==
  /\ Finish(c)
  /\ MarkOffline(owner[c])
  /\ idle' = [idle EXCEPT ![c] = 0]
  /\ UNCHANGED <<sweepAge, uptime, tasked>>

\* The sweeper wakes up: it sweeps and pings without suspending in between.
Sweep ==
  /\ sweepAge = SweepPeriod
  /\ SweepStale
  /\ BroadcastPing
  /\ sweepAge' = 0
  /\ UNCHANGED <<idle, uptime, tasked>>

\* The process is replaced: the rows stay, the streams go.
RestartMaster ==
  /\ queues' = [n \in Nodes |-> NoConn]
  /\ gen' = [c \in Conns |-> "closed"]
  /\ buf' = [c \in Conns |-> <<>>]
  /\ idle' = [c \in Conns |-> 0]
  /\ sweepAge' = 0
  /\ uptime' = 0
  /\ UNCHANGED <<owner, status, age, tasked>>

\* Nothing is left to do at this instant.
Settled ==
  /\ sweepAge < SweepPeriod
  /\ \A c \in Conns :
       Open(c) => gen[c] = "wait" /\ buf[c] = <<>> /\ idle[c] < KeepAlive

Tick ==
  /\ Settled
  /\ GrowOlder
  /\ idle' = [c \in Conns |-> IF Open(c) THEN idle[c] + 1 ELSE 0]
  /\ sweepAge' = sweepAge + 1
  /\ uptime' = IF uptime <= SweepPeriod THEN uptime + 1 ELSE uptime
  /\ UNCHANGED <<brokerVars, tasked>>

PresenceNext ==
  \/ \E n \in Nodes : RegisterNode(n) \/ PostHeartbeat(n)
  \/ \E n \in Nodes, c \in Conns : OpenEvents(n, c)
  \/ \E n \in Nodes, t \in Tasks : PushTask(n, t)
  \/ \E c \in Conns : Loop(c) \/ KeepAliveDue(c) \/ CloseEvents(c)
  \/ Sweep
  \/ RestartMaster
  \/ Tick

PresenceSpec == PresenceInit /\ [][PresenceNext]_presenceVars

-----------------------------------------------------------------------------
\* A row says "online" for at most heartbeat_timeout plus one sweep period
\* after its last heartbeat, also when the worker vanished without a trace or
\* the master restarted over a row left "online"; a restarted master needs
\* its first sweep for that.
OnlineIsFresh ==
  \A n \in Nodes :
    status[n] = "online" /\ uptime > SweepPeriod => age[n] <= Stale + SweepPeriod

\* A node with a live stream is shown online unless it was sent a task since
\* its last heartbeat.  The event generator's keep-alive timer is the source
\* of heartbeats, and the pings of the sweeper itself restart that timer.
QuietIsOnline ==
  \A n \in Nodes \ tasked :
    IsConnected(n) /\ status[n] # "absent" => status[n] = "online"

\* A node with a live stream is shown online: docs/deploy.md takes
\* GET /api/nodes to tell whether a worker is online.
ConnectedIsOnline ==
  \A n \in Nodes :
    IsConnected(n) /\ status[n] # "absent" => status[n] = "online"
=============================================================================
