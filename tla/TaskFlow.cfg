SPECIFICATION TaskFlowSpec
CONSTANTS
  Nodes = {n1, n2}
  Conns = {c1, c2}
  Tasks = {t1, t2}
  Ping = Ping
  NoConn = NoConn
  NoNode = NoNode
  MaxQueue = 0
  Outcomes <- MCOneOutcome
  NoResult = NoResult
  NoFuture = NoFuture
  Pending = Pending
  Cancelled = Cancelled
  NoTask = NoTask
  NoOutcome = NoOutcome
  Faults <- FaultKinds
  MaxFaults = 2
SYMMETRY Symmetry
INVARIANTS
  TaskFlowTypeOK
  AtMostOnce
  StartedInOrder
  AnswersAreTrue
  WaiterReachable
  NoEntryAfterAnswer
  AcceptedAccounted
  QueuedOnce
  RegisteredQueueIsServed
  NothingLost
PROPERTY ImplementsService
