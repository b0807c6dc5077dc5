SPECIFICATION TaskFlowSpec
CONSTANTS
  Nodes = {n1}
  Conns = {c1, c2}
  Tasks = {t1}
  Ping = Ping
  NoConn = NoConn
  NoNode = NoNode
  MaxQueue = 0
  Outcomes <- MCOneOutcome
  NoResult = NoResult
  NoFuture = NoFuture
  Pending = Pending
  Cancelled = Cancelled
  NoTask = NoTask
  NoOutcome = NoOutcome
  Faults = {"exec"}
  MaxFaults = 1
PROPERTY StartedIsReported
