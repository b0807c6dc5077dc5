SPECIFICATION PresenceSpec
CONSTANTS
  Nodes = {n1}
  Conns = {c1}
  Tasks = {}
  Ping = Ping
  NoConn = NoConn
  NoNode = NoNode
  MaxQueue = 2
  Stale = 4
  MaxAge = 8
  KeepAlive = 2
  SweepPeriod = 2
INVARIANT ConnectedIsOnline
