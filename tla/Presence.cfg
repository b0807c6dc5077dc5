SPECIFICATION PresenceSpec
CONSTANTS
  Nodes = {n1}
  Conns = {c1, c2}
  Tasks = {t1}
  Ping = Ping
  NoConn = NoConn
  NoNode = NoNode
  MaxQueue = 2
  Stale = 6
  MaxAge = 10
  KeepAlive = 2
  SweepPeriod = 3
SYMMETRY Symmetry
INVARIANTS
  PresenceTypeOK
  OnlineIsFresh
  QuietIsOnline
