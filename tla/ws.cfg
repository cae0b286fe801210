SPECIFICATION WsSpec
CONSTANTS
  c1 = c1
  c2 = c2
  iswss = TRUE
  WsConn = {c1, c2}
  Misfits = {{}, {c2}}
  WsSizes = {1, 2}
  MaxRecvSize = 1
  WsMaxMsg = 1
  WsMaxListen = 2
INVARIANT PipesAccounted
PROPERTY DialedHeard
PROPERTY CloseEnds
CHECK_DEADLOCK FALSE
