SPECIFICATION InprocSpec
CONSTANTS
  l1 = l1
  l2 = l2
  d1 = d1
  d2 = d2
  d3 = d3
  NoOne = NoOne
  Listener = {l1, l2}
  Dialer = {d1, d2, d3}
  Misfit = {d3}
  MaxListen = 2
  MaxEnd = 3
INVARIANT OnePeer
PROPERTY DialReturns
PROPERTY CloseUnblocks
CHECK_DEADLOCK FALSE
