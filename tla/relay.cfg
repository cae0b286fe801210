SPECIFICATION Spec
CONSTANTS
  c1 = c1
  c2 = c2
  d1 = d1
  d2 = d2
  s = s
  Client = {c1, c2}
  Device = {d1, d2}
  Server = {s}
  Topology <- Networks
  Kind = {"reqrep", "survey"}
  MaxReq = 1
  MaxCopies = 2
  MaxLoss = 1
  TTL = 3
  QLen = 1
  UqLen = 1
INVARIANT RoutedHome
PROPERTY Relayed
PROPERTY DiesOut
CHECK_DEADLOCK FALSE
