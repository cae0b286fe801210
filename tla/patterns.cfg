SPECIFICATION SafeSpec
CONSTANTS
  a = a
  b = b
  c = c
  NoNode = NoNode
  Node = {a, b, c}
  Link <- Line
  Source = {b}
  Talker = {a, b, c}
  Device = {b}
  Protocol = {"pipeline", "pair", "pubsub", "bus", "star"}
  MaxMsg = 2
  MaxTopic = 1
  TTL = {1, 2}
  QLen = 1
  UwqLen = 2
  UrqLen = 1
SYMMETRY LineSymmetry
 
 
INVARIANT Served
 
 
CHECK_DEADLOCK FALSE
