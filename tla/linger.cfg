SPECIFICATION Spec
CONSTANTS
  t1 = t1
  p1 = p1
  p2 = p2
  Thread = {t1}
  Pipe = {p1, p2}
  MaxMsg = 2
  MaxLoad = 3
  MaxGen = 2
  UwqLen = 1
  QLen = 1
INVARIANT LingerDelivers
INVARIANT RefsHeld
PROPERTY AcceptedCast
 
CHECK_DEADLOCK FALSE
