SPECIFICATION Spec
CONSTANTS
  t1 = t1
  t2 = t2
  r1 = r1
  Thread = {t1, t2}
  Peer = {r1}
  MaxSurvey = 2
  IdSpace = 3
  UwqLen = 1
  UrqLen = 1
  PeerQLen = 1
  RecvDeadline = TRUE
  TimeMoves = TRUE
INVARIANT OneResponseEach
PROPERTY ResponseToLatest
 
CHECK_DEADLOCK FALSE
