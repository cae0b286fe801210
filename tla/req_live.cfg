SPECIFICATION Spec
CONSTANTS
  t1 = t1
  p1 = p1
  p2 = p2
  Thread = {t1}
  Pipe = {p1, p2}
  MaxReq = 1
  IdSpace = 2
  UwqLen = 1
  UrqLen = 1
  RecvDeadline = FALSE
  SendMode = "besteffort"
  RetryMoves = {}
  Lossy = TRUE
PROPERTY Answered
CHECK_DEADLOCK FALSE
