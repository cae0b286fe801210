SPECIFICATION SafeSpec
CONSTANTS
  t1 = t1
  t2 = t2
  p1 = p1
  Thread = {t1, t2}
  Pipe = {p1}
  MaxReq = 2
  IdSpace = 3
  UwqLen = 1
  UrqLen = 1
  RecvDeadline = TRUE
  SendMode = "deadline"
  RetryMoves = {TRUE}
  Lossy = FALSE
SYMMETRY ReqSymmetry
INVARIANT RetryPending
INVARIANT ReplyOnce
PROPERTY Implements
CHECK_DEADLOCK FALSE
