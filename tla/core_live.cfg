SPECIFICATION Spec
CONSTANTS
  p1 = p1
  d1 = d1
  l1 = l1
  Pipe = {p1}
  Dialer = {d1}
  Listener = {l1}
  IdSpace = 2
  ClearsEps = TRUE
  AcceptErrClosed = TRUE
  HookMoves = TRUE
  NoPipe = NoPipe
INVARIANT RemoveOnlyJoined
 
 
PROPERTY Redials
CHECK_DEADLOCK FALSE
