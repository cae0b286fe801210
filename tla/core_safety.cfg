SPECIFICATION Spec
CONSTANTS
  p1 = p1
  p2 = p2
  p3 = p3
  l1 = l1
  Pipe = {p1, p2, p3}
  Dialer = {}
  Listener = {l1}
  IdSpace = 3
  ClearsEps = TRUE
  AcceptErrClosed = TRUE
  HookMoves = FALSE
  NoPipe = NoPipe
SYMMETRY PipeSymmetry
INVARIANT IdsUnique
INVARIANT QueueClosedOnce
INVARIANT CloseSweeps
INVARIANT LiveReachable
CHECK_DEADLOCK FALSE
