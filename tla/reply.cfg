SPECIFICATION Spec
CONSTANTS
  t1 = t1
  t2 = t2
  p1 = p1
  NoPipe = NoPipe
  Kind = {"rep", "respondent"}
  Thread = {t1, t2}
  Pipe = {p1}
  MaxReq = 2
  MaxHops = 2
  TTL = {1, 2}
  QLen = 1
  UwqLen = 1
  UrqLen = 1
  SendDeadline = TRUE
INVARIANT AnsweredOnce
INVARIANT RepPushOpen
PROPERTY GoodServed
CHECK_DEADLOCK FALSE
