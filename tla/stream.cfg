SPECIFICATION Spec
CONSTANTS
  c1 = c1
  c2 = c2
  NoConn = NoConn
  Conn = {c1, c2}
  Setups <- MeetOrTalk
  Sizes = {0, 2}
  MaxMsg = 2
  MaxTalk = 1
  WireCap = 2
INVARIANT Framed
INVARIANT HandshakeAgrees
PROPERTY DialsReturn
PROPERTY CloseReleases
CHECK_DEADLOCK FALSE
