SPECIFICATION ClientSpec
CONSTANTS
  Sock = {s1, s2}
  Handle = {h1, h2, h3, h4}
  Addr = {a1}
  AnyIp = AnyIp
  None = None
  QueueMax = 3
  PortNum = 2
  PortStart = 1
  PortEnd = 1
PROPERTIES ReadyNeverMovesBack ReadyAcceptReturns DecidedConnectReturns
CHECK_DEADLOCK FALSE
