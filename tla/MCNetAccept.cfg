SPECIFICATION ServerSpec
CONSTANTS
  Sock = {s1, s2}
  Handle = {h1, h2, h3}
  Addr = {a1}
  AnyIp = AnyIp
  None = None
  QueueMax = 1
  PortNum = 2
  PortStart = 1
  PortEnd = 1
  Requests <- SetupRequests
PROPERTIES AcceptReturns
CHECK_DEADLOCK FALSE
