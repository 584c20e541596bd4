SPECIFICATION RetrySpec
CONSTANTS
  Sock = {s1}
  Handle = {h1, h2}
  Addr = {a1}
  AnyIp = AnyIp
  None = None
  QueueMax = 2
  PortNum = 2
  PortStart = 1
  PortEnd = 1
PROPERTIES RetriedOperationCompletes
CHECK_DEADLOCK FALSE
