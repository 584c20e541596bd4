SPECIFICATION Spec
CONSTANTS
  Sock = {s1, s2}
  Handle = {h1, h2, h3}
  Addr = {a1}
  AnyIp = AnyIp
  None = None
  QueueMax = 2
  PortNum = 2
  PortStart = 1
  PortEnd = 2
SYMMETRY Symmetry
VIEW View
INVARIANT BindNeverPanics
CHECK_DEADLOCK FALSE
