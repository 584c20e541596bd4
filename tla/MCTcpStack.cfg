SPECIFICATION Spec
CONSTANTS
  Sock = {s1, s2}
  Handle = {h1, h2, h3}
  Addr = {a1}
  AnyIp = AnyIp
  None = None
  QueueMax = 2
  PortNum = 3
  PortStart = 2
  PortEnd = 2
SYMMETRY Symmetry
VIEW View
INVARIANTS TypeOK HandleOwnership ConnectedIsEstablished ListenersMatchTable
PROPERTIES LeakOnlyOnReset
CHECK_DEADLOCK FALSE
