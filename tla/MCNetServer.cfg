SPECIFICATION RoleSpec
CONSTANTS
  Sock = {s1, s2}
  Handle = {h1, h2, h3}
  Addr = {a1}
  AnyIp = AnyIp
  None = None
  QueueMax = 1
  PortNum = 2
  PortStart = 1
  PortEnd = 1
  Requests <- RequestOps
INVARIANTS SynQueueSound ServerTypeOK SlotsHoldSockets NoOrphanCall
PROPERTIES PromptRequestAnswered
ACTION_CONSTRAINT TakesFirst
CHECK_DEADLOCK FALSE
