SPECIFICATION Spec
CONSTANTS
  MaxTask = 3
  LastPage = 4
  PageSize = 2
  PtSpan = 3
  UspaceBase = 2
  HeapBase = 6
  HeapSize = 1
  HeapInit = 10
  ImagePages <- MCImage
  ExecPages <- MCExec
  StackPages <- MCStack
  ImageIpc = 2
  ExecIpc = 3
  CloneIpc = 0
  Calls <- ThreadCalls
  Address <- MCAddress
  Length <- MCLength
  SlotStart = 1
  SlotEnd = 20
  RecvSlot = 19
INVARIANTS CallerKnown
 
CHECK_DEADLOCK FALSE
