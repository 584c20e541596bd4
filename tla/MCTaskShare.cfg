SPECIFICATION Spec
CONSTANTS
  MaxTask = 2
  LastPage = 4
  PageSize = 2
  PtSpan = 5
  UspaceBase = 2
  HeapBase = 6
  HeapSize = 2
  HeapInit = 10
  ImagePages <- MCImage
  ExecPages <- MCExec
  StackPages <- MCStack
  ImageIpc = 2
  ExecIpc = 3
  CloneIpc = 0
  Calls <- MemoryCalls
  Address <- MCAddress
  Length <- MCLength
  SlotStart = 1
  SlotEnd = 19
  RecvSlot = 18
INVARIANTS CloneVmShares
CHECK_DEADLOCK FALSE
